------------------------------ MODULE MCStores ------------------------------
(***************************************************************************)
(* Stores, for TLC.                                                        *)
(***************************************************************************)
EXTENDS Stores

-----------------------------------------------------------------------------
(* SnapshotStore: two operations, two snapshots at most, three moments of  *)
(* the machine.                                                            *)

MCSnapMixes == {{"run", "create", "kill", "fault"}, {"run", "create", "revert", "relaunch"},
                {"alone", "run", "create", "delete", "revert"}, {"alone", "create", "delete", "revert", "kill"},
                {"alone", "run", "create", "revert", "fault"}}

-----------------------------------------------------------------------------
(* RunDevices: two runs, eight command lines, two versions of the host.    *)

Disk_(p, ro) == [path |-> <<p>>, ro |-> ro]
Share(n, p, ro, t) == [name |-> n, path |-> p, ro |-> ro, tag |-> t]
Line(disks, dirs, shared, suspendable, noInput) ==
    [disks |-> disks, dirs |-> dirs, shared |-> shared, suspendable |-> suspendable,
     noInput |-> noInput, noAudio |-> FALSE]
L1 == Line(<<<<"remote", "ro">>, <<"a.img">>>>, <<>>, <<>>, TRUE, FALSE)
L2 == Line(<<>>, <<<<"n", "src", "ro">>, <<"m", "https", "//h", "t.tgz">>, <<"src", "ro,tag=b">>>>, <<>>, FALSE, FALSE)
L3 == Line(<<<<"arm.iso">>>>, <<>>, <<<<"src", "rw">>>>, FALSE, TRUE)
L4 == Line(<<>>, <<<<"https", "//h", "t.tgz", "tag=b">>>>, <<<<"src", "ro">>>>, TRUE, FALSE)
L5 == Line(<<<<"x64.iso">>>>, <<>>, <<>>, FALSE, FALSE)
L6 == Line(<<>>, <<<<"src">>>>, <<<<"src", "ro">>>>, FALSE, FALSE)
L7 == [L1 EXCEPT !.suspendable = FALSE]
L8 == [L6 EXCEPT !.noAudio = TRUE]
MCLines == {{L1, L7}, {L2, L3}, {L4}, {L5, L6}, {L6, L8}}
MCMeans(l) ==
    CASE l \in {L1, L7} -> [disks |-> <<Disk_("remote", TRUE), Disk_("a.img", FALSE)>>, shares |-> {}]
      [] l = L2 -> [disks |-> <<>>,
                    shares |-> {Share("n", <<"src">>, TRUE, "auto"), Share("", <<"src">>, TRUE, "b"),
                                Share("m", <<"https", "//h", "t.tgz">>, FALSE, "auto")}]
      [] l = L3 -> [disks |-> <<Disk_("arm.iso", FALSE)>>, shares |-> {Share("", <<"src">>, FALSE, "auto")}]
      [] l = L5 -> [disks |-> <<Disk_("x64.iso", FALSE)>>, shares |-> {}]
      [] l \in {L6, L8} -> [disks |-> <<>>, shares |-> {}]
      [] l = L4 -> [disks |-> <<>>,
                    shares |-> {Share("", <<"https", "//h", "t.tgz">>, FALSE, "b"), Share("", <<"src">>, TRUE, "auto")}]
MCKindOf(p) ==
    CASE p = <<"remote">> -> "remote" [] p[1] = "https" -> "archive" [] p = <<"arm.iso">> -> "arm64"
      [] p = <<"x64.iso">> -> "x64" [] p = <<"src">> -> "dir" [] OTHER -> "raw"

ASSUME MCLinesParse == Dev!LinesParse

-----------------------------------------------------------------------------
(* WindowsMedia: two creations, two answer files, three kinds of accidents.*)

MCPlaces == <<"env", "path">>
MCWMixes == {{"fail", "apart"}, {"kill", "apart"}, {"tools", "apart"}}

-----------------------------------------------------------------------------
(* ClipboardPolicy: four settings, five overrides, three clipboards.       *)

AsShipped == [enabled |-> TRUE, direction |-> "bidirectional", plainText |-> TRUE, richText |-> TRUE, image |-> TRUE,
              fileTransfer |-> TRUE, allowedTypes |-> {}, max |-> 0, rate |-> 0]
MCSettings == {{}, {[AsShipped EXCEPT !.fileTransfer = FALSE, !.rate = 2]},
               {[AsShipped EXCEPT !.allowedTypes = {"text/html", "text/uri-list"}, !.rate = 2]},
               {[AsShipped EXCEPT !.rate = 1, !.max = 3, !.richText = FALSE]}}
MCOverrides == {[x \in {} |-> TRUE], [fileTransfer |-> FALSE], [fileTransfer |-> TRUE, direction |-> "disabled"],
                [enabled |-> FALSE], [image |-> FALSE, fileTransfer |-> TRUE]}
Rep(f, s) == [format |-> f, size |-> s]
MCClipboards == {{Rep("text/plain", 2), Rep("text/html", 2), Rep("text/rtf", 2)},
                 {Rep("text/plain", 1), Rep("text/uri-list", 2), Rep("text/uri-list", 3), Rep("text/uri-list", 1)},
                 {Rep("image/png", 3), Rep("application/pdf", 5), Rep("text/html", 1)}}

-----------------------------------------------------------------------------
(* SettingsStore: two that save three times, four ways to interfere.       *)

MCSettingsMixes == {{"storage", "registry", "kill", "edit"}, {"storage", "together", "kill"},
                    {"registry", "together", "edit"}, {"storage", "update"}}

-----------------------------------------------------------------------------
(* LogFiles: two that write five lines under a cap of two.                 *)

MCLogMixes == {{"shared", "clear"}, {"shared", "drop"}, {"follow", "clear"}, {"follow", "shared"},
               {"unlimited", "follow"}}

-----------------------------------------------------------------------------
(* The components that stay as they begin do so in one state.              *)
AnyInit ==
    /\ StoresInit
    /\ On("snap") \/ snapmix = {"run", "create", "kill", "fault"}
    /\ On("dev") \/ (mac = 14 /\ lines = {L4})
    /\ On("media") \/ wmix = {"fail", "apart"}
    /\ On("settings") \/ (path = 1 /\ setmix = {"storage", "update"})
    /\ On("logs") \/ logmix = {"shared", "clear"}

AnySpec == AnyInit /\ [][StoresNext]_storesvars
=============================================================================
