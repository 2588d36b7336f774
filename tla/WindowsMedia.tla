---------------------------- MODULE WindowsMedia ----------------------------
(***************************************************************************)
(* `weave create --from-windows`: the official medium is downloaded into   *)
(* the cache and, if there is an answer file, extracted and mastered again *)
(* with the file in it; a disk is made by qemu-img, a config names the     *)
(* medium, and the directory moves to the VMs.  Creations share the cache. *)
(***************************************************************************)
EXTENDS Naturals

CONSTANTS
    Creators,  \* creations under way at a time
    Answers,   \* contents of answer files
    Places,    \* where a tool is looked for, in this order
    WMixes     \* what may happen in one history

VARIABLES
    iso,       \* the cached media: of no answer file, and of each
    isotmp,    \* the media being mastered, one name per answer file
    creator,   \* the creations: step, the answers of config file and flag, the choice
    scratch,   \* what a creation has of temporary directories and mounts
    wdir,      \* its VM directory
    tools,     \* in which places each tool is
    wmix

wvars == <<iso, isotmp, creator, scratch, wdir, tools, wmix>>

NoFile == "none"
Media == Answers \cup {NoFile}
NoISO == [st |-> "none", has |-> NoFile]
Nothing == [extract |-> FALSE, mount |-> FALSE, attached |-> FALSE]
NoDir == [at |-> "none", disk |-> FALSE, media |-> "unset"]
Tools == {"system", "img", "fw"}
Faulty == "fail" \in wmix
Running(c) == creator[c].pc \notin {"new", "done", "failed", "killed"}
At(c, pc) == creator[c].pc = pc
Goto(c, pc) == creator' = [creator EXCEPT ![c].pc = pc]
My(c) == creator[c].answer

-----------------------------------------------------------------------------
(* The toolchain                                                           *)

(* The tool is in none of the places. *)
NotFound == ""

FirstExisting(what) ==
    LET found == {i \in DOMAIN Places : Places[i] \in tools[what]}
    IN  IF found = {} THEN NotFound ELSE Places[CHOOSE i \in found : \A j \in found : i <= j]

(* ensureDownloaded: a build in the cache fills in what is missing. *)
Downloaded == "cache" \in tools["system"] /\ "cache" \in tools["img"]

Toolchain ==
    LET sys == FirstExisting("system")
        img == FirstExisting("img")
    IN  [system |-> IF sys = NotFound /\ Downloaded THEN "cache" ELSE sys,
         img |-> IF img = NotFound /\ Downloaded THEN "cache" ELSE img,
         fw |-> FirstExisting("fw"),
         ok |-> (sys # NotFound /\ img # NotFound) \/ Downloaded]

validate(tc) == tc.ok /\ tc.system # NotFound /\ tc.img # NotFound /\ tc.fw # NotFound

-----------------------------------------------------------------------------
(* A creation                                                              *)

(* cleanup of CreateCommand.Run. *)
Fails(c) == Goto(c, "failed") /\ wdir' = [wdir EXCEPT ![c] = NoDir]

(* Faulty: the config file comes last. *)
OptionsConfigLast(conf, flag) == IF conf # NoFile THEN conf ELSE flag

Options(conf, flag) == IF flag # NoFile THEN flag ELSE conf

Begin(c) ==
    /\ At(c, "new")
    /\ \E conf, flag \in Media :
        /\ "apart" \in wmix => \A d \in Creators : Running(d) => My(d) # Options(conf, flag)
        /\ creator' = [creator EXCEPT ![c] =
               [pc |-> "download", conf |-> conf, flag |-> flag, answer |-> Options(conf, flag)]]
    /\ wdir' = [wdir EXCEPT ![c].at = "tmp"]
    /\ UNCHANGED <<iso, isotmp, scratch, tools, wmix>>

Download(c) ==
    /\ At(c, "download")
    /\ \/ /\ iso' = [iso EXCEPT ![NoFile] = [st |-> "whole", has |-> NoFile]]
          /\ Goto(c, IF My(c) = NoFile THEN "disk" ELSE "lookup")
          /\ UNCHANGED wdir
       \/ Faulty /\ Fails(c) /\ UNCHANGED iso
    /\ UNCHANGED <<isotmp, scratch, tools, wmix>>

(* Size > 0 is all that is asked of a cached medium. *)
Cached(c) ==
    /\ At(c, "lookup")
    /\ Goto(c, IF iso[My(c)].st # "none" THEN "disk" ELSE "extract")
    /\ UNCHANGED <<iso, isotmp, scratch, wdir, tools, wmix>>

MakeDirs(c) ==
    /\ At(c, "extract")
    /\ scratch' = [scratch EXCEPT ![c].extract = TRUE, ![c].mount = TRUE]
    /\ Goto(c, "attach")
    /\ UNCHANGED <<iso, isotmp, wdir, tools, wmix>>

(* Nothing is attached: both directories go. *)
Attach(c) ==
    /\ At(c, "attach")
    /\ \/ /\ scratch' = [scratch EXCEPT ![c].attached = TRUE]
          /\ Goto(c, "copy")
          /\ UNCHANGED wdir
       \/ Faulty /\ Fails(c) /\ scratch' = [scratch EXCEPT ![c] = Nothing]
    /\ UNCHANGED <<iso, isotmp, tools, wmix>>

CopyFails(c) == scratch' = [scratch EXCEPT ![c] = Nothing]

(* Detached in either case. *)
CopyOut(c) ==
    /\ At(c, "copy")
    /\ \/ /\ scratch' = [scratch EXCEPT ![c] = [Nothing EXCEPT !.extract = TRUE]]
          /\ Goto(c, "master")
          /\ UNCHANGED wdir
       \/ Faulty /\ Fails(c) /\ CopyFails(c)
    /\ UNCHANGED <<iso, isotmp, tools, wmix>>

Master(c) ==
    /\ At(c, "master")
    /\ isotmp' = [isotmp EXCEPT ![My(c)] = "part"]
    /\ Goto(c, "mastering")
    /\ UNCHANGED <<iso, scratch, wdir, tools, wmix>>

MasterEnds(c) ==
    /\ At(c, "mastering")
    /\ \/ /\ isotmp' = [isotmp EXCEPT ![My(c)] = "whole"]
          /\ Goto(c, "rename")
          /\ UNCHANGED <<scratch, wdir>>
       \/ /\ Faulty /\ Fails(c)
          /\ isotmp' = [isotmp EXCEPT ![My(c)] = "none"]
          /\ scratch' = [scratch EXCEPT ![c] = Nothing]
    /\ UNCHANGED <<iso, tools, wmix>>

Rename(c) ==
    /\ At(c, "rename")
    /\ iso' = [iso EXCEPT ![My(c)] = [st |-> isotmp[My(c)], has |-> My(c)]]
    /\ isotmp' = [isotmp EXCEPT ![My(c)] = "none"]
    /\ scratch' = [scratch EXCEPT ![c] = Nothing]
    /\ Goto(c, "disk")
    /\ UNCHANGED <<wdir, tools, wmix>>

(* qemu.CreateDisk with the toolchain's qemu-img. *)
MakeDisk(c) ==
    /\ At(c, "disk")
    /\ \/ /\ validate(Toolchain)
          /\ wdir' = [wdir EXCEPT ![c].disk = TRUE]
          /\ Goto(c, "config")
       \/ (Faulty \/ ~validate(Toolchain)) /\ Fails(c)
    /\ UNCHANGED <<iso, isotmp, scratch, tools, wmix>>

SaveConfig(c) ==
    /\ At(c, "config")
    /\ wdir' = [wdir EXCEPT ![c].media = My(c)]
    /\ Goto(c, "move")
    /\ UNCHANGED <<iso, isotmp, scratch, tools, wmix>>

(* VMStorageLocal.Move. *)
MoveIn(c) ==
    /\ At(c, "move")
    /\ \/ wdir' = [wdir EXCEPT ![c].at = "storage"] /\ Goto(c, "done")
       \/ Faulty /\ Fails(c)
    /\ UNCHANGED <<iso, isotmp, scratch, tools, wmix>>

Kill(c) ==
    /\ "kill" \in wmix
    /\ Running(c)
    /\ Goto(c, "killed")
    /\ UNCHANGED <<iso, isotmp, scratch, wdir, tools, wmix>>

-----------------------------------------------------------------------------
Init ==
    /\ wmix \in WMixes
    /\ iso = [a \in Media |-> NoISO]
    /\ isotmp = [a \in Answers |-> "none"]
    /\ creator = [c \in Creators |-> [pc |-> "new", conf |-> NoFile, flag |-> NoFile, answer |-> NoFile]]
    /\ scratch = [c \in Creators |-> Nothing]
    /\ wdir = [c \in Creators |-> NoDir]
    /\ IF "tools" \in wmix
       THEN tools \in [Tools -> {{}, {Places[2]}, {"cache"}}]
       ELSE tools = [t \in Tools |-> {Places[1]}]

Next ==
    \E c \in Creators :
        \/ Begin(c) \/ Download(c) \/ Cached(c) \/ MakeDirs(c) \/ Attach(c) \/ CopyOut(c)
        \/ Master(c) \/ MasterEnds(c) \/ Rename(c) \/ MakeDisk(c) \/ SaveConfig(c) \/ MoveIn(c)
        \/ Kill(c)

Spec == Init /\ [][Next]_wvars

-----------------------------------------------------------------------------
(* Types; a medium is attached only at a mount point that exists. *)
TypeOK ==
    /\ iso \in [Media -> [st : {"none", "part", "whole"}, has : Media]]
    /\ isotmp \in [Answers -> {"none", "part", "whole"}]
    /\ creator \in [Creators ->
           [pc : {"new", "download", "lookup", "extract", "attach", "copy", "master", "mastering", "rename",
                  "disk", "config", "move", "done", "failed", "killed"},
            conf : Media, flag : Media, answer : Media]]
    /\ scratch \in [Creators -> [extract : BOOLEAN, mount : BOOLEAN, attached : BOOLEAN]]
    /\ \A c \in Creators : scratch[c].attached => scratch[c].mount
    /\ wdir \in [Creators -> [at : {"none", "tmp", "storage"}, disk : BOOLEAN, media : Media \cup {"unset"}]]
    /\ tools \in [Tools -> SUBSET {"env", "path", "cache"}]
    /\ wmix \in WMixes

(* Whatever failed or was killed while a medium was mastered, what is cached
   under the name of an answer file is whole and has that file in it: the next
   creation asks nothing but its size (buildUnattendISO). *)
CachedMediaWhole ==
    \A a \in Media : iso[a].st # "none" => iso[a] = [st |-> "whole", has |-> a]

(* A machine among the VMs has a disk and the whole medium of the answer file
   asked for, the flag's before the config file's, and there were tools to run
   it with (createWindows). *)
NewMachinesInstallable ==
    \A c \in Creators : wdir[c].at = "storage" =>
        /\ wdir[c].disk
        /\ wdir[c].media = IF creator[c].flag # NoFile THEN creator[c].flag ELSE creator[c].conf
        /\ iso[wdir[c].media] = [st |-> "whole", has |-> wdir[c].media]
        /\ \A t \in Tools : tools[t] # {}

(* A creation that ended, in any way but by a kill, leaves no directory of its
   own, no mount, no medium half mastered and, if it failed, no VM (the
   deferred removals of extractISO and buildUnattendISO). *)
NothingLeftBehind ==
    \A c \in Creators :
        /\ creator[c].pc \in {"done", "failed"} => scratch[c] = Nothing
        /\ At(c, "failed") => wdir[c] = NoDir
        /\ (\A d \in Creators : creator[d].pc \in {"new", "done", "failed"}) => isotmp = [a \in Answers |-> "none"]

(* Media are whole, created machines can be installed, failures leave      *)
(* nothing.                                                                *)
MediaSafe == TypeOK /\ CachedMediaWhole /\ NewMachinesInstallable /\ NothingLeftBehind
=============================================================================
