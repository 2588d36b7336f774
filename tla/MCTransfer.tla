----------------------------- MODULE MCTransfer -----------------------------
(***************************************************************************)
(* What is moved between registries, servers and the disk: the cache of    *)
(* downloads, the registry client, foreign image formats and layered disks.*)
(* The components share no variable: a history is one component's, and the *)
(* others stay in their initial states.                                    *)
(***************************************************************************)
EXTENDS MCDiskV2, Integers

VARIABLE part    \* the component whose history this is

-----------------------------------------------------------------------------
(* DiskV2: three images of two or three layers of two chunks: the second   *)
(* has the layers of the first in the other order, and the third shares    *)
(* one with each at the same place.  A directory is only resumed by a pull *)
(* of the image it was begun for (DiskV2_bug_resume.cfg shows the others). *)

-----------------------------------------------------------------------------
(* PruneCache: three files, two processes, a capacity of four.             *)

VARIABLES
    files, ctmp, cnow, cproc, cachemix

cachevars == <<files, ctmp, cnow, cproc, cachemix>>

CacheFiles == {"f1", "f2", "f3"}
Procs == {"p1", "p2"}
Capacity == 4
Sizes == {1, 2}
MaxNow == 2
Stock == {[f \in CacheFiles |-> IF f = "f1" THEN <<2 - 2 * t, 1>> ELSE IF f = "f2" THEN <<t, 0>> ELSE <<1, 1>>] :
              t \in {0, 1}}
MaxBegun == 2
CacheMixes == {{"download", "touch", "old"}, {"download", "gc", "kill", "cut"},
               {"download", "budget", "alone", "cut"}, {"download", "cancel"}}

Cache == INSTANCE PruneCache WITH cached <- files

-----------------------------------------------------------------------------
(* RegistryClient: a push of three layers two at a time, four chains of    *)
(* credentials, an expired token, a list of tags, a failing network.       *)

VARIABLES
    reg, push, req, auth, chain, answer, regmix, regevents

regvars == <<reg, push, req, auth, chain, answer, regmix, regevents>>

NLayers == 3
Parts_ == 2
References == <<"latest", "v1">>
Providers == {<<"good", "none">>, <<"err", "good">>, <<"none", "none">>, <<"none", "bad">>}
MaxRegEvents == 2
RegMixes == {{"expire", "login"}, {"net", "list"}, {"run"}}

Reg == INSTANCE RegistryClient WITH Parts <- Parts_

-----------------------------------------------------------------------------
(* ImageFormats: a disk of five cells in whole or in parts, in order or    *)
(* not, sound or damaged.                                                  *)

VARIABLES
    manifest, step, parts, file, job

ivars == <<manifest, step, parts, file, job>>

Source == <<1, 0, 0, 2, 1>>
PartWorkers == 2
Cuts == TRUE
Layer(media, number, offset, data, blob, title) ==
    [media |-> media, number |-> number, offset |-> offset, data |-> data, blob |-> blob, title |-> title]
First(m, off) == Layer(m, 1, IF off THEN 0 ELSE None, <<1, 0>>, <<1, 0>>, "")
Second(m, off) == Layer(m, 2, IF off THEN 2 ELSE None, <<0, 2>>, <<0, 2>>, "")
Third(m, off) == Layer(m, 3, IF off THEN 4 ELSE None, <<1>>, <<1>>, "")
Damaged(m, off) == Layer(m, 2, IF off THEN 2 ELSE None, <<0, 2>>, <<0, 9>>, "")
Whole(m) == Layer(m, None, None, Source, Source, "")
Plain(l) == [l EXCEPT !.number = None]
Nvram(m) == Layer(m, None, None, <<1>>, <<1>>, "nvram.bin")
Conf == Layer("config", None, None, <<1>>, <<1>>, "")
Published(kind, sound, config, size, ls) ==
    [kind |-> kind, sound |-> sound, config |-> config, os |-> "linux", identity |-> FALSE,
     size |-> size, layers |-> ls]
Mac(one, identity) == [one EXCEPT !.os = "darwin", !.identity = identity]
Octet == "octet"
LumeDisk == "trycua.disk"
Sharded == {
    Published("sharded", FALSE, "", 5, <<Conf, First(Octet, FALSE), Second(Octet, FALSE), Nvram(Octet)>>),
    Published("sharded", TRUE, "", 5,
        <<Conf, Third(Octet, FALSE), First(Octet, FALSE), Second(Octet, FALSE), Nvram(Octet)>>),
    Published("sharded", TRUE, "", 6, <<Nvram(Octet), Whole("tar"), Conf>>),
    Published("sharded", FALSE, "", 5, <<Conf, First(Octet, FALSE), Third(Octet, FALSE), Nvram(Octet)>>),
    Published("sharded", FALSE, "", 0, <<Conf, Second(Octet, FALSE), Damaged(Octet, FALSE), Nvram(Octet)>>),
    Published("sharded", FALSE, "", 5,
        <<Conf, First(Octet, FALSE), Damaged(Octet, FALSE), Third(Octet, FALSE), Nvram(Octet)>>)}
Chunked == {
    Published("chunked", TRUE, "trycua", 0,
        <<Second(LumeDisk, TRUE), Nvram("trycua.nvram"), Third(LumeDisk, TRUE), First(LumeDisk, TRUE)>>),
    Published("chunked", TRUE, "trycua", 7, <<Whole(LumeDisk), Nvram("trycua.nvram")>>),
    Published("chunked", FALSE, "trycua", 0,
        <<First(LumeDisk, TRUE), Second(LumeDisk, FALSE), Nvram("trycua.nvram")>>),
    Published("chunked", FALSE, "trycua", 5,
        <<First(LumeDisk, TRUE), Damaged(LumeDisk, TRUE), Third(LumeDisk, TRUE), Nvram("trycua.nvram")>>),
    Published("chunked", FALSE, "trycua", 5, <<Whole(LumeDisk), Second(LumeDisk, TRUE), Nvram(Octet)>>)}
LZ4 == {
    Mac(Published("lz4", TRUE, "", 4,
        <<Conf, Plain(First("lz4", FALSE)), Plain(Second("lz4", FALSE)), Plain(Third("lz4", FALSE)),
          Nvram(Octet)>>), TRUE),
    Mac(Published("lz4", FALSE, "", 5, <<Conf, Plain(First("lz4", FALSE)), Nvram(Octet)>>), FALSE)}
Manifests == Sharded \cup Chunked \cup LZ4 \cup {Published("unknown", FALSE, "", 5, <<Conf, Nvram(Octet)>>)}

Image == INSTANCE ImageFormats

-----------------------------------------------------------------------------
(* The history is one component's; the others stay as they begin. *)
PartNames == {"cache", "reg", "image", "disk"}

On(p) == part = p

AnyInit ==
    /\ part \in PartNames
    /\ Init
    /\ Cache!Init
    /\ Reg!Init
    /\ Image!Init
    /\ On("disk") \/ (tag = 1 /\ cached = [i \in Images |-> None] /\ history = {"kill", "tmpgc", "arrive", "evict"})
    /\ On("reg") \/ (chain = <<"none", "none">> /\ regmix = {"run"} /\ push.at = "config" /\ push.whole /\ reg.scheme = "odd" /\ reg.stored = <<>>)
    /\ On("cache") \/ (cachemix = {"download", "cancel"} /\ files["f1"].size = 0)
    /\ On("image") \/ manifest = CHOOSE m \in LZ4 : m.sound

AnyNext ==
    \/ /\ On("disk") /\ Next
       /\ UNCHANGED <<cachevars, regvars, ivars, part>>
    \/ /\ On("cache") /\ Cache!Next
       /\ UNCHANGED <<vars, regvars, ivars, part>>
    \/ /\ On("reg") /\ Reg!Next
       /\ UNCHANGED <<vars, cachevars, ivars, part>>
    \/ /\ On("image") /\ Image!Next
       /\ UNCHANGED <<vars, cachevars, regvars, part>>

AnyFairness ==
    /\ WF_vars(On("disk") /\ Pull)
    /\ \A p \in Procs : WF_cachevars(On("cache") /\ (Cache!Fetch(p) \/ Cache!Prune(p)))
    /\ \A p \in Procs : WF_cachevars(On("cache") /\ Cache!GC(p))
    /\ \A p \in Procs : SF_cachevars(On("cache") /\ Cache!GCRemove(p))
    /\ \A q \in Procs : SF_cachevars(On("cache") /\ (\E p \in Procs : Cache!GCTake(p, q)))
    /\ WF_regvars(On("reg") /\ Reg!Command)
    /\ \A i \in Reg!Layers : WF_regvars(On("reg") /\ Reg!LayerSteps(i))
    /\ WF_ivars(On("image") /\ Image!Proceeds)

anyvars == <<part, vars, cachevars, regvars, ivars>>

AnySpec == AnyInit /\ [][AnyNext]_anyvars /\ AnyFairness

-----------------------------------------------------------------------------
(* PruneCache: a cached file is what was downloaded and a budget is kept.  *)
CacheSafe == On("cache") => Cache!CacheSafe

(* PruneCache: the temporary file of a running download stays, and space   *)
(* is made of the files used least recently.                               *)
CacheSteps == Cache!LockedTempStays /\ Cache!ReclaimsOldestOnly

(* RegistryClient: a manifest in the registry has its blobs there, a push  *)
(* that fails has a cause, and a list of tags is all of them.              *)
RegSafe == On("reg") => Reg!RegSafe

(* ImageFormats: the format is told from the layers, a pulled disk is the  *)
(* publisher's, and damage is refused.                                     *)
ImageSafe == On("image") => Image!ImageSafe

(* Every pull of a disk and of an image ends and so does every push; what  *)
(* a killed download left is removed in the end.                           *)
TransfersEnd ==
    /\ On("disk") => PullEnds
    /\ On("cache") => Cache!TempsSwept
    /\ On("reg") => Reg!PushEnds
    /\ On("image") => Image!PullsEnd
=============================================================================
