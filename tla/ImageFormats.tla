------------------------------ MODULE ImageFormats ------------------------------
(***************************************************************************)
(* Pulling an image of lume: the manifest's layers tell which of three      *)
(* encodings it is; the parts of the disk are put in order, fetched by      *)
(* concurrent workers, each written at its offset of a sparse file, and     *)
(* checked against their digests; the NVRAM and a config follow.            *)
(*                                                                         *)
(* A disk is a sequence of cells, 0 being a hole.  A layer is its media     *)
(* type, part number and offset (None if it has none), what its digest      *)
(* stands for and what the registry delivers.                               *)
(***************************************************************************)
EXTENDS Integers, Sequences, FiniteSets, SequencesExt

CONSTANTS
    None,
    Manifests,    \* [kind, config, os, size, layers]; kind and source are what the
                  \* publisher meant, which the code does not see
    Source,       \* the publisher's disk
    PartWorkers,  \* --concurrency
    Cuts          \* may the network fail?

VARIABLES
    manifest,
    step,     \* "idle", "disk", "nvram", "ok", "failed"
    parts,    \* the parts of the disk in their order, with offsets
    file,     \* disk.img
    job       \* per part: [st, next]

ivars == <<manifest, step, parts, file, job>>

LayersOf(m, media) == SelectSeq(m.layers, LAMBDA l : l.media = media)
Numbered(m) == SelectSeq(m.layers, LAMBDA l : l.number # None)

DetectImageFormat(m) ==
    IF LayersOf(m, "trycua.disk") # <<>> \/ m.config = "trycua" THEN "chunked"
    ELSE IF \/ \E k \in DOMAIN m.layers : m.layers[k].number # None /\ m.layers[k].media # "trycua.disk"
            \/ Len(LayersOf(m, "tar")) = 1 /\ Len(LayersOf(m, "config")) = 1 THEN "sharded"
    ELSE IF LayersOf(m, "lz4") # <<>> THEN "lz4" ELSE "unknown"

-----------------------------------------------------------------------------
(* The parts: <<>> where the code reports an error.                         *)
ByNumber(s) == SortSeq(s, LAMBDA a, b : a.number < b.number)

PartBytes(ps) == FoldSeq(LAMBDA l, n : n + Len(l.data), 0, ps)

(* The offset of a part is the size of those before it. *)
Placed(s, offset) ==
    [k \in DOMAIN s |-> [s[k] EXCEPT !.offset = offset + PartBytes(SubSeq(s, 1, k - 1))]]

collectShardedDiskParts(m) ==
    LET numbered == ByNumber(Numbered(m))  whole == LayersOf(m, "tar") IN
    IF numbered = <<>> THEN (IF Len(whole) = 1 THEN Placed(whole, 0) ELSE <<>>)
    ELSE IF \A k \in DOMAIN numbered : numbered[k].number = k THEN Placed(numbered, 0) ELSE <<>>

(* Parts with a number need an offset; one without may only be the first of *)
(* the list, and is the whole disk.                                         *)
collectChunkedDiskLayers(m) ==
    LET disk == LayersOf(m, "trycua.disk") IN
    IF \/ \E k \in DOMAIN disk : disk[k].number # None /\ disk[k].offset = None
       \/ \E k \in DOMAIN disk : disk[k].number = None /\ k > 1
    THEN <<>>
    ELSE ByNumber([k \in DOMAIN disk |->
                     IF disk[k].number = None THEN [disk[k] EXCEPT !.number = 0, !.offset = 0] ELSE disk[k]])

CollectLZ4(m) == Placed(LayersOf(m, "lz4"), 0)

Collected(m) ==
    CASE DetectImageFormat(m) = "sharded" -> collectShardedDiskParts(m)
      [] DetectImageFormat(m) = "chunked" -> collectChunkedDiskLayers(m)
      [] DetectImageFormat(m) = "lz4" -> CollectLZ4(m)
      [] OTHER -> <<>>

(* The declared size, or that of the parts if it is larger. *)
DiskSize(m, ps) == IF m.size > PartBytes(ps) THEN m.size ELSE PartBytes(ps)

-----------------------------------------------------------------------------
(* The config, a layer or the descriptor of the manifest: what it says of   *)
(* the VM, and whether the host can be that VM.                             *)
HasConfig(m) == IF DetectImageFormat(m) = "chunked" THEN m.config # "" ELSE Len(LayersOf(m, "config")) = 1
Describes(m) == m.os \in {"darwin", "linux"}
HasPlatform(m) == m.os = "darwin" => m.identity

(* CodecFor, the config and the parts; os.Create and Truncate.  The file of *)
(* an lz4 image has the declared size and grows.                            *)
Pull ==
    /\ step = "idle"
    /\ LET ps == Collected(manifest) IN
       IF ps = <<>> \/ ~HasConfig(manifest) \/ ~Describes(manifest)
       THEN step' = "failed" /\ UNCHANGED <<parts, file, job>>
       ELSE /\ step' = "disk" /\ parts' = ps
            /\ file' = [k \in 1..(IF DetectImageFormat(manifest) = "lz4" THEN manifest.size
                                  ELSE DiskSize(manifest, ps)) |-> 0]
            /\ job' = [k \in DOMAIN ps |-> [st |-> "todo", next |-> 1]]
    /\ UNCHANGED manifest

Busy == {k \in DOMAIN job : job[k].st = "busy"}
AnyFailed == \E k \in DOMAIN job : job[k].st = "failed"
Workers == IF DetectImageFormat(manifest) = "lz4" THEN 1 ELSE PartWorkers

(* The loop stops to start parts as soon as one has failed. *)
StartPart(k) ==
    /\ step = "disk" /\ job[k].st = "todo" /\ \A j \in 1..(k - 1) : job[j].st # "todo"
    /\ Cardinality(Busy) < Workers
    /\ job' = [job EXCEPT ![k].st = IF AnyFailed THEN "skipped" ELSE "busy"]
    /\ UNCHANGED <<manifest, step, parts, file>>

(* sparseFileWriter: zeros are not written; the file is new, and as long as *)
(* it has to be, or grows.                                                  *)
Grown(f, n) == [k \in 1..(IF n > Len(f) THEN n ELSE Len(f)) |-> IF k <= Len(f) THEN f[k] ELSE 0]
Put(f, at, cell) == IF cell = 0 THEN f ELSE [Grown(f, at) EXCEPT ![at] = cell]

(* Faulty: a run of zeros does not move the offset on. *)
PartWritePacked(k) ==
    /\ step = "disk" /\ job[k].st = "busy" /\ job[k].next <= Len(parts[k].blob)
    /\ LET before == SelectSeq(SubSeq(parts[k].blob, 1, job[k].next - 1), LAMBDA c : c # 0) IN
       file' = Put(file, parts[k].offset + Len(before) + 1, parts[k].blob[job[k].next])
    /\ job' = [job EXCEPT ![k].next = @ + 1]
    /\ UNCHANGED <<manifest, step, parts>>

PartWrite(k) ==
    /\ step = "disk" /\ job[k].st = "busy" /\ job[k].next <= Len(parts[k].blob)
    /\ file' = Put(file, parts[k].offset + job[k].next, parts[k].blob[job[k].next])
    /\ job' = [job EXCEPT ![k].next = @ + 1]
    /\ UNCHANGED <<manifest, step, parts>>

(* pullBlobVerified: the digest is that of all that came. *)
PartVerify(k) ==
    /\ step = "disk" /\ job[k].st = "busy" /\ job[k].next > Len(parts[k].blob)
    /\ job' = [job EXCEPT ![k].st = IF parts[k].blob = parts[k].data THEN "done" ELSE "failed"]
    /\ UNCHANGED <<manifest, step, parts, file>>

PartCut(k) ==
    /\ Cuts /\ step = "disk" /\ job[k].st = "busy"
    /\ job' = [job EXCEPT ![k].st = "failed"]
    /\ UNCHANGED <<manifest, step, parts, file>>

DiskEnds ==
    /\ step = "disk" /\ \A k \in DOMAIN job : job[k].st \notin {"todo", "busy"}
    /\ step' = IF AnyFailed THEN "failed" ELSE "nvram"
    /\ file' = IF AnyFailed THEN file ELSE Grown(file, PartBytes(parts))
    /\ UNCHANGED <<manifest, parts, job>>

(* findSingleLumeNvramLayer, and the count of the chunked format; then      *)
(* writeLumeConfig, which needs an identity the host accepts.               *)
NvramLayers(m) ==
    IF DetectImageFormat(m) = "chunked" THEN LayersOf(m, "trycua.nvram")
    ELSE LET titled == SelectSeq(m.layers, LAMBDA l : l.media = "octet" /\ l.title = "nvram.bin") IN
         IF titled # <<>> THEN <<titled[1]>>
         ELSE SelectSeq(m.layers, LAMBDA l : l.media = "octet" /\ l.number = None)

PullNvram ==
    /\ step = "nvram"
    /\ LET n == NvramLayers(manifest) IN
       step' = IF Len(n) = 1 /\ n[1].blob = n[1].data /\ HasPlatform(manifest)
               THEN "ok" ELSE "failed"
    /\ UNCHANGED <<manifest, parts, file, job>>

Init == manifest \in Manifests /\ step = "idle" /\ parts = <<>> /\ file = <<>> /\ job = <<>>

PullPart(k) == StartPart(k) \/ PartWrite(k) \/ PartVerify(k)
Proceeds == Pull \/ (\E k \in DOMAIN job : PullPart(k)) \/ DiskEnds \/ PullNvram

Next == Proceeds \/ \E k \in DOMAIN job : PartCut(k)

Spec == Init /\ [][Next]_ivars /\ WF_ivars(Proceeds)

-----------------------------------------------------------------------------
TypeOK ==
    /\ step \in {"idle", "disk", "nvram", "ok", "failed"}
    /\ DOMAIN job = DOMAIN parts
    /\ \A k \in DOMAIN job : /\ job[k].st \in {"todo", "busy", "done", "failed", "skipped"}
                             /\ job[k].next \in 1..(Len(parts[k].blob) + 1)
    /\ \A k \in DOMAIN file : file[k] \in {0} \cup Range(Source) \cup {9}
    /\ step \in {"disk", "nvram"} => parts # <<>>

(* The format is told from the layers, in whichever order the manifest has  *)
(* them and whatever else is among them (DetectImageFormat).                *)
FormatDetected == manifest.kind \in {"chunked", "sharded", "lz4"} => DetectImageFormat(manifest) = manifest.kind

(* A pull that succeeds has made the publisher's disk, cell by cell, with   *)
(* nothing but zeros after it, from parts in any order written by several   *)
(* workers, holes left out (collect..., sparseFileWriter).  Only of a       *)
(* chunked image may parts be missing unnoticed.                            *)
DiskReproduced ==
    step = "ok" /\ manifest.sound =>
        /\ Len(file) = DiskSize(manifest, parts)
        /\ \A k \in DOMAIN file : file[k] = IF k <= Len(Source) THEN Source[k] ELSE 0

(* What is damaged on the way is never a success, and neither is a sharded  *)
(* image or one of lz4 that is not the beginning of the publisher's disk:   *)
(* one that lacks a part before others, or has one twice (pullBlobVerified, *)
(* collectShardedDiskParts).  Nobody misses the last part.                  *)
DamageRefused ==
    step = "ok" => /\ \A k \in DOMAIN parts : parts[k].blob = parts[k].data
                   /\ manifest.kind # "chunked" => \A k \in 1..PartBytes(parts) : file[k] = Source[k]

(* Every pull ends, whichever worker fails and whoever waits for a slot. *)
PullsEnd == step = "disk" ~> step \in {"ok", "failed"}

(* Formats are detected, disks reproduced, damage is refused. *)
ImageSafe == TypeOK /\ FormatDetected /\ DiskReproduced /\ DamageRefused
=============================================================================
