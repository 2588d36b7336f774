------------------------------- MODULE DiskV2 -------------------------------
(***************************************************************************)
(* What a pull writes: the disk of one name, put together in the name's    *)
(* temporary directory out of the layers of a manifest (DiskV2.Pull).  The *)
(* layers are fetched concurrently; a layer may come from the registry,    *)
(* from a cached image (the local layer cache), or be on the disk already, *)
(* because the disk was cloned from that image (--deduplicate) or because  *)
(* an earlier pull of the name was killed and this one resumes it.         *)
(*                                                                         *)
(* A disk is a sequence of ranges, one for each layer; a layer is          *)
(* LayerSize chunks, the unit in which zeros are skipped, and its digest   *)
(* stands for what it holds.                                               *)
(***************************************************************************)
EXTENDS Naturals, Sequences, FiniteSets

CONSTANTS
    Manifest,     \* the manifest of every image: a sequence of layers, the disk it describes
    LayerSize,    \* the chunks of a layer
    Concurrency,  \* the layers pulled at a time
    Zero,         \* the chunk of zeros
    None,
    Histories,    \* what may happen in a history: sets of events
    MaxEvents     \* bounds the pushes, kills and changes of the cache

Images == DOMAIN Manifest
Layers(i) == DOMAIN Manifest[i]
Chunks == {Zero} \cup UNION {UNION {{Manifest[i][n][k] : k \in 1..LayerSize} : n \in Layers(i)} : i \in Images}
Events == {"push", "kill", "dedup", "arrive", "evict", "tmpgc"}

ASSUME ConstantsAssumption ==
    /\ Concurrency \in Nat \ {0} /\ LayerSize \in Nat \ {0}
    /\ \A i \in Images : Manifest[i] \in Seq([1..LayerSize -> Chunks])
    /\ Histories \subseteq SUBSET Events
    /\ MaxEvents \in Nat
    /\ None \notin Images /\ None \notin Seq([1..LayerSize -> Chunks])

VARIABLES
    tag,      \* the image the name stands for in the registry
    cached,   \* the disk of every image in the cache
    disk,     \* disk.img of the temporary directory, None if there is none
    pc, want, \* where the pull is, and the image it pulls
    dedup,    \* --deduplicate
    base,     \* the local layer cache: an image and its mapped disk
    resumed,  \* pullResumed
    work,     \* where the work on each layer is
    next,     \* the next chunk of it to be written,
    chunks,   \* and what is written there
    history, events

pulling == <<want, dedup, base, resumed>>
working == <<work, next, chunks>>
vars == <<tag, cached, disk, pc, pulling, working, history, events>>

Digests(i) == {Manifest[i][n] : n \in Layers(i)}

(* The file is cut, or filled with zeros, to the size of the image.        *)
Truncate(d, i) == [n \in Layers(i) |-> IF n \in DOMAIN d THEN d[n] ELSE [k \in 1..LayerSize |-> Zero]]

NoBase == [image |-> None, disk |-> <<>>]
NoWork == work' = <<>> /\ next' = <<>> /\ chunks' = <<>>

(* The images that save most by having layers in common with i, if one     *)
(* saves anything.                                                         *)
Shared(i, j) == Cardinality(Digests(i) \cap Digests(j))
Best(i) ==
    LET C == {j \in Images : cached[j] # None /\ Shared(i, j) > 0}
    IN  {j \in C : \A k \in C : Shared(i, k) <= Shared(i, j)}

UsesRdisk == dedup /\ base.image # None

-----------------------------------------------------------------------------
(* One pull of the name                                                    *)

PullStart ==
    /\ pc = "idle" /\ cached[tag] = None
    /\ want' = tag
    /\ dedup' \in (IF "dedup" \in history THEN BOOLEAN ELSE {FALSE})
    /\ pc' = "choose"
    /\ UNCHANGED <<tag, cached, disk, base, resumed, working, history, events>>

(* An error removes the temporary directory.                               *)
Fail == /\ pc' = "idle" /\ disk' = None
        /\ want' = None /\ dedup' = FALSE /\ base' = NoBase /\ resumed' = FALSE
        /\ NoWork
        /\ UNCHANGED <<tag, cached, history, events>>

(* ChooseLocalLayerCache maps the disk of the image it chooses.            *)
ChooseBase ==
    /\ pc = "choose"
    /\ \/ Best(want) = {} /\ base' = NoBase
       \/ \E j \in Best(want) : base' = [image |-> j, disk |-> cached[j]]
    /\ pc' = "disk"
    /\ UNCHANGED <<tag, cached, disk, want, dedup, resumed, working, history, events>>

CreateDisk ==
    /\ pc = "disk"
    /\ \/ /\ resumed' = (disk # None)
          /\ \/ disk # None /\ UNCHANGED disk
             \/ disk = None /\ ~UsesRdisk /\ disk' = <<>>
             \/ disk = None /\ UsesRdisk /\ cached[base.image] # None /\ disk' = cached[base.image]
          /\ pc' = "truncate"
          /\ UNCHANGED <<tag, cached, want, dedup, base, working, history, events>>
       \/ disk = None /\ UsesRdisk /\ cached[base.image] = None /\ Fail

TruncateDisk ==
    /\ pc = "truncate"
    /\ disk' = Truncate(disk, want)
    /\ work' = [n \in Layers(want) |-> "todo"]
    /\ next' = [n \in Layers(want) |-> 1]
    /\ chunks' = [n \in Layers(want) |-> <<>>]
    /\ pc' = "layers"
    /\ UNCHANGED <<tag, cached, pulling, history, events>>

Working == {n \in DOMAIN work : work[n] = "write"}

(* FindInfo: the layer of the base at this offset if it is the same one,   *)
(* else any with its digest.                                               *)
Found(n) ==
    IF base.image = None THEN {}
    ELSE LET same == {b \in Layers(base.image) : Manifest[base.image][b] = Manifest[want][n]}
         IN  IF n \in same THEN {n} ELSE same

(* Subdata: what the base has in the range of its layer b.                 *)
Subdata(b) == base.disk[b]

(* A worker begins to write what it has read into a layer's range. *)
Writes(n, read) ==
    /\ work' = [work EXCEPT ![n] = "write"] /\ next' = [next EXCEPT ![n] = 1]
    /\ chunks' = [chunks EXCEPT ![n] = read]

Ends(n, st) == work' = [work EXCEPT ![n] = st] /\ UNCHANGED <<next, chunks>>

(* A worker takes up the next layer: it is there from an earlier attempt;  *)
(* or it is on the disk that was cloned from the base; or it is copied     *)
(* from the base; or it is fetched, which may fail for good.               *)
LayerStart(n) ==
    LET done == resumed /\ disk[n] = Manifest[want][n] IN
    /\ pc = "layers" /\ work[n] = "todo"
    /\ \A m \in 1..(n - 1) : work[m] # "todo"
    /\ Cardinality(Working) < Concurrency
    /\ \/ (done \/ (~done /\ dedup /\ n \in Found(n))) /\ Ends(n, "done")
       \/ /\ ~done /\ Found(n) # {} /\ ~(dedup /\ n \in Found(n))
          /\ \E b \in Found(n) : Writes(n, Subdata(b))
       \/ ~done /\ Found(n) = {} /\ (Writes(n, Manifest[want][n]) \/ Ends(n, "failed"))
    /\ UNCHANGED <<tag, cached, disk, pc, pulling, history, events>>

(* zeroSkippingWrite, one chunk: on a disk that is not cloned zeros are    *)
(* not written.                                                            *)
LayerWrite(n) ==
    /\ pc = "layers" /\ work[n] = "write"
    /\ disk' = IF ~UsesRdisk /\ chunks[n][next[n]] = Zero THEN disk
               ELSE [disk EXCEPT ![n] = [@ EXCEPT ![next[n]] = chunks[n][next[n]]]]
    /\ IF next[n] = LayerSize THEN Ends(n, "done")
       ELSE next' = [next EXCEPT ![n] = @ + 1] /\ UNCHANGED <<work, chunks>>
    /\ UNCHANGED <<tag, cached, pc, pulling, history, events>>

(* Faulty: the error of a worker gets lost.                                *)
LayersEndRegardless ==
    /\ pc = "layers" /\ \A n \in DOMAIN work : work[n] \in {"done", "failed"}
    /\ pc' = "nvram"
    /\ UNCHANGED <<tag, cached, disk, pulling, working, history, events>>

LayersEnd ==
    /\ pc = "layers" /\ \A n \in DOMAIN work : work[n] \in {"done", "failed"}
    /\ \/ /\ \A n \in DOMAIN work : work[n] = "done"
          /\ pc' = "nvram"
          /\ UNCHANGED <<tag, cached, disk, pulling, working, history, events>>
       \/ (\E n \in DOMAIN work : work[n] = "failed") /\ Fail

(* An error while the NVRAM is fetched ends the pull: RetryOnURLError only   *)
(* tries again after errors of NSURLErrorDomain, and the fetcher's are      *)
(* those of net/http (see RegistryClient).                                  *)
NvramFails == pc = "nvram" /\ Fail

(* The directory is moved into the cache.                                  *)
Move ==
    /\ pc = "nvram"
    /\ cached' = [cached EXCEPT ![want] = disk]
    /\ pc' = "idle" /\ disk' = None
    /\ want' = None /\ dedup' = FALSE /\ base' = NoBase /\ resumed' = FALSE
    /\ NoWork
    /\ UNCHANGED <<tag, history, events>>

-----------------------------------------------------------------------------
(* The surroundings                                                        *)

Happens(e) == e \in history /\ events < MaxEvents /\ events' = events + 1 /\ UNCHANGED history

Push == \E i \in Images :
    /\ Happens("push") /\ i # tag /\ tag' = i
    /\ UNCHANGED <<cached, disk, pc, pulling, working>>

(* The pull is killed: its temporary directory stays.                      *)
Kill ==
    /\ Happens("kill") /\ pc # "idle"
    /\ pc' = "idle" /\ NoWork
    /\ want' = None /\ dedup' = FALSE /\ base' = NoBase /\ resumed' = FALSE
    /\ UNCHANGED <<tag, cached, disk>>

(* Config.GC of another command.                                           *)
TmpGC ==
    /\ Happens("tmpgc") /\ pc = "idle" /\ disk # None /\ disk' = None
    /\ UNCHANGED <<tag, cached, pc, pulling, working>>

(* Another name's pull, and a prune.                                       *)
Arrive == \E i \in Images \ {want} :
    /\ Happens("arrive") /\ cached[i] = None
    /\ cached' = [cached EXCEPT ![i] = Manifest[i]]
    /\ UNCHANGED <<tag, disk, pc, pulling, working>>

Evict == \E i \in Images :
    /\ Happens("evict") /\ cached[i] # None
    /\ cached' = [cached EXCEPT ![i] = None]
    /\ UNCHANGED <<tag, disk, pc, pulling, working>>

Init ==
    /\ tag \in Images
    /\ \E S \in SUBSET Images : cached = [i \in Images |-> IF i \in S THEN Manifest[i] ELSE None]
    /\ disk = None /\ pc = "idle" /\ work = <<>> /\ next = <<>> /\ chunks = <<>>
    /\ want = None /\ dedup = FALSE /\ base = NoBase /\ resumed = FALSE
    /\ history \in Histories /\ events = 0

Pull ==
    \/ ChooseBase \/ CreateDisk \/ TruncateDisk
    \/ \E n \in DOMAIN work : LayerStart(n) \/ LayerWrite(n)
    \/ LayersEnd \/ NvramFails \/ Move

Next == PullStart \/ Pull \/ Push \/ Kill \/ TmpGC \/ Arrive \/ Evict

Spec == Init /\ [][Next]_vars

FairSpec == Spec /\ WF_vars(Pull)

-----------------------------------------------------------------------------
(* What a pull promises                                                    *)

(* Every variable has its type.  (oci/oci_layerizer_diskv2.go)             *)
TypeOK ==
    /\ tag \in Images /\ want \in Images \cup {None}
    /\ \A i \in Images : cached[i] = None \/ cached[i] \in Seq([1..LayerSize -> Chunks])
    /\ disk = None \/ disk \in Seq([1..LayerSize -> Chunks])
    /\ dedup \in BOOLEAN /\ resumed \in BOOLEAN
    /\ base.image \in Images \cup {None}
    /\ \A n \in DOMAIN work : work[n] \in {"todo", "write", "done", "failed"} /\ next[n] \in 1..LayerSize
    /\ Cardinality(Working) <= Concurrency
    /\ events \in 0..MaxEvents

(* Every image in the cache has the disk its manifest describes, whatever  *)
(* was fetched, copied, inherited, resumed or retried on the way.  No      *)
(* digest of the whole disk is ever checked.  (oci_layerizer_diskv2.go:    *)
(* 194-282, vm/storage/oci.go:357-387)                                     *)
ImagesWhole == \A i \in Images : cached[i] # None => cached[i] = Manifest[i]

(* A layer that is done has its content on the disk, and keeps it while    *)
(* other workers write theirs.  (oci_layerizer_diskv2.go:284-404)          *)
DoneLayersStay == pc = "layers" =>
    \A n \in DOMAIN work : work[n] = "done" => disk[n] = Manifest[want][n]

(* A pulled disk is the image's, and layers that are done stay so.         *)
DiskSafe == TypeOK /\ ImagesWhole /\ DoneLayersStay

(* A pull that is not killed comes to its end, whatever the network does.  *)
(* (vm/storage/oci.go:357, objcutil/utils.go:94)                           *)
PullEnds == pc # "idle" ~> pc = "idle"
=============================================================================
