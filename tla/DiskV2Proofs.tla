---------------------------- MODULE DiskV2Proofs ----------------------------
(***************************************************************************)
(* Proofs about DiskV2, for every manifest, size of layers and number of   *)
(* workers: a pull that reports success has put the image together.        *)
(***************************************************************************)
EXTENDS DiskV2, FiniteSetTheorems, TLAPS

(* A directory is only resumed by a pull of the image it was begun for,    *)
(* and never by one that deduplicates: the others keep bytes of an older   *)
(* image (the run resumed_pull shows one).                                 *)
Apart == \A h \in Histories : "kill" \in h => "push" \notin h /\ "dedup" \notin h

-----------------------------------------------------------------------------
(* The inductive invariant                                                 *)

Ranges == [1..LayerSize -> Chunks]
Steps == {"idle", "choose", "disk", "truncate", "layers", "nvram"}

(* The types, and what each step of a pull has.                            *)
Typed ==
    /\ tag \in Images /\ pc \in Steps
    /\ pc = "idle" => want = None
    /\ pc # "idle" => want \in Images
    /\ dedup \in BOOLEAN /\ resumed \in BOOLEAN
    /\ history \in Histories /\ events \in 0..MaxEvents

DiskTyped == disk = None \/ disk \in Seq(Ranges)

(* The images in the cache are whole, and so is the one that is mapped.    *)
CacheWhole ==
    /\ cached \in [Images -> {None} \cup {Manifest[i] : i \in Images}] /\ ImagesWhole
    /\ \/ base = NoBase
       \/ \E j \in Images : base = [image |-> j, disk |-> Manifest[j]]

(* A range that is not written yet is zero where it is not right already.  *)
Blank(d, i) == \A n \in Layers(i) \cap DOMAIN d : \A k \in 1..LayerSize : d[n][k] \in {Zero, Manifest[i][n][k]}

(* A directory is left by a kill only, of a pull of the same image.        *)
Left ==
    IF "kill" \in history
    THEN /\ disk # None => Blank(disk, tag)
         /\ pc # "idle" => want = tag /\ ~dedup
    ELSE ~resumed /\ (pc \in {"idle", "choose", "disk"} => disk = None)

(* Before the workers: an empty disk, an older one of this image, or the   *)
(* clone of the base.                                                      *)
Begun == pc = "truncate" =>
    disk # None /\ (IF UsesRdisk THEN disk = Manifest[base.image] ELSE Blank(disk, want))

(* Each layer's worker.                                                    *)
Fetching == IF pc \notin {"layers", "nvram"} THEN work = <<>> ELSE
    /\ disk # None /\ DOMAIN disk = Layers(want)
    /\ work \in [Layers(want) -> {"todo", "write", "done", "failed"}]
    /\ next \in [Layers(want) -> 1..LayerSize]
    /\ DOMAIN chunks = Layers(want)
    /\ \A n \in Layers(want) : work[n] = "write" => chunks[n] = Manifest[want][n]

(* What is on the disk of the layers that are not done.                    *)
Written == pc \in {"layers", "nvram"} => \A n \in Layers(want) :
    /\ ~UsesRdisk => \A k \in 1..LayerSize : disk[n][k] \in {Zero, Manifest[want][n][k]}
    /\ work[n] = "todo" /\ UsesRdisk /\ n \in Found(n) => disk[n] = Manifest[want][n]
    /\ work[n] = "write" => \A k \in 1..(next[n] - 1) : disk[n][k] = Manifest[want][n][k]
    /\ work[n] = "done" => disk[n] = Manifest[want][n]

AllDone == pc = "nvram" => \A n \in Layers(want) : work[n] = "done"

Few == IsFiniteSet(Working) /\ Cardinality(Working) <= Concurrency

IInv == Typed /\ DiskTyped /\ CacheWhole /\ Left /\ Begun /\ Fetching /\ Written /\ AllDone /\ Few

-----------------------------------------------------------------------------
(* Proof that it is inductive, an action at a time                         *)

LEMMA Consts ==
    /\ MaxEvents \in Nat /\ Concurrency \in Nat \ {0} /\ LayerSize \in Nat \ {0}
    /\ Zero \in Chunks /\ None \notin Images /\ None \notin Seq(Ranges) /\ <<>> \in Seq(Ranges)
  BY ConstantsAssumption DEF Chunks, Ranges

(* A disk is a sequence of ranges, and an image's is one too. *)
LEMMA Disks == ASSUME NEW i \in Images
               PROVE /\ Manifest[i] \in Seq(Ranges) /\ Layers(i) = 1..Len(Manifest[i])
                     /\ \A n \in Layers(i) : n \in Nat \ {0} /\ Manifest[i][n] \in Ranges
<1>1. Manifest[i] \in Seq(Ranges)  BY ConstantsAssumption DEF Ranges
<1> HIDE DEF Ranges
<1> QED  BY <1>1 DEF Layers

LEMMA FitTyped == ASSUME NEW i \in Images, NEW d \in Seq(Ranges) PROVE Truncate(d, i) \in Seq(Ranges)
<1>1. [k \in 1..LayerSize |-> Zero] \in Ranges  BY Consts DEF Ranges
<1>2. Layers(i) = 1..Len(Manifest[i]) /\ Len(Manifest[i]) \in Nat  BY Disks
<1>3. \A n \in Layers(i) : Truncate(d, i)[n] \in Ranges  BY <1>1, <1>2 DEF Truncate
<1>4. Truncate(d, i) = [n \in 1..Len(Manifest[i]) |-> Truncate(d, i)[n]]  BY <1>2 DEF Truncate
<1> QED  BY <1>2, <1>3, <1>4

LEMMA PutTyped == ASSUME NEW d \in Seq(Ranges), NEW n \in DOMAIN d, NEW r \in Ranges
                  PROVE [d EXCEPT ![n] = r] \in Seq(Ranges)
  OBVIOUS

LEMMA Starts == ASSUME Apart, IInv, PullStart PROVE IInv'
<1>0. Typed /\ DiskTyped /\ CacheWhole /\ Left /\ Begun /\ Fetching /\ Written /\ AllDone /\ Few
    BY DEF IInv
<1>1. Typed'  BY <1>0 DEF Typed, Steps, PullStart, pulling, working
<1>2. DiskTyped'  BY <1>0 DEF DiskTyped, PullStart, pulling, working
<1>3. CacheWhole'  BY <1>0 DEF CacheWhole, ImagesWhole, NoBase, PullStart, pulling, working
<1>4. Left'  BY <1>0 DEF Left, Blank, Typed, Apart, PullStart, pulling, working
<1>5. Begun'  BY <1>0 DEF Begun, Blank, UsesRdisk, Typed, PullStart, pulling, working
<1>6. Fetching'  BY <1>0 DEF Fetching, Typed, PullStart, pulling, working
<1>7. Written'  BY <1>0 DEF Written, UsesRdisk, Found, Typed, PullStart, pulling, working
<1>8. AllDone'  BY <1>0 DEF AllDone, Typed, PullStart, pulling, working
<1>9. Few'  BY <1>0 DEF Few, Working, PullStart, pulling, working
<1> QED  BY <1>1, <1>2, <1>3, <1>4, <1>5, <1>6, <1>7, <1>8, <1>9 DEF IInv

LEMMA Fails == ASSUME Apart, IInv, Fail, pc # "idle" PROVE IInv'
<1>0. Typed /\ DiskTyped /\ CacheWhole /\ Left /\ Begun /\ Fetching /\ Written /\ AllDone /\ Few
    BY DEF IInv
<1>1. Typed'  BY <1>0 DEF Typed, Steps, Fail, NoWork, pulling, working
<1>2. DiskTyped'  BY <1>0 DEF DiskTyped, Fail, NoWork, pulling, working
<1>3. CacheWhole'  BY <1>0 DEF CacheWhole, ImagesWhole, NoBase, Fail, NoWork, pulling, working
<1>4. Left'  BY <1>0 DEF Left, Blank, Typed, Fail, NoWork, pulling, working
<1>5. Begun'  BY <1>0 DEF Begun, Blank, UsesRdisk, Typed, Fail, NoWork, pulling, working
<1>6. Fetching'  BY <1>0 DEF Fetching, Typed, Fail, NoWork, pulling, working
<1>7. Written'  BY <1>0 DEF Written, UsesRdisk, Found, Typed, Fail, NoWork, pulling, working
<1>8. AllDone'  BY <1>0 DEF AllDone, Typed, Fail, NoWork, pulling, working
<1>9. Few'
  <2>1. work' = <<>>  BY <1>0 DEF Typed, Fetching, Fail, NoWork, pulling, working
  <2>2. Working' = {}  BY <2>1 DEF Working
  <2> QED  BY <2>2, FS_EmptySet, ConstantsAssumption DEF Few
<1> QED  BY <1>1, <1>2, <1>3, <1>4, <1>5, <1>6, <1>7, <1>8, <1>9 DEF IInv

LEMMA Chooses == ASSUME Apart, IInv, ChooseBase PROVE IInv'
<1>0. Typed /\ DiskTyped /\ CacheWhole /\ Left /\ Begun /\ Fetching /\ Written /\ AllDone /\ Few
    BY DEF IInv
<1>1. Typed'  BY <1>0 DEF Typed, Steps, CacheWhole, ChooseBase, Best, NoBase, pulling, working
<1>2. DiskTyped'  BY <1>0 DEF DiskTyped, ChooseBase, Best, NoBase, pulling, working
<1>3. CacheWhole'
    BY <1>0 DEF CacheWhole, ImagesWhole, NoBase, Typed, ChooseBase, Best, NoBase, pulling, working
<1>4. Left'  BY <1>0 DEF Left, Blank, ChooseBase, Best, NoBase, pulling, working
<1>5. Begun'  BY <1>0 DEF Begun, Blank, UsesRdisk, Typed, ChooseBase, Best, NoBase, pulling, working
<1>6. Fetching'  BY <1>0 DEF Fetching, Typed, ChooseBase, Best, NoBase, pulling, working
<1>7. Written'  BY <1>0 DEF Written, UsesRdisk, Found, Typed, ChooseBase, Best, NoBase, pulling, working
<1>8. AllDone'  BY <1>0 DEF AllDone, Typed, ChooseBase, Best, NoBase, pulling, working
<1>9. Few'  BY <1>0 DEF Few, Working, ChooseBase, Best, NoBase, pulling, working
<1> QED  BY <1>1, <1>2, <1>3, <1>4, <1>5, <1>6, <1>7, <1>8, <1>9 DEF IInv

LEMMA Creates == ASSUME Apart, IInv, CreateDisk, ~Fail PROVE IInv'
<1>0. Typed /\ DiskTyped /\ CacheWhole /\ Left /\ Begun /\ Fetching /\ Written /\ AllDone /\ Few
    BY DEF IInv
<1>j. /\ pc = "disk" /\ pc' = "truncate" /\ resumed' = (disk # None)
      /\ UNCHANGED <<tag, want, dedup, base, cached, history>>
  BY DEF CreateDisk
<1>k. \/ disk # None /\ disk' = disk
      \/ ~UsesRdisk /\ disk' = <<>>
      \/ UsesRdisk /\ base.image \in Images /\ disk' = Manifest[base.image]
  BY <1>0 DEF CreateDisk, UsesRdisk, CacheWhole, ImagesWhole, NoBase
<1>1. Typed'  BY <1>0 DEF Typed, Steps, CreateDisk, pulling, working
<1>2. DiskTyped'
  BY <1>k, <1>0, Disks, Consts DEF DiskTyped
<1>3. CacheWhole'  BY <1>0 DEF CacheWhole, ImagesWhole, NoBase, Typed, CreateDisk, pulling, working
<1>4. Left'
  <2>1. CASE "kill" \in history
    <3>1. disk' = disk \/ disk' = <<>>  BY <1>0, <1>j, <1>k, <2>1 DEF Left, UsesRdisk
    <3>2. disk' # None => Blank(disk', tag)  BY <1>0, <2>1, <3>1 DEF Left, Blank
    <3> QED  BY <1>0, <1>j, <2>1, <3>2 DEF Left
  <2>2. CASE "kill" \notin history  BY <1>0, <1>j, <2>2 DEF Left
  <2> QED  BY <2>1, <2>2
<1>5. Begun'
  <2>1. disk' # None  BY <1>k, Consts, Disks
  <2>2. CASE disk' = disk /\ disk # None
    <3>1. "kill" \in history  BY <1>0, <1>j, <2>2 DEF Left
    <3> QED  BY <1>0, <1>j, <2>1, <2>2, <3>1 DEF Left, Begun, UsesRdisk
  <2>3. CASE disk' = <<>> /\ ~UsesRdisk  BY <1>j, <2>1, <2>3 DEF Begun, Blank, UsesRdisk
  <2>4. CASE UsesRdisk /\ disk' = Manifest[base.image]  BY <1>j, <2>1, <2>4 DEF Begun, UsesRdisk
  <2> QED  BY <1>k, <2>2, <2>3, <2>4
<1>6. Fetching'  BY <1>0 DEF Fetching, Typed, CreateDisk, pulling, working
<1>7. Written'  BY <1>0 DEF Written, UsesRdisk, Found, Typed, CreateDisk, pulling, working
<1>8. AllDone'  BY <1>0 DEF AllDone, Typed, CreateDisk, pulling, working
<1>9. Few'  BY <1>0 DEF Few, Working, CreateDisk, pulling, working
<1> QED  BY <1>1, <1>2, <1>3, <1>4, <1>5, <1>6, <1>7, <1>8, <1>9 DEF IInv

LEMMA Truncates == ASSUME Apart, IInv, TruncateDisk PROVE IInv'
<1>0. Typed /\ DiskTyped /\ CacheWhole /\ Left /\ Begun /\ Fetching /\ Written /\ AllDone /\ Few
    BY DEF IInv
<1>p. want \in Images /\ disk \in Seq(Ranges)  BY <1>0, Consts DEF Typed, DiskTyped, Begun, TruncateDisk
<1>l. Layers(want) = 1..Len(Manifest[want]) /\ \A m \in Layers(want) : m \in Nat \ {0} /\ Manifest[want][m] \in Ranges
  BY <1>p, Disks
<1>c. LayerSize \in Nat \ {0} /\ Zero \in Chunks  BY Consts
<1>e. disk' \in Seq(Ranges)  BY <1>p, FitTyped DEF TruncateDisk
<1>t. /\ DOMAIN disk' = Layers(want)
      /\ \A n \in Layers(want) : IF n \in DOMAIN disk THEN disk'[n] = disk[n]
                                ELSE \A k \in 1..LayerSize : disk'[n][k] = Zero
  BY DEF TruncateDisk, Truncate
<1>w. /\ work' \in [Layers(want) -> {"todo"}] /\ next' \in [Layers(want) -> {1}] /\ DOMAIN chunks' = Layers(want)
      /\ Working' = {}
  BY DEF TruncateDisk, Working
<1>1. Typed'  BY <1>0 DEF Typed, Steps, TruncateDisk, pulling, working
<1>2. DiskTyped'
  BY <1>e DEF DiskTyped
<1>3. CacheWhole'  BY <1>0 DEF CacheWhole, ImagesWhole, NoBase, Typed, TruncateDisk, pulling, working
<1>4. Left'
  <2>1. SUFFICES ASSUME "kill" \in history PROVE Blank(disk', tag)
    BY <1>0 DEF Left, TruncateDisk, pulling
  <2>2. want = tag /\ Blank(disk, tag)  BY <1>0, <2>1 DEF Left, Begun, TruncateDisk
  <2> QED  BY <2>2, <1>t, <1>c DEF Blank
<1>5. Begun'  BY <1>0 DEF Begun, Blank, UsesRdisk, Typed, TruncateDisk, pulling, working
<1>6. Fetching'
    BY <1>0, <1>t, <1>c, <1>w, <1>e, Consts DEF Fetching, Typed, Begun, TruncateDisk, pulling, working
<1>7. Written'
  <2> SUFFICES ASSUME NEW n \in Layers(want)
               PROVE /\ ~UsesRdisk => \A k \in 1..LayerSize : disk'[n][k] \in {Zero, Manifest[want][n][k]}
                     /\ UsesRdisk /\ n \in Found(n) => disk'[n] = Manifest[want][n]
    BY <1>w DEF Written, TruncateDisk, pulling, UsesRdisk, Found
  <2>1. CASE UsesRdisk
    <3>1. disk = Manifest[base.image]  BY <1>0, <2>1 DEF Begun, TruncateDisk
    <3> QED  BY <2>1, <3>1, <1>t DEF Found, Layers, UsesRdisk
  <2>2. CASE ~UsesRdisk
    <3>1. Blank(disk, want)  BY <1>0, <2>2 DEF Begun, TruncateDisk
    <3> QED  BY <2>2, <3>1, <1>t DEF Blank
  <2> QED  BY <2>1, <2>2
<1>8. AllDone'  BY <1>0 DEF AllDone, Typed, TruncateDisk, pulling, working
<1>9. Few'
  BY <1>w, FS_EmptySet, Consts DEF Few
<1> QED  BY <1>1, <1>2, <1>3, <1>4, <1>5, <1>6, <1>7, <1>8, <1>9 DEF IInv

LEMMA LayerStarts == ASSUME Apart, IInv, NEW n \in DOMAIN work, LayerStart(n) PROVE IInv'
<1>0. Typed /\ DiskTyped /\ CacheWhole /\ Left /\ Begun /\ Fetching /\ Written /\ AllDone /\ Few
    BY DEF IInv
<1>p. want \in Images /\ disk \in Seq(Ranges)
    BY <1>0, Consts DEF Typed, DiskTyped, Fetching, LayerStart
<1>l. Layers(want) = 1..Len(Manifest[want]) /\ \A m \in Layers(want) : m \in Nat \ {0} /\ Manifest[want][m] \in Ranges
  BY <1>p, Disks
<1>c. LayerSize \in Nat \ {0} /\ Zero \in Chunks  BY Consts
<1>1. Typed'  BY <1>0 DEF Typed, Steps, LayerStart, Writes, Ends, Subdata, pulling, working
<1>2. DiskTyped'  BY <1>0 DEF DiskTyped, LayerStart, Writes, Ends, Subdata, pulling, working
<1>3. CacheWhole'
    BY <1>0 DEF CacheWhole, ImagesWhole, NoBase, LayerStart, Writes, Ends, Subdata, pulling, working
<1>4. Left'  BY <1>0 DEF Left, Blank, LayerStart, Writes, Ends, Subdata, pulling, working
<1>5. Begun'  BY <1>0 DEF Begun, Blank, UsesRdisk, LayerStart, Writes, Ends, Subdata, pulling, working
<1>6. Fetching'
  <2>1. n \in Layers(want) /\ next[n] \in 1..LayerSize  BY <1>0 DEF Fetching, LayerStart
  <2>2. ASSUME NEW b \in Found(n) PROVE base.disk[b] = Manifest[want][n]
    BY <1>0 DEF CacheWhole, NoBase, Found
  <2>3. /\ DOMAIN work' = Layers(want) /\ next' \in [Layers(want) -> 1..LayerSize] /\ DOMAIN chunks' = Layers(want)
        /\ work' \in [Layers(want) -> {"todo", "write", "done", "failed"}]
    BY <1>0, <1>c, <2>1 DEF Fetching, LayerStart, Writes, Ends, Subdata
  <2>4. ASSUME NEW m \in Layers(want), work'[m] = "write" PROVE chunks'[m] = Manifest[want][m]
    <3>1. CASE m = n  BY <1>0, <2>1, <2>2, <2>4, <3>1 DEF Fetching, LayerStart, Writes, Ends, Subdata
    <3>2. CASE m # n  BY <1>0, <2>1, <2>4, <3>2 DEF Fetching, LayerStart, Writes, Ends, Subdata
    <3> QED  BY <3>1, <3>2
  <2> QED  BY <1>0, <2>3, <2>4 DEF Fetching, LayerStart, pulling
<1>7. Written'
    BY <1>0 DEF Written, UsesRdisk, Found, Fetching, CacheWhole, Left, Typed, LayerStart, Writes,
        Ends, Subdata, pulling, working
<1>8. AllDone'
    BY <1>0 DEF AllDone, Fetching, Typed, LayerStart, Writes, Ends, Subdata, pulling, working
<1>9. Few'
  <2>1. Working' = Working \/ Working' = Working \cup {n}
      BY <1>0 DEF Fetching, LayerStart, Writes, Ends, Working
  <2>2. n \notin Working /\ Cardinality(Working) < Concurrency /\ IsFiniteSet(Working)
      BY <1>0 DEF LayerStart, Working, Few
  <2>3. /\ IsFiniteSet(Working \cup {n}) /\ Cardinality(Working) \in Nat
        /\ Cardinality(Working \cup {n}) = Cardinality(Working) + 1
    BY <2>2, FS_AddElement, FS_CardinalityType
  <2>4. CASE Working' = Working  BY <1>0, <2>4 DEF Few
  <2>5. CASE Working' = Working \cup {n}  BY <2>2, <2>3, <2>5, Consts DEF Few
  <2> QED  BY <2>1, <2>4, <2>5
<1> QED  BY <1>1, <1>2, <1>3, <1>4, <1>5, <1>6, <1>7, <1>8, <1>9 DEF IInv

LEMMA LayerWrites == ASSUME Apart, IInv, NEW n \in DOMAIN work, LayerWrite(n) PROVE IInv'
<1>0. Typed /\ DiskTyped /\ CacheWhole /\ Left /\ Begun /\ Fetching /\ Written /\ AllDone /\ Few
    BY DEF IInv
<1>p. want \in Images /\ disk \in Seq(Ranges)
    BY <1>0, Consts DEF Typed, DiskTyped, Fetching, LayerWrite
<1>l. Layers(want) = 1..Len(Manifest[want]) /\ \A m \in Layers(want) : m \in Nat \ {0} /\ Manifest[want][m] \in Ranges
  BY <1>p, Disks
<1>c. LayerSize \in Nat \ {0} /\ Zero \in Chunks  BY Consts
<1>u. pc = "layers" /\ work[n] = "write" /\ UNCHANGED <<pc, want, dedup, base, tag, history>>
  BY DEF LayerWrite, pulling
<1>a. /\ n \in Layers(want) /\ DOMAIN disk = Layers(want) /\ next[n] \in 1..LayerSize
      /\ chunks[n] = Manifest[want][n] /\ disk[n] \in Ranges
  BY <1>0, <1>p, <1>u DEF Fetching
<1>b. [disk[n] EXCEPT ![next[n]] = chunks[n][next[n]]] \in Ranges  BY <1>a, <1>l DEF Ranges
<1>d. disk' \in Seq(Ranges) /\ DOMAIN disk' = Layers(want)  BY <1>a, <1>b, <1>p, PutTyped DEF LayerWrite
<1>x. /\ \A m \in Layers(want) : m # n => disk'[m] = disk[m]
      /\ \A k \in 1..LayerSize : disk'[n][k] = IF k = next[n] THEN Manifest[want][n][k] ELSE disk[n][k]
  <2>1. CASE ~UsesRdisk /\ chunks[n][next[n]] = Zero  BY <1>0, <1>a, <1>u, <2>1 DEF LayerWrite, Written
  <2>2. CASE ~(~UsesRdisk /\ chunks[n][next[n]] = Zero)
    <3>1. disk' = [disk EXCEPT ![n] = [disk[n] EXCEPT ![next[n]] = chunks[n][next[n]]]]
        BY <2>2 DEF LayerWrite
    <3> QED  BY <1>a, <3>1 DEF Ranges
  <2> QED  BY <2>1, <2>2
<1>1. Typed'  BY <1>0 DEF Typed, Steps, LayerWrite, Ends, pulling, working
<1>2. DiskTyped'
  BY <1>d DEF DiskTyped
<1>3. CacheWhole'  BY <1>0 DEF CacheWhole, ImagesWhole, NoBase, LayerWrite, Ends, pulling, working
<1>4. Left'
  <2>1. SUFFICES ASSUME "kill" \in history PROVE Blank(disk', tag)
    BY <1>0 DEF Left, LayerWrite, pulling
  <2>2. want = tag /\ Blank(disk, tag)  BY <1>0, <1>p, <2>1, Consts DEF Left, LayerWrite, Typed
  <2> QED  BY <2>2, <1>c, <1>a, <1>d, <1>x DEF Blank
<1>5. Begun'  BY <1>0 DEF Begun, Blank, UsesRdisk, Typed, LayerWrite, Ends, pulling, working
<1>6. Fetching'
  <2>1. disk' # None /\ pc' = "layers" /\ want' = want  BY <1>d, <1>u, Consts
  <2>2. next' \in [Layers(want) -> 1..LayerSize] /\ chunks' = chunks
      BY <1>0, <1>a, <1>c, <1>u DEF Fetching, LayerWrite, Ends
  <2>3. work' \in [Layers(want) -> {"todo", "write", "done", "failed"}] /\ \A m \in Layers(want) : work'[m] = "write" => work[m] = "write"
    BY <1>0, <1>u DEF Fetching, LayerWrite, Ends
  <2> QED  BY <1>0, <1>d, <1>u, <2>1, <2>2, <2>3 DEF Fetching
<1>7. Written'
  <2> SUFFICES ASSUME NEW m \in Layers(want)
               PROVE /\ ~UsesRdisk => \A k \in 1..LayerSize : disk'[m][k] \in {Zero, Manifest[want][m][k]}
                     /\ work'[m] = "todo" /\ UsesRdisk /\ m \in Found(m) => disk'[m] = Manifest[want][m]
                     /\ work'[m] = "write" => \A k \in 1..(next'[m] - 1) : disk'[m][k] = Manifest[want][m][k]
                     /\ work'[m] = "done" => disk'[m] = Manifest[want][m]
    BY <1>u DEF Written, UsesRdisk, Found
  <2>1. CASE m # n
    <3>1. work'[m] = work[m] /\ next'[m] = next[m] /\ disk'[m] = disk[m]
      BY <1>0, <1>x, <2>1 DEF Fetching, LayerWrite, Ends
    <3> QED  BY <1>0, <1>u, <3>1 DEF Written
  <2>2. CASE m = n
    <3>1. ~UsesRdisk => \A k \in 1..LayerSize : disk'[n][k] \in {Zero, Manifest[want][n][k]}
      BY <1>0, <1>u, <1>a, <1>x DEF Written
    <3>2. \A k \in 1..next[n] : disk'[n][k] = Manifest[want][n][k]
      BY <1>0, <1>u, <1>a, <1>c, <1>x DEF Written
    <3>3. CASE next[n] = LayerSize
      <4>1. work'[n] = "done"  BY <1>0, <1>a, <3>3 DEF Fetching, LayerWrite, Ends
      <4>2. disk'[n] \in Ranges /\ Manifest[want][n] \in Ranges  BY <1>a, <1>d, <1>l
      <4>3. disk'[n] = Manifest[want][n]  BY <1>a, <3>2, <3>3, <4>2 DEF Ranges
      <4> QED  BY <2>2, <3>1, <4>1, <4>3
    <3>4. CASE next[n] # LayerSize
      <4>1. work'[n] = "write" /\ next'[n] = next[n] + 1
          BY <1>0, <1>a, <1>u, <3>4 DEF Fetching, LayerWrite, Ends
      <4> QED  BY <1>a, <1>c, <2>2, <3>1, <3>2, <4>1
    <3> QED  BY <3>3, <3>4
  <2> QED  BY <2>1, <2>2
<1>8. AllDone'  BY <1>0 DEF AllDone, Fetching, Typed, LayerWrite, Ends, pulling, working
<1>9. Few'
  <2>1. Working' = Working \/ Working' = Working \ {n}  BY <1>0 DEF Fetching, LayerWrite, Ends, Working
  <2>2. /\ IsFiniteSet(Working \ {n}) /\ Cardinality(Working \ {n}) \in Nat /\ Cardinality(Working) \in Nat
        /\ Cardinality(Working \ {n}) <= Cardinality(Working)
    BY <1>0, FS_RemoveElement, FS_Subset, FS_CardinalityType DEF Few
  <2>3. CASE Working' = Working  BY <1>0, <2>3 DEF Few
  <2>4. CASE Working' = Working \ {n}
    <3>1. Cardinality(Working) <= Concurrency  BY <1>0 DEF Few
    <3> QED  BY <2>2, <2>4, <3>1, Consts DEF Few
  <2> QED  BY <2>1, <2>3, <2>4
<1> QED  BY <1>1, <1>2, <1>3, <1>4, <1>5, <1>6, <1>7, <1>8, <1>9 DEF IInv

LEMMA LayersDone == ASSUME Apart, IInv, LayersEnd, ~Fail PROVE IInv'
<1>0. Typed /\ DiskTyped /\ CacheWhole /\ Left /\ Begun /\ Fetching /\ Written /\ AllDone /\ Few
    BY DEF IInv
<1>1. Typed'  BY <1>0 DEF Typed, Steps, CacheWhole, LayersEnd, pulling, working
<1>2. DiskTyped'  BY <1>0 DEF DiskTyped, LayersEnd, pulling, working
<1>3. CacheWhole'  BY <1>0 DEF CacheWhole, ImagesWhole, NoBase, LayersEnd, pulling, working
<1>4. Left'  BY <1>0 DEF Left, Blank, Typed, Begun, LayersEnd, pulling, working
<1>5. Begun'  BY <1>0 DEF Begun, Blank, UsesRdisk, Typed, LayersEnd, pulling, working
<1>6. Fetching'  BY <1>0 DEF Fetching, Typed, Begun, LayersEnd, pulling, working
<1>7. Written'  BY <1>0 DEF Written, UsesRdisk, Found, Fetching, Typed, LayersEnd, pulling, working
<1>8. AllDone'  BY <1>0 DEF AllDone, Typed, Fetching, LayersEnd, pulling, working
<1>9. Few'  BY <1>0 DEF Few, Working, LayersEnd, pulling, working
<1> QED  BY <1>1, <1>2, <1>3, <1>4, <1>5, <1>6, <1>7, <1>8, <1>9 DEF IInv

LEMMA Moves == ASSUME Apart, IInv, Move PROVE IInv'
<1>0. Typed /\ DiskTyped /\ CacheWhole /\ Left /\ Begun /\ Fetching /\ Written /\ AllDone /\ Few
    BY DEF IInv
<1>1. Typed'  BY <1>0 DEF Typed, Steps, Move, NoWork, pulling, working
<1>2. DiskTyped'  BY <1>0 DEF DiskTyped, Move, NoWork, pulling, working
<1>3. CacheWhole'
  <2>1. pc = "nvram" /\ want \in Images  BY <1>0 DEF Move, Typed
  <2>2. DOMAIN disk = Layers(want) /\ \A n \in Layers(want) : disk[n] = Manifest[want][n]
    BY <1>0, <2>1 DEF Fetching, AllDone, Written
  <2>3. disk \in Seq(Ranges) /\ Manifest[want] \in Seq(Ranges)
      BY <1>0, <2>1, Disks DEF DiskTyped, Fetching
  <2>4. disk = Manifest[want]  BY <2>2, <2>3 DEF Layers
  <2> QED  BY <1>0, <2>1, <2>4 DEF CacheWhole, ImagesWhole, NoBase, Move
<1>4. Left'  BY <1>0 DEF Left, Blank, Typed, Move, NoWork, pulling, working
<1>5. Begun'  BY <1>0 DEF Begun, Blank, UsesRdisk, Typed, Move, NoWork, pulling, working
<1>6. Fetching'  BY <1>0 DEF Fetching, Typed, Move, NoWork, pulling, working
<1>7. Written'  BY <1>0 DEF Written, UsesRdisk, Found, Typed, Move, NoWork, pulling, working
<1>8. AllDone'  BY <1>0 DEF AllDone, Typed, Move, NoWork, pulling, working
<1>9. Few'
  <2>1. work' = <<>>  BY <1>0 DEF Typed, Fetching, Move, NoWork, pulling, working
  <2>2. Working' = {}  BY <2>1 DEF Working
  <2> QED  BY <2>2, FS_EmptySet, ConstantsAssumption DEF Few
<1> QED  BY <1>1, <1>2, <1>3, <1>4, <1>5, <1>6, <1>7, <1>8, <1>9 DEF IInv

LEMMA Pushes == ASSUME Apart, IInv, Push PROVE IInv'
<1>0. Typed /\ DiskTyped /\ CacheWhole /\ Left /\ Begun /\ Fetching /\ Written /\ AllDone /\ Few
    BY DEF IInv
<1>1. Typed'  BY <1>0, Consts DEF Typed, Steps, Push, Happens, pulling, working
<1>2. DiskTyped'  BY <1>0 DEF DiskTyped, Push, Happens, pulling, working
<1>3. CacheWhole'  BY <1>0 DEF CacheWhole, ImagesWhole, NoBase, Push, Happens, pulling, working
<1>4. Left'  BY <1>0 DEF Left, Blank, Typed, Apart, Push, Happens, pulling, working
<1>5. Begun'  BY <1>0 DEF Begun, Blank, UsesRdisk, Typed, Push, Happens, pulling, working
<1>6. Fetching'  BY <1>0 DEF Fetching, Typed, Push, Happens, pulling, working
<1>7. Written'  BY <1>0 DEF Written, UsesRdisk, Found, Push, Happens, pulling, working
<1>8. AllDone'  BY <1>0 DEF AllDone, Push, Happens, pulling, working
<1>9. Few'  BY <1>0 DEF Few, Working, Push, Happens, pulling, working
<1> QED  BY <1>1, <1>2, <1>3, <1>4, <1>5, <1>6, <1>7, <1>8, <1>9 DEF IInv

LEMMA Kills == ASSUME Apart, IInv, Kill PROVE IInv'
<1>0. Typed /\ DiskTyped /\ CacheWhole /\ Left /\ Begun /\ Fetching /\ Written /\ AllDone /\ Few
    BY DEF IInv
<1>1. Typed'
  <2>1. events' \in 0..MaxEvents  BY <1>0, Consts DEF Typed, Kill, Happens
  <2> QED  BY <1>0, <2>1 DEF Typed, Steps, Kill, Happens
<1>2. DiskTyped'  BY <1>0 DEF DiskTyped, Kill, Happens, NoWork, pulling, working
<1>3. CacheWhole'  BY <1>0 DEF CacheWhole, ImagesWhole, NoBase, Kill, Happens, NoWork, pulling, working
<1>4. Left'
    BY <1>0 DEF Left, Blank, Typed, Begun, Fetching, Written, UsesRdisk, Kill, Happens, NoWork,
        pulling, working
<1>5. Begun'  BY <1>0 DEF Begun, Blank, UsesRdisk, Typed, Kill, Happens, NoWork, pulling, working
<1>6. Fetching'  BY <1>0 DEF Fetching, Typed, Kill, Happens, NoWork, pulling, working
<1>7. Written'  BY <1>0 DEF Written, UsesRdisk, Found, Typed, Kill, Happens, NoWork, pulling, working
<1>8. AllDone'  BY <1>0 DEF AllDone, Typed, Kill, Happens, NoWork, pulling, working
<1>9. Few'
  <2>1. work' = <<>>  BY <1>0 DEF Typed, Fetching, Kill, NoWork, pulling, working
  <2>2. Working' = {}  BY <2>1 DEF Working
  <2> QED  BY <2>2, FS_EmptySet, ConstantsAssumption DEF Few
<1> QED  BY <1>1, <1>2, <1>3, <1>4, <1>5, <1>6, <1>7, <1>8, <1>9 DEF IInv

LEMMA Collects == ASSUME Apart, IInv, TmpGC PROVE IInv'
<1>0. Typed /\ DiskTyped /\ CacheWhole /\ Left /\ Begun /\ Fetching /\ Written /\ AllDone /\ Few
    BY DEF IInv
<1>1. Typed'  BY <1>0, Consts DEF Typed, Steps, TmpGC, Happens, pulling, working
<1>2. DiskTyped'  BY <1>0 DEF DiskTyped, TmpGC, Happens, pulling, working
<1>3. CacheWhole'  BY <1>0 DEF CacheWhole, ImagesWhole, NoBase, TmpGC, Happens, pulling, working
<1>4. Left'  BY <1>0 DEF Left, Blank, Typed, TmpGC, Happens, pulling, working
<1>5. Begun'  BY <1>0 DEF Begun, Blank, UsesRdisk, Typed, TmpGC, Happens, pulling, working
<1>6. Fetching'  BY <1>0 DEF Fetching, Typed, TmpGC, Happens, pulling, working
<1>7. Written'  BY <1>0 DEF Written, UsesRdisk, Found, Typed, TmpGC, Happens, pulling, working
<1>8. AllDone'  BY <1>0 DEF AllDone, Typed, TmpGC, Happens, pulling, working
<1>9. Few'  BY <1>0 DEF Few, Working, TmpGC, Happens, pulling, working
<1> QED  BY <1>1, <1>2, <1>3, <1>4, <1>5, <1>6, <1>7, <1>8, <1>9 DEF IInv

LEMMA Arrives == ASSUME Apart, IInv, Arrive PROVE IInv'
<1>0. Typed /\ DiskTyped /\ CacheWhole /\ Left /\ Begun /\ Fetching /\ Written /\ AllDone /\ Few
    BY DEF IInv
<1>1. Typed'  BY <1>0, Consts DEF Typed, Steps, Arrive, Happens, pulling, working
<1>2. DiskTyped'  BY <1>0 DEF DiskTyped, Arrive, Happens, pulling, working
<1>3. CacheWhole'  BY <1>0 DEF CacheWhole, ImagesWhole, NoBase, Arrive, Happens, pulling, working
<1>4. Left'  BY <1>0 DEF Left, Blank, Arrive, Happens, pulling, working
<1>5. Begun'  BY <1>0 DEF Begun, Blank, UsesRdisk, Arrive, Happens, pulling, working
<1>6. Fetching'  BY <1>0 DEF Fetching, Arrive, Happens, pulling, working
<1>7. Written'  BY <1>0 DEF Written, UsesRdisk, Found, Arrive, Happens, pulling, working
<1>8. AllDone'  BY <1>0 DEF AllDone, Arrive, Happens, pulling, working
<1>9. Few'  BY <1>0 DEF Few, Working, Arrive, Happens, pulling, working
<1> QED  BY <1>1, <1>2, <1>3, <1>4, <1>5, <1>6, <1>7, <1>8, <1>9 DEF IInv

LEMMA Evicts == ASSUME Apart, IInv, Evict PROVE IInv'
<1>0. Typed /\ DiskTyped /\ CacheWhole /\ Left /\ Begun /\ Fetching /\ Written /\ AllDone /\ Few
    BY DEF IInv
<1>1. Typed'  BY <1>0, Consts DEF Typed, Steps, Evict, Happens, pulling, working
<1>2. DiskTyped'  BY <1>0 DEF DiskTyped, Evict, Happens, pulling, working
<1>3. CacheWhole'  BY <1>0 DEF CacheWhole, ImagesWhole, NoBase, Evict, Happens, pulling, working
<1>4. Left'  BY <1>0 DEF Left, Blank, Evict, Happens, pulling, working
<1>5. Begun'  BY <1>0 DEF Begun, Blank, UsesRdisk, Evict, Happens, pulling, working
<1>6. Fetching'  BY <1>0 DEF Fetching, Evict, Happens, pulling, working
<1>7. Written'  BY <1>0 DEF Written, UsesRdisk, Found, Evict, Happens, pulling, working
<1>8. AllDone'  BY <1>0 DEF AllDone, Evict, Happens, pulling, working
<1>9. Few'  BY <1>0 DEF Few, Working, Evict, Happens, pulling, working
<1> QED  BY <1>1, <1>2, <1>3, <1>4, <1>5, <1>6, <1>7, <1>8, <1>9 DEF IInv

LEMMA Begins == Init => IInv
<1> SUFFICES ASSUME Init PROVE IInv  OBVIOUS
<1>6. events \in 0..MaxEvents  BY Consts DEF Init
<1>1. Typed  BY <1>6 DEF Init, Typed, Steps
<1>5. DiskTyped /\ Left /\ Begun /\ Fetching /\ Written /\ AllDone
  BY DEF Init, DiskTyped, Left, Begun, Fetching, Written, AllDone
<1>2. CacheWhole  BY DEF Init, CacheWhole, ImagesWhole, NoBase
<1>3. Working = {}  BY DEF Init, Working
<1>4. Few  BY <1>3, FS_EmptySet, Consts DEF Few
<1> QED  BY <1>1, <1>2, <1>4, <1>5 DEF IInv

LEMMA StepKeeps == ASSUME Apart, IInv, [Next]_vars PROVE IInv'
<1>1. CASE PullStart  BY <1>1, Starts
<1>2. CASE Pull
  <2>1. CASE Fail /\ pc # "idle"  BY <2>1, Fails
  <2>2. CASE ~(Fail /\ pc # "idle")
    <3>1. CASE ChooseBase  BY <3>1, Chooses
    <3>2. CASE CreateDisk  BY <2>2, <3>2, Creates DEF CreateDisk
    <3>3. CASE TruncateDisk  BY <3>3, Truncates
    <3>4. ASSUME NEW n \in DOMAIN work, LayerStart(n) PROVE IInv'  BY <3>4, LayerStarts
    <3>5. ASSUME NEW n \in DOMAIN work, LayerWrite(n) PROVE IInv'  BY <3>5, LayerWrites
    <3>6. CASE LayersEnd  BY <2>2, <3>6, LayersDone DEF LayersEnd
    <3>7. CASE NvramFails  BY <2>2, <3>7 DEF NvramFails
    <3>8. CASE Move  BY <3>8, Moves
    <3> QED  BY <1>2, <3>1, <3>2, <3>3, <3>4, <3>5, <3>6, <3>7, <3>8 DEF Pull
  <2> QED  BY <2>1, <2>2
<1>3. CASE Push  BY <1>3, Pushes
<1>4. CASE Kill  BY <1>4, Kills
<1>5. CASE TmpGC  BY <1>5, Collects
<1>6. CASE Arrive  BY <1>6, Arrives
<1>7. CASE Evict  BY <1>7, Evicts
<1>8. CASE UNCHANGED vars
  BY <1>8 DEF vars, pulling, working, IInv, Typed, DiskTyped, CacheWhole, ImagesWhole, Left, Blank,
      Begun, UsesRdisk, Fetching, Written, Found, AllDone, Few, Working
<1> QED  BY <1>1, <1>2, <1>3, <1>4, <1>5, <1>6, <1>7, <1>8 DEF Next

LEMMA Safe == ASSUME IInv PROVE DiskSafe
<1>1. \A i \in Images : cached[i] = None \/ cached[i] \in Seq(Ranges)  BY Disks DEF IInv, CacheWhole
<1>2. base.image \in Images \cup {None}  BY DEF IInv, CacheWhole, NoBase
<1>3. pc \in {"layers", "nvram"} \/ work = <<>>  BY DEF IInv, Fetching
<1>4. \A n \in DOMAIN work : work[n] \in {"todo", "write", "done", "failed"} /\ next[n] \in 1..LayerSize
  BY <1>3 DEF IInv, Fetching
<1>5. TypeOK  BY <1>1, <1>2, <1>4 DEF TypeOK, IInv, Typed, DiskTyped, Few, Ranges
<1>6. DoneLayersStay  BY DEF IInv, Fetching, Written, DoneLayersStay
<1> QED  BY <1>5, <1>6 DEF DiskSafe, IInv, CacheWhole

-----------------------------------------------------------------------------
(* Whatever is pushed, fetched, copied from other images or inherited from *)
(* a killed pull of the same image, and however many layers are written at *)
(* a time: an image that a pull has moved into the cache is, chunk for     *)
(* chunk, the one its manifest describes, and a layer that is done is not  *)
(* disturbed again.  (oci/oci_layerizer_diskv2.go, DiskV2.Pull)            *)
THEOREM PulledWhole == Apart => (Spec => []DiskSafe)
<1> SUFFICES ASSUME Apart PROVE Spec => []DiskSafe  OBVIOUS
<1>1. IInv /\ [Next]_vars => IInv'  BY StepKeeps
<1>2. IInv => DiskSafe  BY Safe
<1> QED  BY Begins, <1>1, <1>2, PTL DEF Spec
=============================================================================
