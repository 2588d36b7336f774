-------------------------- MODULE OCICacheProofs --------------------------
(***************************************************************************)
(* What OCICache keeps, for every number of processes, tags, images and    *)
(* hosts, and whatever the processes do (every Mixes): the directories of  *)
(* tmp, the images and the tags' links.                                    *)
(***************************************************************************)
EXTENDS OCICache, TLAPS

USE ConstantsAssumption

(* Of the pulls from one host, one is past the host's lock.                *)
LEMMA OneHolder ==
    ASSUME IInv, NEW p \in Procs, NEW q \in Procs, IsPull(p), IsPull(q), Host(p) = Host(q),
           pc[p] \in Holding, pc[q] \in Holding
    PROVE  p = q
BY DEF IInv, Placed

(* Where a command has no image to see to any more. *)
OwesNone(p) ==
    \/ pc[p] \notin {"unlink", "symlink", "walk", "dead", "mark", "collect"}
    \/ pc[p] = "collect" /\ todo[p] = {}

(* A step of a command that owes no image anything leaves every image      *)
(* accounted for.                                                          *)
LEMMA AccountedIdle ==
    ASSUME IInv, NEW p \in Procs,
           /\ UNCHANGED <<image, link, job>>
           /\ OwesNone(p)
           /\ \A q \in Procs \ {p} : pc'[q] = pc[q] /\ todo'[q] = todo[q]
    PROVE  Accounted'
<1>1. \A q \in Procs, d \in Digests : Owes(q, d) => Owes(q, d)'
  BY DEF Owes, OwesNone, Name
<1>2. QED BY <1>1 DEF IInv, Accounted

-----------------------------------------------------------------------------
(* What ends a command *)

LEMMA FailKeeps ==
    ASSUME IInv, NEW p \in Procs, Fail(p), pc[p] \in {"manifest", "opentmp", "space", "reclaim", "prune"}
    PROVE  IInv'
<1>1. TypeOK'
  BY SMT DEF IInv, TypeOK, GoWith, Free, Release, End, Fail, Ended, store, registry, known
<1>2. Placed'
  BY SMT DEF IInv, TypeOK, GoWith, Free, Release, End, Fail, IsPull, Name, Host, Hosts, Ready,
      Holding, Ended, Placed
<1>3. Known'
  BY SMT DEF IInv, GoWith, End, Fail, IsPull, Name, Host, Ready, Holding, registry, known, Known
<1>4. TmpHeld'
  BY SMT DEF IInv, TypeOK, GoWith, Free, Release, End, Fail, Name, known, TmpHeld
<1>5. FlocksOfDirs'
  BY SMT DEF IInv, Free, Release, End, Fail, FlocksOfDirs
<1>6. Fresh'
  BY SMT DEF IInv, GoWith, End, Fail, Here, Ready, store, known, Fresh
<1>7. LinksHeld'
  BY SMT DEF IInv, GoWith, End, Fail, IsPull, Name, store, known, LinksHeld
<1>8. Marked'
  BY SMT DEF IInv, GoWith, End, Fail, IsPull, Name, store, Marked
<1>9. Accounted'
  BY SMT DEF IInv, GoWith, Free, Release, End, Fail, IsPull, Name, Host, Hosts, Refs, Ready, Holding,
      Working, Ended, store, registry, Owes, Placed, Accounted
<1>10. QED BY <1>1, <1>2, <1>3, <1>4, <1>5, <1>6, <1>7, <1>8, <1>9 DEF IInv

LEMMA OkKeeps ==
    ASSUME IInv, NEW p \in Procs, End(p, "ok"), UNCHANGED <<store, registry>>,
           pc[p] \in {"open", "collect", "prune"}, IsPull(p) => pc[p] = "open" /\ Exists(Name(p)), todo[p] = {} \/ pc[p] = "open"
    PROVE  IInv'
<1>1. TypeOK'
  BY SMT DEF IInv, TypeOK, GoWith, Free, Release, End, Ended, store, registry, known
<1>2. Placed'
  BY SMT DEF IInv, TypeOK, GoWith, Free, Release, End, IsPull, Name, Host, Hosts, Ready, Holding,
      Ended, Placed
<1>3. Known'
  BY SMT DEF IInv, GoWith, End, IsPull, Name, Host, Holding, registry, known, Known
<1>4. TmpHeld'
  BY SMT DEF IInv, TypeOK, GoWith, Free, Release, End, Name, known, TmpHeld
<1>5. FlocksOfDirs'
  BY SMT DEF IInv, Free, Release, End, FlocksOfDirs
<1>6. Fresh'
  BY SMT DEF IInv, GoWith, End, Here, Ready, store, known, Fresh
<1>7. LinksHeld'
  BY SMT DEF IInv, GoWith, End, IsPull, Name, store, known, LinksHeld
<1>8. Marked'
  BY SMT DEF IInv, TypeOK, GoWith, End, Here, Exists, IsPull, Name, store, Marked
<1>9. Accounted'
  <2>1. /\ UNCHANGED <<image, link, job>>
        /\ OwesNone(p)
        /\ \A q \in Procs \ {p} : pc'[q] = pc[q] /\ todo'[q] = todo[q]
    BY DEF IInv, TypeOK, store, End, GoWith, OwesNone
  <2> QED BY <2>1, AccountedIdle
<1>10. QED BY <1>1, <1>2, <1>3, <1>4, <1>5, <1>6, <1>7, <1>8, <1>9 DEF IInv

-----------------------------------------------------------------------------
(* Pulls *)

LEMMA PullManifestKeeps ==
    ASSUME IInv, NEW p \in Procs, PullManifest(p)
    PROVE  IInv'
<1>1. CASE Fail(p)
  BY <1>1, FailKeeps DEF PullManifest
<1>2. CASE ~Fail(p)
  <2>a. pc[p] = "manifest" /\ IsPull(p)
    BY <1>2 DEF IInv, Placed, PullManifest, Holding, Ready, Ended
  <2>d. DEFINE d == IF Name(p) \in Tags THEN tag[Name(p)] ELSE Name(p)
  <2> HIDE DEF d
  <2>b. d \in Digests /\ HostOf[d] = Host(p) /\ (Name(p) \in Digests => d = Name(p))
    BY DEF IInv, TypeOK, Known, Images, Name, Host, Refs, d
  <2>c. /\ digest' = [digest EXCEPT ![p] = d]
        /\ pc' = [pc EXCEPT ![p] = IF Cached(p, d) THEN "ok" ELSE "lock"]
        /\ UNCHANGED <<image, link, lock, dirs, flock, tag, retags, job, todo, fd, sweeps>>
    BY <1>2 DEF PullManifest, IInv, TypeOK, store, registry, tmp, d
  <2>1. TypeOK'
    BY <2>b, <2>c DEF IInv, TypeOK, Working, Ended
  <2>2. Placed'
    BY <2>a, <2>c, SMT DEF IInv, TypeOK, Placed, IsPull, Name, Host, Ended, Holding, Ready
  <2>3. Known'
    BY <2>a, <2>b, <2>c, SMT DEF IInv, TypeOK, Known, IsPull, Name, Host, Images, Holding, Ready
  <2>4. TmpHeld'
    BY <2>c, SMT DEF IInv, TypeOK, TmpHeld, Name
  <2>5. FlocksOfDirs'
    BY <2>c DEF IInv, FlocksOfDirs
  <2>6. Fresh'
    BY <2>a, <2>c, SMT DEF IInv, TypeOK, Fresh, Here, Ready
  <2>7. LinksHeld'
    BY <2>a, <2>c, SMT DEF IInv, TypeOK, LinksHeld, IsPull, Name
  <2>8. Marked'
    <3>1. Name(p) \in Digests => ~Cached(p, d)
      BY DEF Cached, Linked
    <3> QED BY <2>a, <2>c, <3>1, SMT DEF IInv, TypeOK, Marked, IsPull, Name
  <2>9. Accounted'
    <3>1. /\ UNCHANGED <<image, link, job>>
          /\ OwesNone(p)
          /\ \A q \in Procs \ {p} : pc'[q] = pc[q] /\ todo'[q] = todo[q]
      BY <2>a, <2>c DEF IInv, TypeOK, OwesNone
    <3> QED BY <3>1, AccountedIdle
  <2> QED BY <2>1, <2>2, <2>3, <2>4, <2>5, <2>6, <2>7, <2>8, <2>9 DEF IInv
<1> QED BY <1>1, <1>2

LEMMA PullLockKeeps ==
    ASSUME IInv, NEW p \in Procs, PullLock(p)
    PROVE  IInv'
<1>1. TypeOK'
  BY SMTT(30) DEF IInv, TypeOK, Goto, IsPull, Hosts, Refs, Working, Ended, store, tmp, registry, known,
      Known, Placed, PullLock
<1>2. Placed'
  BY SMT DEF IInv, TypeOK, Goto, IsPull, Name, Host, Hosts, Holding, Ended, Placed, PullLock
<1>3. Known'
  BY SMT DEF IInv, Goto, IsPull, Name, Host, registry, known, Known, PullLock
<1>4. TmpHeld'
  BY SMT DEF IInv, Goto, Name, tmp, known, TmpHeld, PullLock
<1>5. FlocksOfDirs'
  BY SMT DEF IInv, tmp, FlocksOfDirs, PullLock
<1>6. Fresh'
  BY SMT DEF IInv, Goto, Here, Ready, store, known, Fresh, PullLock
<1>7. LinksHeld'
  BY SMT DEF IInv, Goto, IsPull, Name, store, known, LinksHeld, PullLock
<1>8. Marked'
  BY SMT DEF IInv, Goto, IsPull, Name, store, Marked, PullLock
<1>9. Accounted'
  BY SMT DEF IInv, Goto, Name, store, tmp, registry, Owes, Known, Accounted, PullLock
<1>10. QED BY <1>1, <1>2, <1>3, <1>4, <1>5, <1>6, <1>7, <1>8, <1>9 DEF IInv

LEMMA PullExistsKeeps ==
    ASSUME IInv, NEW p \in Procs, PullExists(p)
    PROVE  IInv'
<1>1. TypeOK'
  BY SMT DEF IInv, TypeOK, Goto, Arrive, Working, store, tmp, registry, known, PullExists
<1>2. Placed'
  BY SMT DEF IInv, Goto, Arrive, IsPull, Name, Host, Holding, Ended, Placed, PullExists
<1>3. Known'
  BY SMT DEF IInv, TypeOK, Goto, Arrive, IsPull, Name, Host, Refs, Holding, registry, known, Known,
      PullExists
<1>4. TmpHeld'
  BY SMT DEF IInv, Goto, Arrive, Name, tmp, known, TmpHeld, PullExists
<1>5. FlocksOfDirs'
  BY SMT DEF IInv, tmp, FlocksOfDirs, PullExists
<1>6. Fresh'
  BY SMT DEF IInv, Goto, Arrive, Here, Ready, store, known, Fresh, PullExists
<1>7. LinksHeld'
  BY SMT DEF IInv, Goto, Arrive, IsPull, Name, store, known, LinksHeld, PullExists
<1>8. Marked'
  BY SMT DEF IInv, Goto, Arrive, IsPull, Name, store, Marked, PullExists
<1>9. Accounted'
  BY SMT DEF IInv, Goto, Arrive, Name, Host, store, tmp, registry, known, Owes, Accounted, PullExists
<1>10. QED BY <1>1, <1>2, <1>3, <1>4, <1>5, <1>6, <1>7, <1>8, <1>9 DEF IInv

LEMMA MakeTmpKeeps ==
    ASSUME IInv, NEW p \in Procs, MakeTmp(p)
    PROVE  IInv'
<1>a. IsPull(p) /\ pc[p] \in Holding /\ Name(p) \in Refs
  BY DEF IInv, TypeOK, MakeTmp, Placed, Holding, Ended, Name
<1>b. \A q \in Procs \ {p} : pc[q] \in Ready => Name(q) # Name(p)
  BY <1>a, OneHolder DEF IInv, Placed, Host, Holding, Ready, Ended
<1>1. TypeOK'
  BY SMT DEF IInv, TypeOK, Goto, Name, Working, store, registry, known, MakeTmp
<1>2. Placed'
  BY SMT DEF IInv, Goto, IsPull, Name, Host, Ready, Holding, Ended, Placed, MakeTmp
<1>3. Known'
  BY SMT DEF IInv, Goto, IsPull, Name, Host, Holding, registry, known, Known, MakeTmp
<1>4. TmpHeld'
  BY <1>a, <1>b, SMT DEF IInv, TypeOK, TmpHeld, MakeTmp, Goto, known, Name, Ready
<1>5. FlocksOfDirs'
  BY SMT DEF IInv, FlocksOfDirs, MakeTmp
<1>6. Fresh'
  BY SMT DEF IInv, Goto, Here, Exists, Refs, Ready, Working, Ended, store, known, Placed, Known,
      Fresh, MakeTmp
<1>7. LinksHeld'
  BY SMT DEF IInv, Goto, IsPull, Name, store, known, LinksHeld, MakeTmp
<1>8. Marked'
  BY SMT DEF IInv, Goto, IsPull, Name, store, Marked, MakeTmp
<1>9. Accounted'
  <2>1. /\ UNCHANGED <<image, link, job>>
        /\ OwesNone(p)
        /\ \A q \in Procs \ {p} : pc'[q] = pc[q] /\ todo'[q] = todo[q]
    BY DEF IInv, TypeOK, store, MakeTmp, Goto, OwesNone
  <2> QED BY <2>1, AccountedIdle
<1>10. QED BY <1>1, <1>2, <1>3, <1>4, <1>5, <1>6, <1>7, <1>8, <1>9 DEF IInv

LEMMA OpenTmpKeeps ==
    ASSUME IInv, NEW p \in Procs, OpenTmp(p)
    PROVE  IInv'
<1>1. TypeOK'
  BY SMT DEF IInv, TypeOK, Working, store, tmp, registry, OpenTmp
<1>2. Placed'
  BY SMT DEF IInv, IsPull, Name, Host, Ready, Holding, Ended, Placed, OpenTmp
<1>3. Known'
  BY SMT DEF IInv, IsPull, Name, Host, Ready, Holding, registry, Known, OpenTmp
<1>4. TmpHeld'
  BY SMT DEF IInv, TypeOK, Name, tmp, TmpHeld, OpenTmp
<1>5. FlocksOfDirs'
  BY SMT DEF IInv, tmp, FlocksOfDirs, OpenTmp
<1>6. Fresh'
  BY SMT DEF IInv, Here, Ready, store, Fresh, OpenTmp
<1>7. LinksHeld'
  BY SMT DEF IInv, IsPull, Name, store, LinksHeld, OpenTmp
<1>8. Marked'
  BY SMT DEF IInv, IsPull, Name, store, Marked, OpenTmp
<1>9. Accounted'
  <2>1. /\ UNCHANGED <<image, link, job>>
        /\ OwesNone(p)
        /\ \A q \in Procs \ {p} : pc'[q] = pc[q] /\ todo'[q] = todo[q]
    BY DEF IInv, TypeOK, store, OpenTmp, OwesNone
  <2> QED BY <2>1, AccountedIdle
<1>10. QED BY <1>1, <1>2, <1>3, <1>4, <1>5, <1>6, <1>7, <1>8, <1>9 DEF IInv

LEMMA OpenTmpFailsKeeps ==
    ASSUME IInv, NEW p \in Procs, OpenTmpFails(p)
    PROVE  IInv'
  BY FailKeeps DEF OpenTmpFails

LEMMA LockTmpKeeps ==
    ASSUME IInv, NEW p \in Procs, LockTmp(p)
    PROVE  IInv'
<1>1. TypeOK'
  BY SMT DEF IInv, TypeOK, Goto, Hosts, Working, store, registry, known, LockTmp
<1>2. Placed'
  BY SMT DEF IInv, Goto, IsPull, Name, Host, Ready, Holding, Ended, Placed, LockTmp
<1>3. Known'
  BY SMT DEF IInv, Goto, IsPull, Name, Host, Ready, Holding, registry, known, Known, LockTmp
<1>4. TmpHeld'
  BY SMT DEF IInv, TypeOK, Goto, Name, known, TmpHeld, LockTmp
<1>5. FlocksOfDirs'
  BY DEF IInv, TypeOK, LockTmp, FlocksOfDirs, TmpHeld, Name
<1>6. Fresh'
  BY SMT DEF IInv, Goto, Here, Ready, store, known, Fresh, LockTmp
<1>7. LinksHeld'
  BY SMT DEF IInv, Goto, IsPull, Name, store, known, LinksHeld, LockTmp
<1>8. Marked'
  BY SMT DEF IInv, Goto, IsPull, Name, store, Marked, LockTmp
<1>9. Accounted'
  <2>1. /\ UNCHANGED <<image, link, job>>
        /\ OwesNone(p)
        /\ \A q \in Procs \ {p} : pc'[q] = pc[q] /\ todo'[q] = todo[q]
    BY DEF IInv, TypeOK, store, LockTmp, Goto, OwesNone
  <2> QED BY <2>1, AccountedIdle
<1>10. QED BY <1>1, <1>2, <1>3, <1>4, <1>5, <1>6, <1>7, <1>8, <1>9 DEF IInv

LEMMA PullSpaceKeeps ==
    ASSUME IInv, NEW p \in Procs, PullSpace(p)
    PROVE  IInv'
<1>1. CASE Fail(p)
  BY <1>1, FailKeeps DEF PullSpace
<1>2. CASE ~Fail(p)
  <2>0. pc[p] = "space" /\ IsPull(p)
    BY DEF IInv, Placed, PullSpace, Holding, Ready, Ended
  <2>a. /\ pc[p] = "space" /\ IsPull(p)
        /\ \E s \in {"download", "reclaim"}, ds \in SUBSET Refs :
              /\ s = "reclaim" => job[p].op = "pull_reclaim"
              /\ pc' = [pc EXCEPT ![p] = s]
              /\ todo' = [todo EXCEPT ![p] = ds]
    <3>1. CASE Goto(p, "download")
      BY <2>0, <3>1 DEF Goto, IInv, TypeOK
    <3>2. CASE job[p].op = "pull_reclaim" /\ \E ds \in SUBSET {d \in Digests : Here(d)} : GoWith(p, "reclaim", ds)
      BY <2>0, <3>2 DEF GoWith, Refs
    <3> QED BY <1>2, <3>1, <3>2 DEF PullSpace
  <2>b. UNCHANGED <<image, link, lock, dirs, flock, tag, retags, job, digest, fd, sweeps>>
    BY <1>2 DEF PullSpace, Goto, GoWith, store, registry, tmp, known
  <2>1. TypeOK'
    BY <2>a, <2>b DEF IInv, TypeOK, Working
  <2>2. Placed'
    BY <2>a, <2>b, SMT DEF IInv, TypeOK, Placed, IsPull, Name, Host, Ended, Holding, Ready
  <2>3. Known'
    BY <2>a, <2>b, SMT DEF IInv, TypeOK, Known, IsPull, Name, Host, Images, Holding, Ready
  <2>4. TmpHeld'
    BY <2>a, <2>b, SMT DEF IInv, TypeOK, TmpHeld, Name
  <2>5. FlocksOfDirs'
    BY <2>b DEF IInv, FlocksOfDirs
  <2>6. Fresh'
    BY <2>a, <2>b, SMT DEF IInv, TypeOK, Fresh, Here, Ready
  <2>7. LinksHeld'
    BY <2>a, <2>b, SMT DEF IInv, TypeOK, LinksHeld, IsPull, Name
  <2>8. Marked'
    BY <2>a, <2>b, SMT DEF IInv, TypeOK, Marked, IsPull, Name
  <2>9. Accounted'
    <3>1. /\ UNCHANGED <<image, link, job>>
          /\ OwesNone(p)
          /\ \A q \in Procs \ {p} : pc'[q] = pc[q] /\ todo'[q] = todo[q]
      BY <2>a, <2>a, <2>b DEF IInv, TypeOK, OwesNone
    <3> QED BY <3>1, AccountedIdle
  <2> QED BY <2>1, <2>2, <2>3, <2>4, <2>5, <2>6, <2>7, <2>8, <2>9 DEF IInv
<1> QED BY <1>1, <1>2

LEMMA DownloadKeeps ==
    ASSUME IInv, NEW p \in Procs, Download(p)
    PROVE  IInv'
<1>1. TypeOK'
  BY SMT DEF IInv, TypeOK, Goto, Working, store, tmp, registry, known, Download
<1>2. Placed'
  BY SMT DEF IInv, Goto, IsPull, Name, Host, Ready, Holding, Ended, Placed, Download
<1>3. Known'
  BY SMT DEF IInv, Goto, IsPull, Name, Host, Ready, Holding, registry, known, Known, Download
<1>4. TmpHeld'
  BY SMT DEF IInv, Goto, Name, tmp, known, TmpHeld, Download
<1>5. FlocksOfDirs'
  BY SMT DEF IInv, tmp, FlocksOfDirs, Download
<1>6. Fresh'
  BY SMT DEF IInv, Goto, Here, Ready, store, known, Fresh, Download
<1>7. LinksHeld'
  BY SMT DEF IInv, Goto, IsPull, Name, store, known, LinksHeld, Download
<1>8. Marked'
  BY SMT DEF IInv, Goto, IsPull, Name, store, Marked, Download
<1>9. Accounted'
  BY SMT DEF IInv, Goto, Name, Hosts, Ready, Working, Ended, store, tmp, registry, Owes, Accounted,
      Download
<1>10. QED BY <1>1, <1>2, <1>3, <1>4, <1>5, <1>6, <1>7, <1>8, <1>9 DEF IInv

LEMMA DownloadFailsKeeps ==
    ASSUME IInv, NEW p \in Procs, DownloadFails(p)
    PROVE  IInv'
<1>a. IsPull(p) /\ pc[p] \in Holding /\ lock[Host(p)] = p
  BY DEF DownloadFails, IInv, Placed, Ready, Holding, Ended
<1>b. pc' = [pc EXCEPT ![p] = "failed"] /\ lock' = [lock EXCEPT ![Host(p)] = None] /\ UNCHANGED <<job, todo, digest, fd, sweeps>>
  BY DEF DownloadFails, Goto, known
<1>c. ASSUME NEW q \in Procs, q # p, IsPull(q), pc[q] \in Holding PROVE Host(q) # Host(p)
  BY <1>a, <1>c, OneHolder
<1>1. TypeOK'
  BY SMT DEF IInv, TypeOK, Goto, DropTmp, Name, Host, Hosts, Ended, store, registry, known,
      DownloadFails
<1>2. Placed'
  <2> SUFFICES ASSUME NEW q \in Procs
               PROVE /\ IsPull(q)' => pc'[q] \in Holding \cup Ended \cup {"manifest", "lock"}
                     /\ IsPull(q)' /\ pc'[q] \in Holding => lock'[Host(q)'] = q
                     /\ ~IsPull(q)' => pc'[q] \in Ended \cup {"sweep", "sweeping", "rmtmp", "delete", "list", "prune", "walk", "collect"}
                     /\ pc'[q] = "delete" => job'[q].op = "delete"
                     /\ pc'[q] \in {"list", "prune"} => job'[q].op = "prune"
                     /\ pc'[q] = "reclaim" => job'[q].op = "pull_reclaim"
    BY DEF Placed
  <2>1. CASE q = p
    BY <1>a, <1>b, <2>1 DEF IInv, TypeOK, Ended, Ready, Holding, IsPull, Host, Name
  <2>2. CASE q # p
    BY <1>b, <1>c, <2>2 DEF IInv, TypeOK, Placed, IsPull, Host, Name, Hosts
  <2> QED BY <2>1, <2>2
<1>3. Known'
  BY SMT DEF IInv, Goto, IsPull, Name, Host, Ready, Holding, registry, known, Known, DownloadFails
<1>4. TmpHeld'
  <2>1. \A q \in Procs \ {p} : pc[q] \in Ready => Name(q) # Name(p)
    BY <1>c DEF IInv, Placed, Host, Holding, Ready, Ended
  <2>2. Name(p) \in Refs /\ (flock[Name(p)] = p \/ Name(p) \notin dirs)
    BY DEF IInv, TypeOK, TmpHeld, DownloadFails, Name
  <2>3. \A q \in Procs \ {p} : pc[q] = "rmtmp" => sweeps[q] # Name(p)
    BY <2>2 DEF IInv, TmpHeld
  <2>4. dirs' = dirs \ {Name(p)} /\ flock' = [flock EXCEPT ![Name(p)] = None]
    BY DEF DownloadFails, DropTmp
  <2> QED BY <1>b, <2>1, <2>2, <2>3, <2>4 DEF IInv, TypeOK, TmpHeld, Name, Ready
<1>5. FlocksOfDirs'
  BY SMT DEF IInv, TypeOK, DropTmp, FlocksOfDirs, DownloadFails
<1>6. Fresh'
  BY SMT DEF IInv, Goto, Here, Ready, store, known, Fresh, DownloadFails
<1>7. LinksHeld'
  BY SMT DEF IInv, Goto, IsPull, Name, store, known, LinksHeld, DownloadFails
<1>8. Marked'
  BY SMT DEF IInv, Goto, IsPull, Name, store, Marked, DownloadFails
<1>9. Accounted'
  <2>1. /\ UNCHANGED <<image, link, job>>
        /\ OwesNone(p)
        /\ \A q \in Procs \ {p} : pc'[q] = pc[q] /\ todo'[q] = todo[q]
    BY DEF IInv, TypeOK, store, DownloadFails, Goto, OwesNone
  <2> QED BY <2>1, AccountedIdle
<1>10. QED BY <1>1, <1>2, <1>3, <1>4, <1>5, <1>6, <1>7, <1>8, <1>9 DEF IInv

LEMMA MoveKeeps ==
    ASSUME IInv, NEW p \in Procs, Move(p)
    PROVE  IInv'
<1>a. IsPull(p) /\ digest[p] \in Digests /\ Name(p) \in Refs /\ Name(p) \in dirs /\ flock[Name(p)] = p /\ pc[p] \in Holding
   BY DEF IInv, TypeOK, Move, Placed, Known, Ready, Holding, Ended, Name, TmpHeld
<1>b. ASSUME NEW q \in Procs, q # p, IsPull(q), pc[q] \in Holding PROVE Host(q) # Host(p) /\ Name(q) # Name(p)
  BY <1>a, <1>b, OneHolder DEF Host
<1>c. \A q \in Procs \ {p} : pc'[q] = pc[q]
  BY DEF IInv, TypeOK, Move, Arrive, Goto
<1>d. pc'[p] \in {"mark", "unlink"} /\ (pc'[p] = "mark" <=> Name(p) = digest[p])
  BY DEF IInv, TypeOK, Move, Arrive, Goto
<1>e. UNCHANGED <<job, todo, digest, fd, sweeps, link, lock>>
  BY DEF Move, Arrive, Goto, known
<1>f. image' \in [Digests -> {"gone", "cached", "marked"}]
  BY <1>a DEF IInv, TypeOK, Move
<1>g. dirs' \subseteq Refs /\ flock' \in [Refs -> Procs \cup {None}]
  BY <1>a DEF IInv, TypeOK, Move, DropTmp
<1>h. pc' \in [Procs -> Working \cup Ended]
  BY <1>a DEF IInv, TypeOK, Move, Working, Arrive, Goto
<1>1. TypeOK'
  BY <1>e, <1>f, <1>g, <1>h DEF IInv, TypeOK, Move, registry
<1>2. Placed'
  BY SMT DEF IInv, Goto, Arrive, IsPull, Name, Host, Holding, Ended, Placed, Move
<1>3. Known'
  BY SMT DEF IInv, TypeOK, Goto, Arrive, IsPull, Name, Host, Refs, Ready, Holding, registry, known,
      Known, Move
<1>4. TmpHeld'
  <2> SUFFICES ASSUME NEW q \in Procs
               PROVE  /\ pc'[q] = "rmtmp" => sweeps'[q] \in dirs' /\ flock'[sweeps'[q]] = q
                      /\ pc'[q] = "locktmp" => fd'[q] = (IF Name(q)' \in dirs' THEN "this" ELSE "gone")
                      /\ pc'[q] \in {"space", "reclaim", "download", "move"} =>
                             \/ fd'[q] = "this" /\ Name(q)' \in dirs' /\ flock'[Name(q)'] = q
                             \/ fd'[q] = "gone" /\ Name(q)' \notin dirs' /\ pc'[q] # "move"
    BY DEF TmpHeld
  <2>1. CASE q = p
    BY <1>d, <2>1
  <2>2. CASE q # p
    <3>1. pc[q] \in Ready => Name(q) # Name(p)
      BY <1>b, <2>2 DEF IInv, Placed, Ready, Holding, Ended
    <3>2. pc[q] = "rmtmp" => sweeps[q] \in dirs /\ flock[sweeps[q]] = q /\ sweeps[q] # Name(p)
      BY <1>a, <2>2 DEF IInv, TmpHeld
    <3>3. Name(q) \in Refs /\ Name(q)' = Name(q) /\ pc'[q] = pc[q]
      BY <1>c, <1>e, <2>2 DEF IInv, TypeOK, Name
    <3> QED BY <1>e, <3>1, <3>2, <3>3 DEF IInv, TypeOK, TmpHeld, Move, DropTmp, Ready
  <2> QED BY <2>1, <2>2
<1>5. FlocksOfDirs'
  BY <1>a DEF IInv, TypeOK, FlocksOfDirs, Move, DropTmp
<1>6. Fresh'
  <2>1. image' = [image EXCEPT ![digest[p]] = "cached"]
    BY DEF Move
  <2>2. HostOf[digest[p]] = Host(p)
    BY <1>a DEF IInv, Known
  <2>3. ASSUME NEW q \in Procs, pc'[q] \in Ready PROVE image'[digest'[q]] = "gone"
    <3>1. q # p
      BY <1>d, <2>3 DEF Ready
    <3>2. pc[q] \in Ready /\ IsPull(q)
      BY <1>c, <2>3, <3>1 DEF IInv, Placed, Ready, Ended
    <3>3. digest[q] \in Digests /\ HostOf[digest[q]] = Host(q)
      BY <3>2 DEF IInv, Known, Holding
    <3>4. Host(q) # Host(p)
      BY <1>b, <3>1, <3>2 DEF Holding
    <3>5. digest[q] # digest[p]
      BY <2>2, <3>3, <3>4
    <3>6. image[digest[q]] = "gone"
      BY <3>2 DEF IInv, Fresh, Here
    <3>7. image'[digest[q]] = "gone"
      BY <2>1, <3>5, <3>6, <3>3 DEF IInv, TypeOK
    <3> QED BY <1>e, <3>7
  <2> QED BY <2>3 DEF Fresh, Here
<1>7. LinksHeld'
  BY <1>c, <1>d, <1>e, SMT DEF IInv, LinksHeld, IsPull, Name
<1>8. Marked'
  <2>1. image' = [image EXCEPT ![digest[p]] = "cached"]
    BY DEF Move
  <2>2. HostOf[digest[p]] = Host(p) /\ image[digest[p]] = "gone"
    BY <1>a DEF IInv, Known, Fresh, Here, Move, Ready
  <2>3. ASSUME NEW q \in Procs, IsPull(q), Name(q) \in Digests, pc'[q] \in {"open", "ok"},
               \A r \in Procs : job[r].op \notin {"delete", "prune", "pull_reclaim"}
        PROVE  image'[Name(q)] = image[Name(q)] /\ pc'[q] = pc[q]
    <3>1. q # p
      BY <1>d, <2>3
    <3>2. CASE pc[q] = "ok"
      BY <1>c, <2>1, <2>2, <2>3, <3>1, <3>2 DEF IInv, Marked
    <3>3. CASE pc[q] = "open"
      BY <1>b, <1>c, <2>1, <2>2, <2>3, <3>1, <3>3 DEF IInv, Known, Host, Holding
    <3> QED BY <1>c, <2>3, <3>1, <3>2, <3>3
  <2> QED BY <1>e, <2>3 DEF IInv, Marked, IsPull, Name
<1>9. Accounted'
  <2>1. \A q \in Procs \ {p}, d \in Digests : Owes(q, d) => Owes(q, d)'
    BY <1>c, <1>e DEF Owes, Name
  <2>2. Name(p) # digest[p] => pc'[p] = "unlink"
    BY <1>d
  <2>3. Owes(p, digest[p])'
    BY <1>d, <1>e DEF Owes, Name
  <2>4. \A d \in Digests : ~Owes(p, d)
    BY DEF Owes, Move
  <2>5. \A d \in Digests \ {digest[p]} : image'[d] = image[d]
    BY DEF IInv, TypeOK, Move
  <2> QED BY <1>e, <2>1, <2>3, <2>4, <2>5 DEF IInv, Accounted
<1>10. QED BY <1>1, <1>2, <1>3, <1>4, <1>5, <1>6, <1>7, <1>8, <1>9 DEF IInv

LEMMA PullUnlinkKeeps ==
    ASSUME IInv, NEW p \in Procs, PullUnlink(p)
    PROVE  IInv'
<1>1. TypeOK'
  <2>1. pc' \in [Procs -> Working \cup Ended]
    BY DEF IInv, TypeOK, PullUnlink, Working, Goto
  <2>2. link' \in [Tags -> Digests \cup {None}]
    BY DEF IInv, TypeOK, PullUnlink
  <2> QED BY <2>1, <2>2 DEF IInv, TypeOK, PullUnlink, Goto, known, registry, tmp
<1>2. Placed'
  BY SMT DEF IInv, Goto, IsPull, Name, Host, Holding, Ended, Placed, PullUnlink
<1>3. Known'
  BY SMT DEF IInv, Goto, IsPull, Name, Host, Holding, registry, known, Known, PullUnlink
<1>4. TmpHeld'
  BY SMT DEF IInv, Goto, Name, tmp, known, TmpHeld, PullUnlink
<1>5. FlocksOfDirs'
  BY SMT DEF IInv, tmp, FlocksOfDirs, PullUnlink
<1>6. Fresh'
  BY SMT DEF IInv, Goto, Here, Ready, known, Fresh, PullUnlink
<1>7. LinksHeld'
  BY SMT DEF IInv, TypeOK, Goto, IsPull, Name, known, LinksHeld, PullUnlink
<1>8. Marked'
  BY SMT DEF IInv, Goto, IsPull, Name, Marked, PullUnlink
<1>9. Accounted'
  BY SMT DEF IInv, Goto, Owes, Accounted, PullUnlink
<1>10. QED BY <1>1, <1>2, <1>3, <1>4, <1>5, <1>6, <1>7, <1>8, <1>9 DEF IInv

LEMMA PullSymlinkKeeps ==
  ASSUME IInv, NEW p \in Procs, PullSymlink(p)
  PROVE  IInv'
<1>a. pc[p] = "symlink" /\ IsPull(p) /\ Name(p) \in Tags /\ digest[p] \in Digests /\ link[Name(p)] = None
  BY DEF IInv, PullSymlink, Placed, Known, LinksHeld, Holding, Ended
<1>b. /\ link' = [link EXCEPT ![Name(p)] = digest[p]]
      /\ pc' = [pc EXCEPT ![p] = "walk"]
      /\ UNCHANGED <<image, lock, dirs, flock, tag, retags, job, todo, digest, fd, sweeps>>
  BY <1>a DEF PullSymlink, Goto, known, registry, tmp
<1>1. TypeOK'
  BY <1>a, <1>b DEF IInv, TypeOK, Working, Ended
<1>2. Placed'
  BY <1>a, <1>b, SMT DEF IInv, TypeOK, Placed, IsPull, Name, Host, Ended, Holding, Ready
<1>3. Known'
  BY <1>a, <1>b, SMT DEF IInv, TypeOK, Known, IsPull, Name, Host, Images, Holding, Ready
<1>4. TmpHeld'
  BY <1>b, SMT DEF IInv, TypeOK, TmpHeld, Name
<1>5. FlocksOfDirs'
  BY <1>b DEF IInv, FlocksOfDirs
<1>6. Fresh'
  BY <1>a, <1>b, SMT DEF IInv, TypeOK, Fresh, Here, Ready
<1>0. \A q \in Procs \ {p} : IsPull(q) /\ pc[q] \in Holding => Name(q) # Name(p)
  BY <1>a, OneHolder DEF Host, Holding
<1>7. LinksHeld'
  BY <1>a, <1>b, <1>0, SMT DEF IInv, TypeOK, LinksHeld, IsPull, Name, Holding
<1>8. Marked'
  BY <1>a, <1>b, SMT DEF IInv, TypeOK, Marked, IsPull, Name
<1>9. Accounted'
  BY <1>a, <1>b, SMT DEF IInv, TypeOK, Accounted, Owes, Name
<1> QED BY <1>1, <1>2, <1>3, <1>4, <1>5, <1>6, <1>7, <1>8, <1>9 DEF IInv

LEMMA MarkExplicitlyPulledKeeps ==
    ASSUME IInv, NEW p \in Procs, MarkExplicitlyPulled(p)
    PROVE  IInv'
<1>1. TypeOK'
  <2>1. pc' \in [Procs -> Working \cup Ended]
    BY DEF IInv, TypeOK, MarkExplicitlyPulled, Working, Goto
  <2>2. image' \in [Digests -> {"gone", "cached", "marked"}]
    BY DEF IInv, TypeOK, MarkExplicitlyPulled, Mark, Here
  <2> QED BY <2>1, <2>2 DEF IInv, TypeOK, MarkExplicitlyPulled, Goto, known, registry, tmp
<1>2. Placed'
  BY SMT DEF IInv, Goto, IsPull, Name, Host, Holding, Ended, Placed, MarkExplicitlyPulled
<1>3. Known'
  BY SMT DEF IInv, Goto, IsPull, Name, Host, Holding, registry, known, Known, MarkExplicitlyPulled
<1>4. TmpHeld'
  BY SMT DEF IInv, Goto, Name, tmp, known, TmpHeld, MarkExplicitlyPulled
<1>5. FlocksOfDirs'
  BY SMT DEF IInv, tmp, FlocksOfDirs, MarkExplicitlyPulled
<1>6. Fresh'
  BY SMT DEF IInv, Goto, Here, Ready, known, Mark, Fresh, MarkExplicitlyPulled
<1>7. LinksHeld'
  BY SMT DEF IInv, Goto, IsPull, Name, Holding, known, Known, LinksHeld, MarkExplicitlyPulled
<1>8. Marked'
  BY SMT DEF IInv, TypeOK, Goto, Here, IsPull, Name, Mark, Marked, MarkExplicitlyPulled
<1>9. Accounted'
  <2>1. \A q \in Procs \ {p}, d \in Digests : Owes(q, d) => Owes(q, d)'
    BY DEF IInv, TypeOK, Owes, Name, MarkExplicitlyPulled, Goto, known
  <2>2. \A d \in Digests : Owes(p, d) => d = Name(p)
    BY DEF Owes, MarkExplicitlyPulled
  <2>3. \A d \in Digests : image'[d] = IF d = Name(p) /\ image[d] # "gone" THEN "marked" ELSE image[d]
    BY DEF IInv, TypeOK, MarkExplicitlyPulled, Mark, Here
  <2>4. UNCHANGED link
    BY DEF MarkExplicitlyPulled
  <2> QED BY <2>1, <2>2, <2>3, <2>4 DEF IInv, Accounted
<1>10. QED BY <1>1, <1>2, <1>3, <1>4, <1>5, <1>6, <1>7, <1>8, <1>9 DEF IInv

LEMMA PullOpenKeeps ==
    ASSUME IInv, NEW p \in Procs, PullOpen(p)
    PROVE  IInv'
<1>1. TypeOK'
  BY SMT DEF IInv, TypeOK, GoWith, Free, Release, End, Ended, store, registry, known, PullOpen
<1>2. Placed'
  BY SMT DEF IInv, TypeOK, GoWith, Free, Release, End, IsPull, Name, Host, Hosts, Ready, Holding,
      Ended, Placed, PullOpen
<1>3. Known'
  BY SMT DEF IInv, GoWith, End, IsPull, Name, Host, Holding, registry, known, Known, PullOpen
<1>4. TmpHeld'
  BY SMT DEF IInv, TypeOK, GoWith, Free, Release, End, Name, known, TmpHeld, PullOpen
<1>5. FlocksOfDirs'
  BY SMT DEF IInv, Free, Release, End, FlocksOfDirs, PullOpen
<1>6. Fresh'
  BY SMT DEF IInv, GoWith, End, Here, Ready, store, known, Fresh, PullOpen
<1>7. LinksHeld'
  BY SMT DEF IInv, GoWith, End, IsPull, Name, store, known, LinksHeld, PullOpen
<1>8. Marked'
  BY SMT DEF IInv, TypeOK, GoWith, End, Here, Exists, IsPull, Name, store, Marked, PullOpen
<1>9. Accounted'
  <2>1. /\ UNCHANGED <<image, link, job>>
        /\ OwesNone(p)
        /\ \A q \in Procs \ {p} : pc'[q] = pc[q] /\ todo'[q] = todo[q]
    BY DEF IInv, TypeOK, store, PullOpen, End, GoWith, OwesNone
  <2> QED BY <2>1, AccountedIdle
<1>10. QED BY <1>1, <1>2, <1>3, <1>4, <1>5, <1>6, <1>7, <1>8, <1>9 DEF IInv

-----------------------------------------------------------------------------
(* Collections, sweeps, deletes and prunes *)

LEMMA CollectCheckKeeps ==
    ASSUME IInv, NEW p \in Procs, CollectCheck(p)
    PROVE  IInv'
<1>1. TypeOK'
  BY SMT DEF IInv, TypeOK, GoWith, Refs, Working, tmp, registry, known, Unreferenced, CollectCheck
<1>2. Placed'
  BY SMT DEF IInv, GoWith, IsPull, Name, Host, Holding, Placed, CollectCheck
<1>3. Known'
  BY SMT DEF IInv, GoWith, IsPull, Name, Host, Holding, registry, known, Known, CollectCheck
<1>4. TmpHeld'
  BY SMT DEF IInv, GoWith, Name, tmp, known, TmpHeld, CollectCheck
<1>5. FlocksOfDirs'
  BY SMT DEF IInv, tmp, FlocksOfDirs, CollectCheck
<1>6. Fresh'
  BY SMT DEF IInv, GoWith, Here, Ready, known, Fresh, CollectCheck
<1>7. LinksHeld'
  BY SMT DEF IInv, GoWith, IsPull, Name, known, LinksHeld, CollectCheck
<1>8. Marked'
  BY SMT DEF IInv, GoWith, IsPull, Name, Marked, CollectCheck
<1>9. Accounted'
  BY SMT DEF IInv, TypeOK, GoWith, Here, Broken, Unreferenced, Owes, Accounted, CollectCheck
<1>10. QED BY <1>1, <1>2, <1>3, <1>4, <1>5, <1>6, <1>7, <1>8, <1>9 DEF IInv

LEMMA CollectRemoveKeeps ==
    ASSUME IInv, NEW p \in Procs, CollectRemove(p)
    PROVE  IInv'
<1>1. TypeOK'
  <2>1. pc' \in [Procs -> Working \cup Ended]
    BY DEF IInv, TypeOK, CollectRemove, Working, GoWith
  <2>2. image' \in [Digests -> {"gone", "cached", "marked"}]
    BY DEF IInv, TypeOK, CollectRemove
  <2>3. todo' \in [Procs -> SUBSET Refs]
    BY DEF IInv, TypeOK, CollectRemove, GoWith
  <2> QED BY <2>1, <2>2, <2>3 DEF IInv, TypeOK, CollectRemove, GoWith, known, registry, tmp
<1>2. Placed'
  BY SMT DEF IInv, GoWith, IsPull, Name, Host, Placed, CollectRemove
<1>3. Known'
  BY SMT DEF IInv, GoWith, IsPull, Name, Host, registry, known, Known, CollectRemove
<1>4. TmpHeld'
  BY SMT DEF IInv, GoWith, Name, tmp, known, TmpHeld, CollectRemove
<1>5. FlocksOfDirs'
  BY SMT DEF IInv, tmp, FlocksOfDirs, CollectRemove
<1>6. Fresh'
  BY SMT DEF IInv, GoWith, Here, known, Fresh, CollectRemove
<1>7. LinksHeld'
  BY SMT DEF IInv, GoWith, IsPull, Name, known, LinksHeld, CollectRemove
<1>8. Marked'
  BY SMT DEF IInv, GoWith, IsPull, Name, Collectable, Marked, CollectRemove
<1>9. Accounted'
  BY SMT DEF IInv, TypeOK, GoWith, Name, Ready, Holding, Working, tmp, registry, Collectable, Owes,
      Accounted, CollectRemove
<1>10. QED BY <1>1, <1>2, <1>3, <1>4, <1>5, <1>6, <1>7, <1>8, <1>9 DEF IInv

LEMMA CollectedPullKeeps ==
    ASSUME IInv, NEW p \in Procs, IsPull(p), pc[p] = "collect", todo[p] = {},
           Goto(p, "open"), UNCHANGED <<store, registry, lock, tmp>>
    PROVE  IInv'
<1>1. TypeOK'
  BY SMT DEF IInv, TypeOK, Goto, Working, store, tmp, registry, known
<1>2. Placed'
  BY SMT DEF IInv, Goto, IsPull, Name, Host, Holding, Placed
<1>3. Known'
  BY SMT DEF IInv, Goto, IsPull, Name, Host, Holding, registry, known, Known
<1>4. TmpHeld'
  BY SMT DEF IInv, Goto, Name, tmp, known, TmpHeld
<1>5. FlocksOfDirs'
  BY SMT DEF IInv, tmp, FlocksOfDirs
<1>6. Fresh'
  BY SMT DEF IInv, Goto, Here, Ready, store, known, Fresh
<1>7. LinksHeld'
  BY SMT DEF IInv, Goto, IsPull, Name, store, known, LinksHeld
<1>8. Marked'
  BY SMT DEF IInv, Goto, IsPull, Name, Holding, store, Known, Marked
<1>9. Accounted'
  BY SMT DEF IInv, Goto, Name, Working, store, known, Owes, Accounted
<1>10. QED BY <1>1, <1>2, <1>3, <1>4, <1>5, <1>6, <1>7, <1>8, <1>9 DEF IInv

LEMMA CollectedKeeps ==
    ASSUME IInv, NEW p \in Procs, Collected(p)
    PROVE  IInv'
BY OkKeeps, CollectedPullKeeps DEF Collected

LEMMA SweepListKeeps ==
    ASSUME IInv, NEW p \in Procs, SweepList(p)
    PROVE  IInv'
<1>1. TypeOK'
  BY SMT DEF IInv, TypeOK, GoWith, Working, store, tmp, registry, known, SweepList
<1>2. Placed'
  BY SMT DEF IInv, GoWith, IsPull, Name, Host, Ready, Holding, Ended, Placed, SweepList
<1>3. Known'
  BY SMT DEF IInv, GoWith, IsPull, Name, Host, Ready, Holding, registry, known, Known, SweepList
<1>4. TmpHeld'
  BY SMT DEF IInv, GoWith, Name, tmp, known, TmpHeld, SweepList
<1>5. FlocksOfDirs'
  BY SMT DEF IInv, tmp, FlocksOfDirs, SweepList
<1>6. Fresh'
  BY SMT DEF IInv, GoWith, Here, Ready, store, known, Fresh, SweepList
<1>7. LinksHeld'
  BY SMT DEF IInv, GoWith, IsPull, Name, store, known, LinksHeld, SweepList
<1>8. Marked'
  BY SMT DEF IInv, GoWith, IsPull, Name, store, Marked, SweepList
<1>9. Accounted'
  BY SMT DEF IInv, GoWith, Name, Holding, store, tmp, Owes, Accounted, SweepList
<1>10. QED BY <1>1, <1>2, <1>3, <1>4, <1>5, <1>6, <1>7, <1>8, <1>9 DEF IInv

LEMMA SweepPassKeeps ==
    ASSUME IInv, NEW p \in Procs, SweepPass(p)
    PROVE  IInv'
<1>1. TypeOK'
  BY SMT DEF IInv, TypeOK, GoWith, store, tmp, registry, known, SweepPass
<1>2. Placed'
  BY SMT DEF IInv, GoWith, IsPull, Name, Host, Placed, SweepPass
<1>3. Known'
  BY SMT DEF IInv, GoWith, IsPull, Name, Host, registry, known, Known, SweepPass
<1>4. TmpHeld'
  BY SMT DEF IInv, GoWith, Name, tmp, known, TmpHeld, SweepPass
<1>5. FlocksOfDirs'
  BY SMT DEF IInv, tmp, FlocksOfDirs, SweepPass
<1>6. Fresh'
  BY SMT DEF IInv, GoWith, Here, store, known, Fresh, SweepPass
<1>7. LinksHeld'
  BY SMT DEF IInv, GoWith, IsPull, Name, store, known, LinksHeld, SweepPass
<1>8. Marked'
  BY SMT DEF IInv, GoWith, IsPull, Name, store, Marked, SweepPass
<1>9. Accounted'
  <2>1. /\ UNCHANGED <<image, link, job>>
        /\ OwesNone(p)
        /\ \A q \in Procs \ {p} : pc'[q] = pc[q] /\ todo'[q] = todo[q]
    BY DEF IInv, TypeOK, store, SweepPass, GoWith, OwesNone
  <2> QED BY <2>1, AccountedIdle
<1>10. QED BY <1>1, <1>2, <1>3, <1>4, <1>5, <1>6, <1>7, <1>8, <1>9 DEF IInv

LEMMA SweepTakeKeeps ==
    ASSUME IInv, NEW p \in Procs, SweepTake(p)
    PROVE  IInv'
<1>1. TypeOK'
  BY SMT DEF IInv, TypeOK, Working, store, registry, SweepTake
<1>2. Placed'
  BY SMT DEF IInv, IsPull, Name, Host, Ready, Holding, Ended, Placed, SweepTake
<1>3. Known'
  BY SMT DEF IInv, IsPull, Name, Host, Ready, Holding, registry, Known, SweepTake
<1>4. TmpHeld'
  BY SMT DEF IInv, TypeOK, Name, Sweepable, TmpHeld, SweepTake
<1>5. FlocksOfDirs'
  BY SMT DEF IInv, FlocksOfDirs, SweepTake
<1>6. Fresh'
  BY SMT DEF IInv, Here, Ready, store, Fresh, SweepTake
<1>7. LinksHeld'
  BY SMT DEF IInv, IsPull, Name, store, LinksHeld, SweepTake
<1>8. Marked'
  BY SMT DEF IInv, IsPull, Name, store, Marked, SweepTake
<1>9. Accounted'
  BY SMT DEF IInv, Name, Host, Hosts, Refs, Ready, Holding, Ended, store, registry, Sweepable, Owes,
      Accounted, SweepTake
<1>10. QED BY <1>1, <1>2, <1>3, <1>4, <1>5, <1>6, <1>7, <1>8, <1>9 DEF IInv

LEMMA SweepRemoveKeeps ==
    ASSUME IInv, NEW p \in Procs, SweepRemove(p)
    PROVE  IInv'
<1>1. TypeOK'
  <2>1. dirs' \subseteq Refs /\ flock' \in [Refs -> Procs \cup {None}]
    BY DEF IInv, TypeOK, SweepRemove, DropTmp
  <2>2. fd' \in [Procs -> {"none", "this", "gone"}] /\ sweeps' \in [Procs -> Refs \cup {None}]
    BY DEF IInv, TypeOK, SweepRemove
  <2>3. pc' \in [Procs -> Working \cup Ended]
    BY DEF IInv, TypeOK, SweepRemove, Working
  <2> QED BY <2>1, <2>2, <2>3 DEF IInv, TypeOK, SweepRemove, store, registry
<1>2. Placed'
  BY SMT DEF IInv, IsPull, Name, Host, Ready, Holding, Ended, Placed, SweepRemove
<1>3. Known'
  BY SMT DEF IInv, IsPull, Name, Host, Ready, Holding, registry, Known, SweepRemove
<1>4. TmpHeld'
  BY SMT DEF IInv, TypeOK, DropTmp, Name, TmpHeld, SweepRemove
<1>5. FlocksOfDirs'
  BY SMT DEF IInv, TypeOK, DropTmp, FlocksOfDirs, SweepRemove
<1>6. Fresh'
  BY SMT DEF IInv, Here, Ready, store, Fresh, SweepRemove
<1>7. LinksHeld'
  BY SMT DEF IInv, IsPull, Name, store, LinksHeld, SweepRemove
<1>8. Marked'
  BY SMT DEF IInv, IsPull, Name, store, Marked, SweepRemove
<1>9. Accounted'
  <2>1. /\ UNCHANGED <<image, link, job>>
        /\ OwesNone(p)
        /\ \A q \in Procs \ {p} : pc'[q] = pc[q] /\ todo'[q] = todo[q]
    BY DEF IInv, TypeOK, store, SweepRemove, OwesNone
  <2> QED BY <2>1, AccountedIdle
<1>10. QED BY <1>1, <1>2, <1>3, <1>4, <1>5, <1>6, <1>7, <1>8, <1>9 DEF IInv

LEMMA SweptKeeps ==
    ASSUME IInv, NEW p \in Procs, Swept(p)
    PROVE  IInv'
<1>1. TypeOK'
  BY SMT DEF IInv, TypeOK, Goto, Working, store, tmp, registry, known, Swept
<1>2. Placed'
  BY SMT DEF IInv, Goto, IsPull, Name, Host, Holding, Ended, Placed, Swept
<1>3. Known'
  BY SMT DEF IInv, Known, Placed, Swept, Goto, known, registry, Holding, Ready, Ended, IsPull, Name,
      Host
<1>4. TmpHeld'
  BY SMT DEF IInv, Goto, Name, tmp, known, TmpHeld, Swept
<1>5. FlocksOfDirs'
  BY SMT DEF IInv, tmp, FlocksOfDirs, Swept
<1>6. Fresh'
  BY SMT DEF IInv, Goto, Here, Ready, store, known, Fresh, Swept
<1>7. LinksHeld'
  BY SMT DEF IInv, Goto, IsPull, Name, Host, Hosts, Refs, Ready, Holding, Ended, store, known, Placed,
      LinksHeld, Swept
<1>8. Marked'
  BY SMT DEF IInv, Goto, IsPull, Name, store, Marked, Swept
<1>9. Accounted'
  BY SMT DEF IInv, Goto, Name, Host, store, Owes, Accounted, Swept
<1>10. QED BY <1>1, <1>2, <1>3, <1>4, <1>5, <1>6, <1>7, <1>8, <1>9 DEF IInv

LEMMA DeleteKeeps ==
    ASSUME IInv, NEW p \in Procs, Delete(p)
    PROVE  IInv'
<1>a. ~IsPull(p) /\ Name(p) \in Refs
  BY DEF IInv, TypeOK, Delete, Placed, Holding, Ready, Ended, Name
<1>b. image' \in [Digests -> {"gone", "cached", "marked"}] /\ link' \in [Tags -> Digests \cup {None}]
  BY DEF IInv, TypeOK, Delete
<1>c. /\ \A d \in Digests : image'[d] \in {image[d], "gone"}
      /\ \A t \in Tags : link'[t] \in {link[t], None}
  BY DEF IInv, TypeOK, Delete
<1>d. pc' = [pc EXCEPT ![p] = "walk"] /\ UNCHANGED <<registry, lock, dirs, flock, job, todo, digest, fd, sweeps>>
  BY DEF Delete, Goto, tmp, known
<1>1. TypeOK'
  BY <1>b, <1>d DEF IInv, TypeOK, Working, registry
<1>2. Placed'
  BY <1>a, <1>d, SMT DEF IInv, TypeOK, Placed, IsPull, Name, Host, Holding, Ready, Ended
<1>3. Known'
  BY <1>a, <1>d, SMT DEF IInv, TypeOK, Known, IsPull, Name, Host, registry, Images, Placed, Holding,
      Ready
<1>4. TmpHeld'
  BY SMT DEF IInv, Goto, Name, tmp, known, TmpHeld, Delete
<1>5. FlocksOfDirs'
  BY SMT DEF IInv, tmp, FlocksOfDirs, Delete
<1>6. Fresh'
  BY <1>c, <1>d, SMTT(30) DEF IInv, TypeOK, Fresh, Here, Known, Ready, Holding, Placed, Ended, IsPull
<1>7. LinksHeld'
  BY <1>a, <1>c, <1>d, SMT DEF IInv, TypeOK, LinksHeld, IsPull, Name
<1>8. Marked'
  BY <1>d DEF IInv, Marked, Delete, Placed
<1>9. Accounted'
  BY SMT DEF IInv, TypeOK, Goto, Owes, Accounted, Delete
<1>10. QED BY <1>1, <1>2, <1>3, <1>4, <1>5, <1>6, <1>7, <1>8, <1>9 DEF IInv

LEMMA PruneListKeeps ==
    ASSUME IInv, NEW p \in Procs, PruneList(p)
    PROVE  IInv'
<1>1. TypeOK'
  BY SMT DEF IInv, TypeOK, GoWith, Refs, Working, store, tmp, registry, known, PruneList
<1>2. Placed'
  BY SMT DEF IInv, GoWith, IsPull, Name, Host, Placed, PruneList
<1>3. Known'
  BY SMT DEF IInv, GoWith, IsPull, Name, Host, registry, known, Placed, Known, PruneList
<1>4. TmpHeld'
  BY SMT DEF IInv, GoWith, Name, tmp, known, TmpHeld, PruneList
<1>5. FlocksOfDirs'
  BY SMT DEF IInv, tmp, FlocksOfDirs, PruneList
<1>6. Fresh'
  BY SMT DEF IInv, GoWith, Here, Ready, store, known, Fresh, PruneList
<1>7. LinksHeld'
  BY SMT DEF IInv, GoWith, IsPull, Name, store, known, LinksHeld, PruneList
<1>8. Marked'
  BY SMT DEF IInv, GoWith, Placed, Marked, PruneList
<1>9. Accounted'
  BY SMT DEF IInv, GoWith, Name, Working, store, Owes, Accounted, PruneList
<1>10. QED BY <1>1, <1>2, <1>3, <1>4, <1>5, <1>6, <1>7, <1>8, <1>9 DEF IInv

LEMMA PruneOneKeeps ==
    ASSUME IInv, NEW p \in Procs, PruneOne(p)
    PROVE  IInv'
<1>1. CASE Fail(p)
  BY <1>1, FailKeeps DEF PruneOne
<1>2. CASE ~Fail(p)
  <2>a. /\ \E q \in Procs : job[q].op \in {"delete", "prune", "pull_reclaim"}
        /\ pc[p] \in {"prune", "reclaim"}
    BY DEF IInv, PruneOne, Placed
  <2>b. \E d \in todo[p] :
          /\ image' = [image EXCEPT ![d] = "gone"]
          /\ todo' = [todo EXCEPT ![p] = todo[p] \ {d}]
    BY <1>2 DEF PruneOne, GoWith
  <2>c. UNCHANGED <<pc, link, lock, dirs, flock, tag, retags, job, digest, fd, sweeps>>
    BY <1>2 DEF PruneOne, GoWith, registry, tmp, known, IInv, TypeOK
  <2>d. \A e \in Digests : image'[e] \in {image[e], "gone"} 
    <3>1. PICK d \in todo[p] : image' = [image EXCEPT ![d] = "gone"]
      BY <2>b
    <3> QED BY <3>1 DEF IInv, TypeOK
  <2>1. TypeOK'
    <3>1. image' \in [Digests -> {"gone", "cached", "marked"}]
      BY <2>b DEF IInv, TypeOK
    <3>2. todo' \in [Procs -> SUBSET Refs]
      BY <2>b DEF IInv, TypeOK
    <3> QED BY <2>c, <3>1, <3>2 DEF IInv, TypeOK
  <2>2. Placed'
    BY <2>c DEF IInv, Placed, IsPull, Name, Host
  <2>3. Known'
    BY <2>c DEF IInv, Known, IsPull, Name, Host, Images
  <2>4. TmpHeld'
    BY <2>c DEF IInv, TmpHeld, Name
  <2>5. FlocksOfDirs'
    BY <2>c DEF IInv, FlocksOfDirs
  <2>6. Fresh'
    BY <2>c, <2>d DEF IInv, TypeOK, Fresh, Here, Known, Placed, Ready, Holding, Ended
  <2>7. LinksHeld'
    BY <2>c DEF IInv, LinksHeld, IsPull, Name
  <2>8. Marked'
    BY <2>a, <2>c DEF Marked
  <2>9. Accounted'
    <3>1. \A q \in Procs, d \in Digests : Owes(q, d) => Owes(q, d)'
      BY <2>a, <2>b, <2>c DEF IInv, TypeOK, Owes, Name
    <3> QED BY <2>c, <2>d, <3>1 DEF IInv, Accounted
  <2> QED BY <2>1, <2>2, <2>3, <2>4, <2>5, <2>6, <2>7, <2>8, <2>9 DEF IInv
<1> QED BY <1>1, <1>2

LEMMA PrunedKeeps ==
    ASSUME IInv, NEW p \in Procs, Pruned(p)
    PROVE  IInv'
<1>1. CASE pc[p] = "reclaim" /\ Fail(p)
  BY <1>1, FailKeeps
<1>2. CASE pc[p] = "prune" /\ End(p, "ok") /\ UNCHANGED <<store, registry>>
  <2>1. ~IsPull(p)
    BY <1>2 DEF IInv, Placed, Holding, Ready, Ended
  <2> QED BY <1>2, <2>1, OkKeeps DEF Pruned
<1>3. CASE pc[p] = "reclaim" /\ Goto(p, "download") /\ UNCHANGED <<store, registry, lock, tmp>>
  <2>a. pc[p] = "reclaim" /\ pc' = [pc EXCEPT ![p] = "download"] /\ IsPull(p)
    BY <1>3 DEF Goto, IInv, Placed, Ended
  <2>b. UNCHANGED <<image, link, lock, dirs, flock, tag, retags, job, todo, digest, fd, sweeps>>
    BY <1>3 DEF Goto, store, registry, tmp, known
  <2>1. TypeOK'
    BY <2>a, <2>b DEF IInv, TypeOK, Working
  <2>2. Placed'
    BY <2>a, <2>b, SMT DEF IInv, TypeOK, Placed, IsPull, Name, Host, Ended, Holding, Ready
  <2>3. Known'
    BY <2>a, <2>b, SMT DEF IInv, TypeOK, Known, IsPull, Name, Host, Images, Holding, Ready
  <2>4. TmpHeld'
    BY <2>a, <2>b, SMT DEF IInv, TypeOK, TmpHeld, Name
  <2>5. FlocksOfDirs'
    BY <2>b DEF IInv, FlocksOfDirs
  <2>6. Fresh'
    BY <2>a, <2>b, SMT DEF IInv, TypeOK, Fresh, Here, Ready
  <2>7. LinksHeld'
    BY <2>a, <2>b, SMT DEF IInv, TypeOK, LinksHeld, IsPull, Name
  <2>8. Marked'
    BY <2>a, <2>b, SMT DEF IInv, TypeOK, Marked, IsPull, Name
  <2>9. Accounted'
    <3>1. /\ UNCHANGED <<image, link, job>>
          /\ OwesNone(p)
          /\ \A q \in Procs \ {p} : pc'[q] = pc[q] /\ todo'[q] = todo[q]
      BY <2>a, <2>a, <2>b DEF IInv, TypeOK, OwesNone
    <3> QED BY <3>1, AccountedIdle
  <2> QED BY <2>1, <2>2, <2>3, <2>4, <2>5, <2>6, <2>7, <2>8, <2>9 DEF IInv
<1> QED BY <1>1, <1>2, <1>3 DEF Pruned

-----------------------------------------------------------------------------
(* What happens around the commands *)

LEMMA KillKeeps ==
    ASSUME IInv, NEW p \in Procs, Kill(p)
    PROVE  IInv'
<1>1. TypeOK'
  BY SMT DEF IInv, TypeOK, GoWith, Free, Ended, store, registry, known, Kill
<1>2. Placed'
  BY SMT DEF IInv, TypeOK, GoWith, Free, IsPull, Name, Host, Hosts, Ready, Holding, Ended, Placed, Kill
<1>3. Known'
  BY SMT DEF IInv, GoWith, IsPull, Name, Host, Ready, Holding, registry, known, Known, Kill
<1>4. TmpHeld'
  BY SMT DEF IInv, TypeOK, GoWith, Free, Name, known, TmpHeld, Kill
<1>5. FlocksOfDirs'
  BY SMT DEF IInv, Free, FlocksOfDirs, Kill
<1>6. Fresh'
  BY SMT DEF IInv, GoWith, Here, Ready, store, known, Fresh, Kill
<1>7. LinksHeld'
  BY SMT DEF IInv, GoWith, IsPull, Name, store, known, LinksHeld, Kill
<1>8. Marked'
  BY SMT DEF IInv, GoWith, IsPull, Name, store, Marked, Kill
<1>9. Accounted'
  BY SMT DEF IInv, TypeOK, GoWith, Owes, Accounted, Kill
<1>10. QED BY <1>1, <1>2, <1>3, <1>4, <1>5, <1>6, <1>7, <1>8, <1>9 DEF IInv

LEMMA RetagKeeps ==
  ASSUME IInv, NEW t \in Tags, Retag(t)
  PROVE  IInv'
<1>a. UNCHANGED <<image, link, lock, dirs, flock, job, pc, todo, digest, fd, sweeps>>
  BY DEF Retag, store, tmp, known
<1>b. \E d \in Images(t) : tag' = [tag EXCEPT ![t] = d]
  BY DEF Retag
<1>1. TypeOK'
  BY <1>a, <1>b DEF IInv, TypeOK, Retag, Images
<1>2. Placed'
  BY <1>a DEF IInv, Placed, IsPull, Name, Host
<1>3. Known'
  BY <1>a, <1>b DEF IInv, TypeOK, Known, IsPull, Name, Host, Images
<1>4. TmpHeld'
  BY <1>a DEF IInv, TmpHeld, Name
<1>5. FlocksOfDirs'
  BY <1>a DEF IInv, FlocksOfDirs
<1>6. Fresh'
  BY <1>a DEF IInv, Fresh, Here
<1>7. LinksHeld'
  BY <1>a DEF IInv, LinksHeld, IsPull, Name
<1>8. Marked'
  BY <1>a DEF IInv, Marked, IsPull, Name
<1>9. Accounted'
  BY <1>a DEF IInv, Accounted, Owes, Name
<1> QED BY <1>1, <1>2, <1>3, <1>4, <1>5, <1>6, <1>7, <1>8, <1>9 DEF IInv

-----------------------------------------------------------------------------
(* The invariant, and what it says *)

LEMMA InitHolds ==
    ASSUME Init
    PROVE  IInv
<1>0. job \in [Procs -> [op : Ops, name : Refs]]
  BY DEF Init
<1>1. TypeOK
  BY <1>0 DEF Init, TypeOK, Hosts, Working, First
<1>2. Placed
  BY <1>0 DEF Init, Placed, IsPull, First, Holding, Ready, Ended, Ops
<1>3. Known
  BY <1>0 DEF Init, Known, IsPull, First, Holding, Ready
<1>4. TmpHeld
  BY DEF Init, TmpHeld, First
<1>5. FlocksOfDirs
  BY DEF Init, FlocksOfDirs
<1>6. Fresh
  BY DEF Init, Fresh, First, Ready
<1>7. LinksHeld
  BY DEF Init, LinksHeld, First
<1>8. Marked
  BY DEF Init, Marked, First
<1>9. Accounted
  BY DEF Init, Accounted
<1> QED BY <1>1, <1>2, <1>3, <1>4, <1>5, <1>6, <1>7, <1>8, <1>9 DEF IInv

LEMMA NextKeeps == IInv /\ [Next]_cvars => IInv'
<1> SUFFICES ASSUME IInv, [Next]_cvars PROVE IInv'
  OBVIOUS
<1>1. ASSUME NEW p \in Procs, Pull(p) PROVE IInv'
  BY <1>1, PullManifestKeeps, PullLockKeeps, PullExistsKeeps, MakeTmpKeeps, OpenTmpKeeps,
      OpenTmpFailsKeeps, LockTmpKeeps, PullSpaceKeeps, DownloadKeeps, DownloadFailsKeeps, MoveKeeps,
      PullUnlinkKeeps, PullSymlinkKeeps, MarkExplicitlyPulledKeeps, PullOpenKeeps DEF Pull
<1>2. ASSUME NEW p \in Procs, Collect(p) PROVE IInv'
  BY <1>2, CollectCheckKeeps, CollectRemoveKeeps, CollectedKeeps DEF Collect
<1>3. ASSUME NEW p \in Procs, Sweep(p) PROVE IInv'
  BY <1>3, SweepListKeeps, SweepPassKeeps, SweepTakeKeeps, SweepRemoveKeeps, SweptKeeps DEF Sweep
<1>4. ASSUME NEW p \in Procs, Delete(p) \/ PruneList(p) \/ PruneOne(p) \/ Pruned(p) \/ Kill(p) PROVE IInv'
  BY <1>4, DeleteKeeps, PruneListKeeps, PruneOneKeeps, PrunedKeeps, KillKeeps
<1>5. ASSUME NEW t \in Tags, Retag(t) PROVE IInv'
  BY <1>5, RetagKeeps
<1>6. CASE UNCHANGED cvars
  BY <1>6 DEF cvars, IInv, TypeOK, Placed, Known, TmpHeld, FlocksOfDirs, Fresh, LinksHeld, Marked,
      Accounted, Owes, IsPull, Name, Host, Here, Images
<1>7. QED BY <1>1, <1>2, <1>3, <1>4, <1>5, <1>6 DEF Next, Step

LEMMA Inductive == Spec => []IInv
<1>1. Init => IInv
  BY InitHolds
<1>2. IInv /\ [Next]_cvars => IInv'
  BY NextKeeps
<1>3. QED BY <1>1, <1>2, PTL DEF Spec

(* Every command keeps the types: links lead to digests, a lock's holder   *)
(* is a process, and the directories of tmp are named by references.       *)
THEOREM TypeCorrect == Spec => []TypeOK
<1>1. IInv => TypeOK
  BY DEF IInv
<1>2. QED BY <1>1, Inductive, PTL

(* What a pull writes under tmp stays its own: no sweep and no other pull  *)
(* takes the directory between its flock and its move into the cache.      *)
THEOREM PullsOwnTheirDirectory == Spec => []TmpDirOwned
<1>1. IInv => TmpDirOwned
  BY DEF IInv, TmpHeld, TmpDirOwned
<1>2. QED BY <1>1, Inductive, PTL

(* However pulls, collections, deletes and prunes interleave, they leave   *)
(* no image behind that nothing leads to, unless a process was killed.     *)
THEOREM NothingLeftOver == Spec => []NoGarbage
<1>1. IInv => NoGarbage
  BY DEF IInv, Accounted, Owes, NoGarbage
<1>2. QED BY <1>1, Inductive, PTL

(* An image pulled by digest outlives every collection.                    *)
THEOREM MarkedImagesStay == Spec => []MarksStay
<1>1. IInv => MarksStay
  BY DEF IInv, Marked, MarksStay, Here
<1>2. QED BY <1>1, Inductive, PTL

(* Only its manifest and its end make a pull report success.               *)
LEMMA ReportsOk ==
    ASSUME IInv, NEW p \in Procs, Step(p) \/ Kill(p), IsPull(p), pc'[p] = "ok", pc[p] # "ok"
    PROVE  PullManifest(p) \/ PullOpen(p)
<1>1. ASSUME Pull(p), ~PullManifest(p), ~PullOpen(p) PROVE FALSE
  BY <1>1, SMT DEF IInv, TypeOK, Pull, PullLock, PullExists, MakeTmp, OpenTmp, OpenTmpFails, LockTmp,
      PullSpace, Download, DownloadFails, Move, PullUnlink, PullSymlink, MarkExplicitlyPulled, Goto,
      GoWith, Arrive, Fail, End
<1>2. ASSUME Collect(p) PROVE FALSE
  BY <1>2, SMT DEF IInv, TypeOK, Collect, CollectCheck, CollectRemove, Collected, Goto, GoWith
<1>3. ASSUME Sweep(p) \/ Delete(p) \/ PruneList(p) PROVE FALSE
  BY <1>3, SMT DEF IInv, TypeOK, Placed, Holding, Ready, Ended, Sweep, SweepList, SweepPass,
      SweepTake, SweepRemove, Swept, Delete, PruneList, Goto, GoWith
<1>4. ASSUME PruneOne(p) \/ Pruned(p) \/ Kill(p) PROVE FALSE
  <2>1. pc[p] # "prune"
    BY DEF IInv, Placed, Holding, Ready, Ended
  <2>2. CASE PruneOne(p)
    BY <2>1, <2>2 DEF IInv, TypeOK, PruneOne, GoWith, End, Fail
  <2>3. CASE Pruned(p)
    BY <2>1, <2>3 DEF IInv, TypeOK, Pruned, Goto, GoWith, End, Fail
  <2>4. CASE Kill(p)
    BY <2>4 DEF IInv, TypeOK, Kill, GoWith
  <2>5. QED BY <1>4, <2>2, <2>3, <2>4
<1>5. QED BY <1>1, <1>2, <1>3, <1>4 DEF Step

(* A step of one command leaves the others where they are.                 *)
LEMMA OthersStay ==
    ASSUME IInv, NEW p \in Procs, Step(p) \/ Kill(p), NEW q \in Procs \ {p}
    PROVE  pc'[q] = pc[q]
<1>1. ASSUME Pull(p) PROVE pc'[q] = pc[q]
  BY <1>1, SMT DEF IInv, TypeOK, Pull, PullManifest, PullLock, PullExists, MakeTmp, OpenTmp,
      OpenTmpFails, LockTmp, PullSpace, Download, DownloadFails, Move, PullUnlink, PullSymlink,
      MarkExplicitlyPulled, PullOpen, Goto, GoWith, Arrive, Fail, End
<1>2. ASSUME Collect(p) \/ Sweep(p) PROVE pc'[q] = pc[q]
  BY <1>2, SMT DEF IInv, TypeOK, Collect, CollectCheck, CollectRemove, Collected, Sweep, SweepList,
      SweepPass, SweepTake, SweepRemove, Swept, Goto, GoWith, End
<1>3. ASSUME Delete(p) \/ PruneList(p) \/ PruneOne(p) \/ Pruned(p) \/ Kill(p) PROVE pc'[q] = pc[q]
  BY <1>3, SMT DEF IInv, TypeOK, Delete, PruneList, PruneOne, Pruned, Kill, Goto, GoWith, End, Fail
<1>4. QED BY <1>1, <1>2, <1>3 DEF Step

(* A pull that reports success has its image in the cache and its tag      *)
(* linked to it, although deletes, prunes and collections take no lock.    *)
THEOREM SuccessMeansCached == Spec => PullOkMeansCached
<1>1. ASSUME IInv, Next, NEW p \in Procs, IsPull(p), pc[p] # "ok", pc'[p] = "ok"
      PROVE  Here(digest'[p]) /\ (Name(p) \in Tags => link[Name(p)] = digest'[p])
  <2>1. Step(p) \/ Kill(p)
    <3>1. \A t \in Tags : ~Retag(t)
      BY <1>1 DEF Retag
    <3>2. QED BY <1>1, <3>1, OthersStay DEF Next
  <2>2. PullManifest(p) \/ PullOpen(p)
    BY <1>1, <2>1, ReportsOk
  <2>3. CASE PullManifest(p)
    <3>1. ~Fail(p)
      BY <1>1 DEF Fail, End, GoWith, IInv, TypeOK
    <3>2. Cached(p, digest'[p])
      BY <1>1, <2>3, <3>1 DEF PullManifest, IInv, TypeOK
    <3>3. digest'[p] \in Digests
      BY <1>1, <2>3, <3>1 DEF PullManifest, IInv, TypeOK, Name, Refs
    <3>4. QED BY <3>2, <3>3 DEF Cached, Exists, Linked
  <2>4. CASE PullOpen(p)
    <3>1. pc[p] = "open" /\ digest'[p] = digest[p] /\ Exists(Name(p))
      BY <1>1, <2>4 DEF PullOpen, End, GoWith, known, IInv, TypeOK
    <3>2. digest[p] \in Digests /\ (Name(p) \in Digests => digest[p] = Name(p))
      BY <1>1, <3>1 DEF IInv, Known, Holding
    <3>3. Name(p) \in Tags => link[Name(p)] \in {digest[p], None}
      BY <1>1, <3>1 DEF IInv, LinksHeld
    <3>4. Name(p) \in Tags \/ Name(p) \in Digests
      BY <1>1 DEF IInv, TypeOK, Name, Refs
    <3>5. QED BY <3>1, <3>2, <3>3, <3>4 DEF Exists
  <2>5. QED BY <2>2, <2>3, <2>4
<1>2. IInv /\ [Next]_cvars =>
        [\A p \in Procs :
            IsPull(p) /\ pc[p] # "ok" /\ pc'[p] = "ok" =>
                /\ Here(digest'[p])
                /\ Name(p) \in Tags => link[Name(p)] = digest'[p]]_cvars
  BY <1>1
<1>3. QED BY <1>2, Inductive, PTL DEF Spec, PullOkMeansCached

(* Every collection removes the links that lead nowhere.                   *)
THEOREM WalksMendLinks == Spec => TagsLead
<1>1. ASSUME IInv, Next, NEW p \in Procs, pc[p] = "walk", pc'[p] = "collect", NEW t \in Tags, link'[t] # None
      PROVE  image'[link'[t]] # "gone"
  <2>1. Step(p) \/ Kill(p)
    <3>1. \A u \in Tags : ~Retag(u)
      BY <1>1 DEF Retag
    <3>2. QED BY <1>1, <3>1, OthersStay DEF Next
  <2>2. CollectCheck(p)
    BY <1>1, <2>1, SMT DEF IInv, TypeOK, Step, Pull, PullManifest, PullLock, PullExists, MakeTmp,
        OpenTmp, OpenTmpFails, LockTmp, PullSpace, Download, DownloadFails, Move, PullUnlink,
        PullSymlink, MarkExplicitlyPulled, PullOpen, Collect, CollectRemove, Collected, Sweep,
        SweepList, SweepPass, SweepTake, SweepRemove, Swept, Delete, PruneList, PruneOne, Pruned,
        Kill, GoWith
  <2>3. QED BY <1>1, <2>2 DEF CollectCheck, Broken, Here
<1>2. IInv /\ [Next]_cvars =>
        [\A p \in Procs : pc[p] = "walk" /\ pc'[p] = "collect" =>
            \A t \in Tags : link'[t] # None => image'[link'[t]] # "gone"]_cvars
  BY <1>1
<1>3. QED BY <1>2, Inductive, PTL DEF Spec, TagsLead
=============================================================================
