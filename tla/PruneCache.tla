----------------------------- MODULE PruneCache -----------------------------
(***************************************************************************)
(* The cache of downloads: FetchToFile, the room made for a download        *)
(* (EnsureDiskSpace, ReclaimIfNeeded), weave prune by age and by a budget,  *)
(* and the collection of temporary files every command begins with.        *)
(* Processes share the directories, and a process may be killed anywhere.   *)
(* Sizes are small numbers of blocks; a file of size 0 is absent.           *)
(***************************************************************************)
EXTENDS Integers, FiniteSets, Sequences, FiniteSetsExt, SequencesExt

CONSTANTS
    CacheFiles,     \* names in the cache
    Procs,          \* processes
    Capacity,       \* blocks of the volume
    Stock,          \* what the cache may hold at first: sizes and times of use
    Sizes,          \* sizes of what is downloaded
    CacheMixes,     \* what may happen in a history
    MaxNow,         \* bound on the clock's ticks by uses
    MaxBegun        \* bound on downloads and prunes begun by a process

VARIABLES
    cached,     \* the cache: size, time of the last use, time it came, whether whole
    ctmp,       \* a process's temporary file: there, its lock's holder, blocks in it
    cnow,       \* the clock
    cproc,      \* what each process does
    cachemix    \* what happens in this history

vars == <<cached, ctmp, cnow, cproc, cachemix>>

NoOwner == "none"
NoTemp == [there |-> FALSE, lock |-> NoOwner, got |-> 0]
Idle == [at |-> "idle", file |-> NoOwner, need |-> 0, list |-> <<>>, freed |-> 0, listed |-> {}, time |-> 0, todo |-> {}, begun |-> 0]
Ends(p) == [Idle EXCEPT !.begun = cproc[p].begun]

There == {f \in CacheFiles : cached[f].size > 0}
SizeOf(F) == MapThenSumSet(LAMBDA f : cached[f].size, F)
Room == Capacity - SizeOf(CacheFiles) - MapThenSumSet(LAMBDA p : ctmp[p].got, Procs)

TypeOK ==
    /\ Room \in 0..Capacity
    /\ \A f \in CacheFiles : cached[f].size \in Sizes \cup {0} /\ cached[f].used \in 0..(MaxNow + MaxBegun * Cardinality(Procs))
    /\ \A p \in Procs : ctmp[p].lock \in Procs \cup {NoOwner} /\ (ctmp[p].got > 0 => ctmp[p].there)
    /\ \A p \in Procs : cproc[p].at \in
          {"idle", "room", "reclaim", "check", "create", "lock", "body", "rename", "older", "budget", "kept", "gc", "took"}

-----------------------------------------------------------------------------
(* Room for a download *)

(* prunables by access date; the files of one date in an order of their own. *)
Oldest(F) == SetToSortSeq(F, LAMBDA f, g : cached[f].used < cached[g].used)
Newest(F) == Reverse(Oldest(F))

Begins(p, what) == what \in cachemix /\ cproc[p].at = "idle" /\ cproc[p].begun < MaxBegun

(* FetchToFile: the answer's headers give the size. *)
BeginFetch(p, f, s) ==
    /\ Begins(p, "download") /\ f \notin There /\ ~ctmp[p].there
    /\ cproc' = [cproc EXCEPT ![p] = [Idle EXCEPT !.at = "room", !.file = f, !.need = s, !.begun = cproc[p].begun + 1]]
    /\ UNCHANGED <<cached, ctmp, cnow, cachemix>>

(* ReclaimIfNeeded: with room for more than the download, nothing is done; *)
(* nor when all of the cache would not be enough.                          *)
ReclaimIfNeeded(p) ==
    /\ cproc[p].at = "room"
    /\ LET lacking == cproc[p].need - Room
           worth == lacking >= 0 /\ SizeOf(There) >= lacking
       IN cproc' = [cproc EXCEPT ![p] = [@ EXCEPT !.at = IF worth THEN "reclaim" ELSE "check",
                        !.list = IF worth THEN Oldest(There) ELSE <<>>,
                        !.freed = IF worth THEN -lacking ELSE 0]]
    /\ UNCHANGED <<cached, ctmp, cnow, cachemix>>

(* More than what lacked has been freed; what lacked exactly is not enough. *)
Enough(p) == cproc[p].freed > 0

(* reclaimIfPossible: the next file's size is read and it is deleted; a file *)
(* somebody else deleted is an error, and the download is refused.           *)
Reclaim(p) ==
    /\ cproc[p].at = "reclaim"
    /\ IF Enough(p) \/ cproc[p].list = <<>>
       THEN cproc' = [cproc EXCEPT ![p].at = "check", ![p].list = <<>>, ![p].freed = 0] /\ UNCHANGED cached
       ELSE LET f == Head(cproc[p].list)
            IN IF f \notin There
               THEN cproc' = [cproc EXCEPT ![p] = Ends(p)] /\ UNCHANGED cached
               ELSE /\ cproc' = [cproc EXCEPT ![p].list = Tail(@), ![p].freed = @ + cached[f].size]
                    /\ cached' = [cached EXCEPT ![f].size = 0]
    /\ UNCHANGED <<ctmp, cnow, cachemix>>

(* EnsureDiskSpace looks again. *)
CheckRoom(p) ==
    /\ cproc[p].at = "check"
    /\ cproc' = [cproc EXCEPT ![p] = IF Room < cproc[p].need THEN Ends(p) ELSE [@ EXCEPT !.at = "create"]]
    /\ UNCHANGED <<cached, ctmp, cnow, cachemix>>

-----------------------------------------------------------------------------
(* The download *)

CreateTemp(p) ==
    /\ cproc[p].at = "create"
    /\ ctmp' = [ctmp EXCEPT ![p] = [NoTemp EXCEPT !.there = TRUE]]
    /\ cproc' = [cproc EXCEPT ![p].at = "lock"]
    /\ UNCHANGED <<cached, cnow, cachemix>>

(* A collection may have taken the file's lock first; then it is removed and *)
(* the process goes on with a file that has no name.                         *)
LockTemp(p) ==
    /\ cproc[p].at = "lock" /\ ctmp[p].lock = NoOwner
    /\ ctmp' = [ctmp EXCEPT ![p].lock = p]
    /\ cproc' = [cproc EXCEPT ![p].at = "body"]
    /\ UNCHANGED <<cached, cnow, cachemix>>

(* A block of the body; a nameless file takes room we do not follow. *)
ReceiveBody(p) ==
    /\ cproc[p].at = "body" /\ (ctmp[p].there => Room > 0)
    /\ ctmp' = [ctmp EXCEPT ![p].got = IF ctmp[p].there THEN @ + 1 ELSE @]
    /\ cproc' = [cproc EXCEPT ![p].at = IF ctmp'[p].got = cproc[p].need \/ ~ctmp[p].there THEN "rename" ELSE @]
    /\ UNCHANGED <<cached, cnow, cachemix>>

(* Faulty: what came before the connection was cut is cached. *)
BodyFailsAnyway(p) ==
    /\ cproc[p].at = "body" /\ ("cut" \in cachemix \/ Room = 0)
    /\ cproc' = [cproc EXCEPT ![p].at = "rename"]
    /\ UNCHANGED <<cached, ctmp, cnow, cachemix>>

(* The connection is cut or the volume is full: the temporary file goes. *)
BodyFails(p) ==
    /\ cproc[p].at = "body" /\ ("cut" \in cachemix \/ Room = 0)
    /\ ctmp' = [ctmp EXCEPT ![p] = NoTemp]
    /\ cproc' = [cproc EXCEPT ![p] = Ends(p)]
    /\ UNCHANGED <<cached, cnow, cachemix>>

(* An interrupted command's body may just end (FetcherFetch chooses between  *)
(* the error and the cancelled context): what came so far is kept, under its *)
(* own digest and not under the name of what was asked for.                  *)
Cancelled(p) ==
    /\ cproc[p].at = "body" /\ "cancel" \in cachemix
    /\ ctmp' = [ctmp EXCEPT ![p] = NoTemp]
    /\ cproc' = [cproc EXCEPT ![p] = Ends(p)]
    /\ UNCHANGED <<cached, cnow, cachemix>>

(* Renamed into the cache while it is locked; a removed file is an error. *)
RenameTemp(p) ==
    /\ cproc[p].at = "rename"
    /\ IF ctmp[p].there
       THEN cached' = [cached EXCEPT ![cproc[p].file] =
                          [size |-> cproc[p].need, used |-> cnow + 1, came |-> cnow + 1,
                           whole |-> ctmp[p].got = cproc[p].need]]
       ELSE UNCHANGED cached
    /\ cnow' = cnow + 1
    /\ ctmp' = [ctmp EXCEPT ![p] = NoTemp]
    /\ cproc' = [cproc EXCEPT ![p] = Ends(p)]
    /\ UNCHANGED cachemix

(* A command that finds the file in the cache notes that it was used. *)
UpdateAccessDate(f) ==
    /\ "touch" \in cachemix /\ f \in There /\ cnow < MaxNow
    /\ cnow' = cnow + 1
    /\ cached' = [cached EXCEPT ![f].used = cnow + 1]
    /\ UNCHANGED <<ctmp, cproc, cachemix>>

-----------------------------------------------------------------------------
(* weave prune *)

(* pruneOlderThan collects, then looks at each date and deletes.  *)
BeginOlder(p, date) ==
    /\ Begins(p, "old")
    /\ cproc' = [cproc EXCEPT ![p] = [Idle EXCEPT !.at = "older", !.list = Oldest(There),
                                        !.need = date, !.begun = cproc[p].begun + 1]]
    /\ UNCHANGED <<cached, ctmp, cnow, cachemix>>

PruneOlder(p) ==
    /\ cproc[p].at = "older"
    /\ IF cproc[p].list = <<>> \/ (cproc[p].list # <<>> /\ Head(cproc[p].list) \notin There)
       THEN cproc' = [cproc EXCEPT ![p] = Ends(p)] /\ UNCHANGED cached
       ELSE /\ cproc' = [cproc EXCEPT ![p].list = Tail(@)]
            /\ LET f == Head(cproc[p].list)
               IN cached' = IF cached[f].used <= cproc[p].need THEN [cached EXCEPT ![f].size = 0] ELSE cached
    /\ UNCHANGED <<ctmp, cnow, cachemix>>

(* A file that does not fit into what is left of the budget goes; a smaller *)
(* and older one after it may stay.                                         *)
Overflow(f, left) == cached[f].size > left

Keeps(files, budget) ==
    FoldLeft(LAMBDA acc, f : IF Overflow(f, acc.left) THEN [acc EXCEPT !.drop = Append(@, f)]
                             ELSE [acc EXCEPT !.left = @ - cached[f].size], [left |-> budget, drop |-> <<>>], files)

(* pruneSpaceBudget lists what to delete first. *)
BeginBudget(p, budget) ==
    /\ Begins(p, "budget")
    /\ cproc' = [cproc EXCEPT ![p] = [Idle EXCEPT !.at = "budget", !.list = Keeps(Newest(There), budget).drop,
                                        !.need = budget, !.listed = There, !.time = cnow, !.begun = cproc[p].begun + 1]]
    /\ UNCHANGED <<cached, ctmp, cnow, cachemix>>

PruneBudget(p) ==
    /\ cproc[p].at = "budget"
    /\ IF cproc[p].list = <<>>
       THEN cproc' = [cproc EXCEPT ![p].at = "kept"] /\ UNCHANGED cached
       ELSE /\ cproc' = [cproc EXCEPT ![p].list = Tail(@)]
            /\ cached' = [cached EXCEPT ![Head(cproc[p].list)].size = 0]
    /\ UNCHANGED <<ctmp, cnow, cachemix>>

PruneEnds(p) ==
    /\ cproc[p].at = "kept"
    /\ cproc' = [cproc EXCEPT ![p] = Ends(p)]
    /\ UNCHANGED <<cached, ctmp, cnow, cachemix>>

-----------------------------------------------------------------------------
(* Config.GC: each temporary file whose lock is free is removed *)

(* Every command but pull and clone collects first: again and again. *)
BeginGC(p) ==
    /\ "gc" \in cachemix /\ cproc[p].at = "idle"
    /\ \E q \in Procs : ctmp[q].there
    /\ cproc' = [cproc EXCEPT ![p] = [Ends(p) EXCEPT !.at = "gc", !.todo = {q \in Procs : ctmp[q].there}]]
    /\ UNCHANGED <<cached, ctmp, cnow, cachemix>>

(* Faulty: the lock of a file is not asked for. *)
GCTakeAny(p, q) ==
    /\ cproc[p].at = "gc" /\ q \in cproc[p].todo /\ ctmp[q].there
    /\ ctmp' = [ctmp EXCEPT ![q].lock = p]
    /\ cproc' = [cproc EXCEPT ![p].at = "took", ![p].file = q, ![p].todo = @ \ {q}]
    /\ UNCHANGED <<cached, cnow, cachemix>>

(* The lock of a file is tried. *)
GCTake(p, q) ==
    /\ cproc[p].at = "gc" /\ q \in cproc[p].todo /\ ctmp[q].there /\ ctmp[q].lock = NoOwner
    /\ ctmp' = [ctmp EXCEPT ![q].lock = p]
    /\ cproc' = [cproc EXCEPT ![p].at = "took", ![p].file = q, ![p].todo = @ \ {q}]
    /\ UNCHANGED <<cached, cnow, cachemix>>

(* A file that is locked is left, one that is gone ends the collection. *)
GCLeaves(p, q) ==
    /\ cproc[p].at = "gc" /\ q \in cproc[p].todo
    /\ ~ctmp[q].there \/ ctmp[q].lock # NoOwner
    /\ cproc' = [cproc EXCEPT ![p] = IF ctmp[q].there THEN [@ EXCEPT !.todo = @ \ {q}] ELSE Ends(p)]
    /\ UNCHANGED <<cached, ctmp, cnow, cachemix>>

(* Faulty: only empty files are removed. *)
GCRemoveEmpty(p) ==
    /\ cproc[p].at = "took"
    /\ ctmp' = [ctmp EXCEPT ![cproc[p].file] =
                   IF @.got = 0 THEN NoTemp ELSE [@ EXCEPT !.lock = NoOwner]]
    /\ cproc' = [cproc EXCEPT ![p].at = "gc"]
    /\ UNCHANGED <<cached, cnow, cachemix>>

(* The file is removed, and its lock with it. *)
GCRemove(p) ==
    /\ cproc[p].at = "took"
    /\ ctmp' = [ctmp EXCEPT ![cproc[p].file] = NoTemp]
    /\ cproc' = [cproc EXCEPT ![p].at = "gc"]
    /\ UNCHANGED <<cached, cnow, cachemix>>

GCEnds(p) ==
    /\ cproc[p].at = "gc" /\ cproc[p].todo = {}
    /\ cproc' = [cproc EXCEPT ![p] = Ends(p)]
    /\ UNCHANGED <<cached, ctmp, cnow, cachemix>>

(* A killed process leaves its files, and the kernel its locks. *)
Kill(p) ==
    /\ "kill" \in cachemix /\ cproc[p].at # "idle"
    /\ cproc' = [cproc EXCEPT ![p] = Ends(p)]
    /\ ctmp' = [q \in Procs |-> IF ctmp[q].lock = p THEN [ctmp[q] EXCEPT !.lock = NoOwner] ELSE ctmp[q]]
    /\ UNCHANGED <<cached, cnow, cachemix>>

-----------------------------------------------------------------------------
Init ==
    /\ cachemix \in CacheMixes
    /\ \E stock \in Stock :
         cached = [f \in CacheFiles |-> [size |-> stock[f][1], used |-> stock[f][2], came |-> 0, whole |-> TRUE]]
    /\ ctmp = [p \in Procs |-> NoTemp]
    /\ cnow = 1
    /\ cproc = [p \in Procs |-> IF p # CHOOSE q \in Procs : TRUE THEN [Idle EXCEPT !.begun = IF "alone" \in cachemix THEN MaxBegun ELSE 1]
                                ELSE Idle]
    /\ Room >= 0

Fetch(p) ==
    \/ ReclaimIfNeeded(p) \/ Reclaim(p) \/ CheckRoom(p) \/ CreateTemp(p) \/ LockTemp(p)
    \/ ReceiveBody(p) \/ BodyFails(p) \/ RenameTemp(p)

Prune(p) == PruneOlder(p) \/ PruneBudget(p) \/ PruneEnds(p)

GC(p) == BeginGC(p) \/ GCRemove(p) \/ GCEnds(p) \/ \E q \in Procs : GCTake(p, q) \/ GCLeaves(p, q)

Next ==
    \/ \E p \in Procs, f \in CacheFiles, s \in Sizes : BeginFetch(p, f, s)
    \/ \E p \in Procs : Fetch(p) \/ Cancelled(p)
    \/ \E f \in CacheFiles : UpdateAccessDate(f)
    \/ \E p \in Procs, date \in 0..MaxNow : BeginOlder(p, date)
    \/ \E p \in Procs, budget \in 0..Capacity : BeginBudget(p, budget)
    \/ \E p \in Procs : Prune(p) \/ GC(p) \/ Kill(p)

Fairness ==
    \A p \in Procs :
        /\ WF_vars(Fetch(p) \/ Prune(p))
        /\ SF_vars(GCRemove(p)) /\ WF_vars(GC(p))
        /\ SF_vars(\E q \in Procs : GCTake(q, p))

Spec == Init /\ [][Next]_vars /\ Fairness

-----------------------------------------------------------------------------
(* What is in the cache under a name is all of what was downloaded for it,    *)
(* whatever was cut, killed or collected meanwhile (FetchToFile).             *)
WholeFiles == \A f \in There : cached[f].whole

(* When prune --space-budget ends, the files it found that are still the same *)
(* take no more than the budget (pruneSpaceBudget).                           *)
BudgetKept ==
    \A p \in Procs : cproc[p].at = "kept" =>
        SizeOf({f \in cproc[p].listed \cap There : cached[f].came <= cproc[p].time}) <= cproc[p].need

(* A running download's locked temporary file is removed by nobody else *)
(* (Config.GC, FileLock).                                               *)
LockedTempStays ==
    [][\A p \in Procs : ctmp[p].there /\ ctmp[p].lock = p /\ cproc'[p] = cproc[p] =>
            ctmp'[p].there /\ ctmp'[p].lock = p]_vars

(* Making room, a download deletes a file only while a block more than it     *)
(* needs is not free, and never one that was used after a file it leaves      *)
(* (ReclaimIfNeeded, SortPrunablesByAccessDate), unless others act meanwhile. *)
ReclaimsOldestOnly ==
    [][\A p \in Procs, f \in There : cproc[p].at = "reclaim" /\ cproc'[p] # cproc[p] /\ "alone" \in cachemix
            /\ cached'[f].size = 0 =>
         /\ Room <= cproc[p].need
         /\ \A g \in There : cached[g].used >= cached[f].used]_vars

(* What a killed download left is removed in the end, when commands go on     *)
(* being run (runGarbageCollection).                                          *)
TempsSwept ==
    \A q \in Procs : (ctmp[q].there /\ cproc[q].at \notin {"lock", "body", "rename"} /\ "gc" \in cachemix) ~> ~ctmp[q].there

(* Cached files are whole and the budget is kept. *)
CacheSafe == TypeOK /\ WholeFiles /\ BudgetKept
=============================================================================
