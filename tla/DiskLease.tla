------------------------------ MODULE DiskLease ------------------------------
(***************************************************************************)
(* What guestweave's locking promises, without the locks: a process drives *)
(* one machine on one disk image, which no other process drives, and it    *)
(* lets go of it before the next one starts - a disk is never handed over  *)
(* while a machine still writes it.                                        *)
(***************************************************************************)
CONSTANTS Procs, Disks, None

VARIABLE lease      \* the disk each process drives

Init == lease = [p \in Procs |-> None]

Acquire(p, d) ==
    /\ lease[p] = None
    /\ \A q \in Procs : lease[q] # d
    /\ lease' = [lease EXCEPT ![p] = d]

Release(p) ==
    /\ lease[p] # None
    /\ lease' = [lease EXCEPT ![p] = None]

Next == \E p \in Procs : Release(p) \/ \E d \in Disks : Acquire(p, d)

Spec == Init /\ [][Next]_lease
=============================================================================
