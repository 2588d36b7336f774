---------------------------- MODULE MCVMLifecycle ----------------------------
(* VMLifecycle with two names: "a" has a VM that may have a saved state,    *)
(* and "b" is free or has another VM, perhaps a clone with the MAC of "a".  *)
EXTENDS VMLifecycle, TLC

MCInit ==
    /\ Init
    /\ dir["a"] \in {[ino |-> 1, disk |-> 1, mac |-> 1, state |-> s] : s \in BOOLEAN}
    /\ dir["b"] \in {NoVM} \cup {[ino |-> 2, disk |-> 2, mac |-> m, state |-> FALSE] : m \in {1, 2}}

MCSpec == MCInit /\ [][Next]_vars

(* Without stop and suspend nothing reads the saved state. *)
ExclInit == MCInit /\ dir["a"].state = FALSE

ExclSpec == ExclInit /\ [][Next]_vars

(* Two VMs of different addresses, if two. *)
FairInit == MCInit /\ dir["b"].mac # dir["a"].mac

MCFairSpec ==
    /\ FairInit
    /\ [][Next]_vars
    /\ \A p \in Procs : WF_vars(Progress(p)) /\ WF_vars(StopTimeout(p))

(* States that differ in the numbers of inodes, disks and addresses only    *)
(* are one: what counts is which of them are the same.                      *)
Same(values, of(_), has(_)) == {{n \in Names : of(dir[n]) = v} \cup {p \in Procs : has(proc[p]) = v} : v \in values}

Ino(r) == r.ino
Disk(r) == r.disk
MAC(r) == r.mac

View == <<
    [n \in Names |-> <<dir[n].state, PID(dir[n].ino)>>],
    [p \in Procs |-> <<proc[p].pc, proc[p].name, proc[p].from, proc[p].state, proc[p].pid, PID(proc[p].ino)>>],
    Same(Inodes, Ino, Ino), Same(Disks, Disk, Disk), Same(MACs, MAC, MAC), home, intr, usr1>>

(* Where nothing reads saved states they count for nothing either. *)
StatelessView == <<
    [n \in Names |-> PID(dir[n].ino)],
    [p \in Procs |-> <<proc[p].pc, proc[p].name, proc[p].from, proc[p].pid, PID(proc[p].ino)>>],
    Same(Inodes, Ino, Ino), Same(Disks, Disk, Disk), Same(MACs, MAC, MAC), home, intr, usr1>>

Symmetry == Permutations(Procs)
=============================================================================
