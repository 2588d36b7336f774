-------------------------- MODULE VMLifecycleProofs --------------------------
(***************************************************************************)
(* What VMLifecycle keeps, for every number of names, processes, inodes,   *)
(* disks and addresses. Types are kept by every command, and so is that no *)
(* two names share a VM and that addresses are compared by one process at  *)
(* a time; that no disk has two machines is proved for histories of run,   *)
(* stop, suspend, clone, import and kill, and is false beyond them.        *)
(***************************************************************************)
EXTENDS VMLifecycle, TLAPS

USE ConstantsAssumption

TInv == TypeOK /\ Formed

LEMMA AnyOneIn == ASSUME NEW S, S # {} PROVE AnyOne(S) \in S
BY DEF AnyOne

LEMMA FreeOnes ==
    /\ FreeInodes # {} => AnyOne(FreeInodes) \in FreeInodes
    /\ FreeDisks # {} => AnyOne(FreeDisks) \in FreeDisks
    /\ FreeMACs # {} => AnyOne(FreeMACs) \in FreeMACs
    /\ FreeInodes \subseteq Inodes /\ FreeDisks \subseteq Disks /\ FreeMACs \subseteq MACs
BY AnyOneIn DEF FreeInodes, FreeDisks, FreeMACs

-----------------------------------------------------------------------------
(* Types *)

USE DEF TInv, TypeOK, Formed, WellFormed, Records, VMs, NoVM, Idle, Steps, Guarded, Attached, Opened, Locked,
        Served, Driving, Checking, Moving

LEMMA ExitTypes ==
    ASSUME TInv, NEW S, Exit(S), dir' \in [Names -> VMs \cup {NoVM}]
    PROVE  TInv'
BY DEF Exit

(* A step that only moves one process on. *)
LEMMA LocalStep ==
    ASSUME TInv, NEW p \in Procs, NEW r \in Records, WellFormed(r),
           proc' = [proc EXCEPT ![p] = r], UNCHANGED <<dir, holder, home, intr, usr1>>,
           proc[p].pc \notin Served \/ r.pc \in Served
    PROVE  TInv'
BY DEF TInv

LEMMA TInvDir == ASSUME TInv, UNCHANGED dir PROVE dir' \in [Names -> VMs \cup {NoVM}]
OBVIOUS

LEMMA StateDroppedTyped ==
    ASSUME TInv, NEW n \in Names
    PROVE  StateDropped(n) \in [Names -> VMs \cup {NoVM}]
<1>1. CASE Exists(n)
  <2>1. dir[n] \in VMs
    BY <1>1 DEF Exists
  <2>2. [dir[n] EXCEPT !.state = FALSE] \in VMs
    BY <2>1
  <2>3. QED BY <1>1, <2>2 DEF StateDropped
<1>2. CASE ~Exists(n)
  BY <1>2 DEF StateDropped
<1>3. QED BY <1>1, <1>2

LEMMA RunBootTypes == ASSUME TInv, NEW p \in Procs, RunBoot(p) PROVE TInv'
<1>1. dir' \in [Names -> VMs \cup {NoVM}]
  BY StateDroppedTyped DEF RunBoot
<1>2. UNCHANGED <<holder, home, intr, usr1>> /\ proc' = [proc EXCEPT ![p].pc = "live"]
  BY DEF RunBoot, Goto
<1>3. proc[p].pc = "run_boot"
  BY DEF RunBoot
<1>4. QED BY <1>1, <1>2, <1>3

LEMMA RunHomeTypes == ASSUME TInv, NEW p \in Procs, RunHome(p) PROVE TInv'
BY DEF RunHome, Goto, Exists, PID, StateDropped

LEMMA RunTrylockTypes == ASSUME TInv, NEW p \in Procs, RunTrylock(p) PROVE TInv'
BY DEF RunTrylock, Goto, Exists, PID, StateDropped

LEMMA RunUnlockHomeTypes == ASSUME TInv, NEW p \in Procs, RunUnlockHome(p) PROVE TInv'
BY DEF RunUnlockHome, Goto, Exists, PID, StateDropped

LEMMA SuspendRefusedTypes == ASSUME TInv, NEW p \in Procs, SuspendRefused(p) PROVE TInv'
BY DEF SuspendRefused, Goto, Exists, PID, StateDropped

LEMMA RunSuspendTypes == ASSUME TInv, NEW p \in Procs, RunSuspend(p) PROVE TInv'
BY DEF RunSuspend, Goto, Exists, PID, StateDropped

LEMMA PersistTypes == ASSUME TInv, NEW p \in Procs, Persist(p) PROVE TInv'
BY DEF Persist, Goto, Exists, PID, StateDropped

LEMMA StopSignalTypes == ASSUME TInv, NEW p \in Procs, StopSignal(p) PROVE TInv'
BY DEF StopSignal, Goto, Exists, PID, StateDropped

LEMMA StopPollTypes == ASSUME TInv, NEW p \in Procs, StopPoll(p) PROVE TInv'
BY DEF StopPoll, Goto, Exists, PID, StateDropped

LEMMA DeleteTrylockTypes == ASSUME TInv, NEW p \in Procs, DeleteTrylock(p) PROVE TInv'
BY DEF DeleteTrylock, Goto, Exists, PID, StateDropped

LEMMA CloneHomeTypes == ASSUME TInv, NEW p \in Procs, CloneHome(p) PROVE TInv'
BY DEF CloneHome, Goto, Exists, PID, StateDropped

LEMMA ImportHomeTypes == ASSUME TInv, NEW p \in Procs, ImportHome(p) PROVE TInv'
BY DEF ImportHome, Goto, Exists, PID, StateDropped

LEMMA MoveRemoveTypes == ASSUME TInv, NEW p \in Procs, MoveRemove(p) PROVE TInv'
BY DEF MoveRemove, Goto, Exists, PID, StateDropped

LEMMA RenameRemoveTypes == ASSUME TInv, NEW p \in Procs, RenameRemove(p) PROVE TInv'
BY DEF RenameRemove, Goto, Exists, PID, StateDropped

LEMMA RunBuildTypes == ASSUME TInv, NEW p \in Procs, RunBuild(p) PROVE TInv'
<1> DEFINE r == [proc[p] EXCEPT !.pc = "run_open", !.disk = dir[proc[p].name].disk]
<1>1. /\ proc[p] \in Records /\ proc[p].name \in Names /\ proc[p].pc = "run_build"
     /\ dir[proc[p].name].disk \in Disks
  BY FreeOnes DEF RunBuild, Exists, PID, Running
<1>2. r \in Records /\ WellFormed(r)
  BY <1>1
<1>3. proc' = [proc EXCEPT ![p] = r]
  BY DEF RunBuild, Begin
<1>4. UNCHANGED <<dir, holder, home, intr, usr1>> /\ proc[p].pc \notin Served
  BY <1>1 DEF RunBuild
<1> HIDE DEF r
<1>5. QED BY <1>2, <1>3, <1>4, LocalStep

LEMMA RunOpenLockTypes == ASSUME TInv, NEW p \in Procs, RunOpenLock(p) PROVE TInv'
<1> DEFINE r == [proc[p] EXCEPT !.pc = "run_trylock", !.ino = dir[proc[p].name].ino]
<1>1. /\ proc[p] \in Records /\ proc[p].name \in Names /\ proc[p].disk \in Disks /\ proc[p].pc = "run_open"
     /\ dir[proc[p].name].ino \in Inodes
  BY FreeOnes DEF RunOpenLock, Exists, PID, Running
<1>2. r \in Records /\ WellFormed(r)
  BY <1>1
<1>3. proc' = [proc EXCEPT ![p] = r]
  BY DEF RunOpenLock, Begin
<1>4. UNCHANGED <<dir, holder, home, intr, usr1>> /\ proc[p].pc \notin Served
  BY <1>1 DEF RunOpenLock
<1> HIDE DEF r
<1>5. QED BY <1>2, <1>3, <1>4, LocalStep

LEMMA StopFindTypes == ASSUME TInv, NEW p \in Procs, StopFind(p) PROVE TInv'
<1> DEFINE r == [proc[p] EXCEPT !.pc = "stop_signal", !.ino = dir[proc[p].name].ino, !.pid = PID(dir[proc[p].name].ino)]
<1>1. /\ proc[p] \in Records /\ proc[p].name \in Names /\ proc[p].pc = "stop_find"
     /\ dir[proc[p].name].ino \in Inodes /\ PID(dir[proc[p].name].ino) \in Procs
  BY FreeOnes DEF StopFind, Exists, PID, Running
<1>2. r \in Records /\ WellFormed(r)
  BY <1>1
<1>3. proc' = [proc EXCEPT ![p] = r]
  BY DEF StopFind, Begin
<1>4. UNCHANGED <<dir, holder, home, intr, usr1>> /\ proc[p].pc \notin Served
  BY <1>1 DEF StopFind
<1> HIDE DEF r
<1>5. QED BY <1>2, <1>3, <1>4, LocalStep

LEMMA RunStartTypes == ASSUME TInv, NEW p \in Procs, NEW n \in Names, RunStart(p, n) PROVE TInv'
<1> DEFINE r == [Idle EXCEPT !.pc = "run_home", !.name = n]
<1>1. proc[p].pc = "idle"
  BY FreeOnes DEF RunStart, Exists, PID, Running
<1>2. r \in Records /\ WellFormed(r)
  BY <1>1
<1>3. proc' = [proc EXCEPT ![p] = r]
  BY DEF RunStart, Begin
<1>4. UNCHANGED <<dir, holder, home, intr, usr1>> /\ proc[p].pc \notin Served
  BY <1>1 DEF RunStart
<1> HIDE DEF r
<1>5. QED BY <1>2, <1>3, <1>4, LocalStep

LEMMA SuspendStartTypes == ASSUME TInv, NEW p \in Procs, NEW n \in Names, SuspendStart(p, n) PROVE TInv'
<1> DEFINE r == [Idle EXCEPT !.pc = "suspend_signal", !.pid = PID(dir[n].ino)]
<1>1. proc[p].pc = "idle" /\ PID(dir[n].ino) \in Procs
  BY FreeOnes DEF SuspendStart, Exists, PID, Running
<1>2. r \in Records /\ WellFormed(r)
  BY <1>1
<1>3. proc' = [proc EXCEPT ![p] = r]
  BY DEF SuspendStart, Begin
<1>4. UNCHANGED <<dir, holder, home, intr, usr1>> /\ proc[p].pc \notin Served
  BY <1>1 DEF SuspendStart
<1> HIDE DEF r
<1>5. QED BY <1>2, <1>3, <1>4, LocalStep

LEMMA DeleteOpenTypes == ASSUME TInv, NEW p \in Procs, NEW n \in Names, DeleteOpen(p, n) PROVE TInv'
<1> DEFINE r == [Idle EXCEPT !.pc = "delete_trylock", !.name = n, !.ino = dir[n].ino]
<1>1. proc[p].pc = "idle" /\ dir[n].ino \in Inodes
  BY FreeOnes DEF DeleteOpen, Exists, PID, Running
<1>2. r \in Records /\ WellFormed(r)
  BY <1>1
<1>3. proc' = [proc EXCEPT ![p] = r]
  BY DEF DeleteOpen, Begin
<1>4. UNCHANGED <<dir, holder, home, intr, usr1>> /\ proc[p].pc \notin Served
  BY <1>1 DEF DeleteOpen
<1> HIDE DEF r
<1>5. QED BY <1>2, <1>3, <1>4, LocalStep

LEMMA CreateStartTypes == ASSUME TInv, NEW p \in Procs, NEW n \in Names, CreateStart(p, n) PROVE TInv'
<1> DEFINE r == [Idle EXCEPT !.pc = "move_remove", !.name = n, !.mac = AnyOne(FreeMACs)]
<1>1. proc[p].pc = "idle" /\ AnyOne(FreeMACs) \in MACs
  BY FreeOnes DEF CreateStart, Exists, PID, Running
<1>2. r \in Records /\ WellFormed(r)
  BY <1>1
<1>3. proc' = [proc EXCEPT ![p] = r]
  BY DEF CreateStart, Begin
<1>4. UNCHANGED <<dir, holder, home, intr, usr1>> /\ proc[p].pc \notin Served
  BY <1>1 DEF CreateStart
<1> HIDE DEF r
<1>5. QED BY <1>2, <1>3, <1>4, LocalStep

LEMMA CloneStartTypes == ASSUME TInv, NEW p \in Procs, NEW n \in Names, NEW m \in Names, CloneStart(p, n, m) PROVE TInv'
<1> DEFINE r == [Idle EXCEPT !.pc = "clone_home", !.name = m, !.from = n]
<1>1. proc[p].pc = "idle"
  BY FreeOnes DEF CloneStart, Exists, PID, Running
<1>2. r \in Records /\ WellFormed(r)
  BY <1>1
<1>3. proc' = [proc EXCEPT ![p] = r]
  BY DEF CloneStart, Begin
<1>4. UNCHANGED <<dir, holder, home, intr, usr1>> /\ proc[p].pc \notin Served
  BY <1>1 DEF CloneStart
<1> HIDE DEF r
<1>5. QED BY <1>2, <1>3, <1>4, LocalStep

LEMMA ImportStartTypes == ASSUME TInv, NEW p \in Procs, NEW n \in Names, NEW mac \in MACs, ImportStart(p, n, mac) PROVE TInv'
<1> DEFINE r == [Idle EXCEPT !.pc = "import_home", !.name = n, !.mac = mac]
<1>1. proc[p].pc = "idle"
  BY FreeOnes DEF ImportStart, Exists, PID, Running
<1>2. r \in Records /\ WellFormed(r)
  BY <1>1
<1>3. proc' = [proc EXCEPT ![p] = r]
  BY DEF ImportStart, Begin
<1>4. UNCHANGED <<dir, holder, home, intr, usr1>> /\ proc[p].pc \notin Served
  BY <1>1 DEF ImportStart
<1> HIDE DEF r
<1>5. QED BY <1>2, <1>3, <1>4, LocalStep

LEMMA RenameStartTypes == ASSUME TInv, NEW p \in Procs, NEW n \in Names, NEW m \in Names, RenameStart(p, n, m) PROVE TInv'
<1> DEFINE r == [Idle EXCEPT !.pc = "rename_remove", !.name = m, !.from = n]
<1>1. proc[p].pc = "idle"
  BY FreeOnes DEF RenameStart, Exists, PID, Running
<1>2. r \in Records /\ WellFormed(r)
  BY <1>1
<1>3. proc' = [proc EXCEPT ![p] = r]
  BY DEF RenameStart, Begin
<1>4. UNCHANGED <<dir, holder, home, intr, usr1>> /\ proc[p].pc \notin Served
  BY <1>1 DEF RenameStart
<1> HIDE DEF r
<1>5. QED BY <1>2, <1>3, <1>4, LocalStep

LEMMA StopsTypes == ASSUME TInv, NEW p \in Procs, Stops(p) PROVE TInv'
BY ExitTypes DEF Stops

LEMMA RunCheckMACTypes == ASSUME TInv, NEW p \in Procs, RunCheckMAC(p) PROVE TInv'
<1> DEFINE n == proc[p].name
           new == [dir[n] EXCEPT !.ino = AnyOne(FreeInodes), !.mac = AnyOne(FreeMACs), !.state = FALSE]
<1>1. n \in Names /\ dir[n] \in VMs /\ proc[p].pc = "run_check"
  BY DEF RunCheckMAC, Exists
<1>2. RegenerateMACAddress(n) => new \in VMs
  BY <1>1, FreeOnes DEF RegenerateMACAddress
<1>3. RegenerateMACAddress(n) => dir' = [dir EXCEPT ![n] = new]
  BY DEF RegenerateMACAddress
<1>4. dir' \in [Names -> VMs \cup {NoVM}]
  <2> HIDE DEF new
  <2>1. QED BY <1>1, <1>2, <1>3 DEF RunCheckMAC
<1>5. UNCHANGED <<holder, home, intr, usr1>> /\ proc' = [proc EXCEPT ![p].pc = "run_build"]
  BY DEF RunCheckMAC, Goto
<1>6. QED BY <1>1, <1>4, <1>5

LEMMA CloneCopyTypes == ASSUME TInv, NEW p \in Procs, CloneCopy(p) PROVE TInv'
<1> DEFINE With(mac, state) == [proc[p] EXCEPT !.pc = "move_remove", !.mac = mac, !.state = state]
<1>1. /\ proc[p] \in Records /\ proc[p].pc = "clone_copy" /\ proc[p].name \in Names /\ dir[proc[p].from] \in VMs
      /\ UNCHANGED <<dir, holder, home, intr, usr1>>
  BY DEF CloneCopy, Exists
<1>2. PICK mac \in MACs, state \in BOOLEAN : proc' = [proc EXCEPT ![p] = With(mac, state)]
  BY <1>1, FreeOnes DEF CloneCopy
<1>3. With(mac, state) \in Records /\ WellFormed(With(mac, state))
  BY <1>1
<1> HIDE DEF With
<1>4. QED BY <1>1, <1>2, <1>3, LocalStep

LEMMA ImportCheckMACTypes == ASSUME TInv, NEW p \in Procs, ImportCheckMAC(p) PROVE TInv'
<1> DEFINE r == [proc[p] EXCEPT !.pc = "move_remove", !.mac = AnyOne(FreeMACs)]
<1>1. /\ proc[p].pc = "import_check" /\ proc[p] \in Records /\ proc[p].name \in Names /\ proc[p].mac \in MACs
      /\ UNCHANGED <<dir, holder, home, intr, usr1>>
  BY DEF ImportCheckMAC
<1>2. CASE Goto(p, "move_remove")
  BY <1>1, <1>2 DEF Goto
<1>3. CASE FreeMACs # {} /\ proc' = [proc EXCEPT ![p] = r]
  <2>1. AnyOne(FreeMACs) \in MACs
    BY <1>3, FreeOnes
  <2>2. r \in Records /\ WellFormed(r)
    BY <1>1, <2>1
  <2> HIDE DEF r
  <2>3. QED BY <1>1, <1>3, <2>2, LocalStep
<1>4. QED BY <1>2, <1>3 DEF ImportCheckMAC

LEMMA StopStartTypes == ASSUME TInv, NEW p \in Procs, NEW n \in Names, StopStart(p, n) PROVE TInv'
<1> DEFINE r(pc) == [Idle EXCEPT !.pc = pc, !.name = n]
<1>1. PICK pc \in {"stop_find", "stop_suspended"} : proc' = [proc EXCEPT ![p] = r(pc)]
  BY DEF StopStart, Begin
<1>2. r(pc) \in Records /\ WellFormed(r(pc))
  OBVIOUS
<1>3. UNCHANGED <<dir, holder, home, intr, usr1>> /\ proc[p].pc = "idle"
  BY DEF StopStart
<1> HIDE DEF r
<1>4. QED BY <1>1, <1>2, <1>3, LocalStep

LEMMA SetLoadTypes == ASSUME TInv, NEW p \in Procs, NEW n \in Names, SetLoad(p, n) PROVE TInv'
<1> DEFINE r(mac) == [Idle EXCEPT !.pc = "set_save", !.name = n, !.mac = mac]
<1>1. UNCHANGED <<dir, holder, home, intr, usr1>> /\ proc[p].pc = "idle" /\ dir[n].mac \in MACs
  BY DEF SetLoad, Exists
<1>2. PICK mac \in MACs : proc' = [proc EXCEPT ![p] = r(mac)]
  BY <1>1, FreeOnes DEF SetLoad
<1>3. r(mac) \in Records /\ WellFormed(r(mac))
  OBVIOUS
<1> HIDE DEF r
<1>4. QED BY <1>1, <1>2, <1>3, LocalStep

LEMMA SuspendSignalTypes == ASSUME TInv, NEW p \in Procs, SuspendSignal(p) PROVE TInv'
BY DEF SuspendSignal

LEMMA SuspendSaveTypes == ASSUME TInv, NEW p \in Procs, SuspendSave(p) PROVE TInv'
<1>1. CASE Exists(proc[p].name)
  <2>1. proc[p].name \in Names /\ dir[proc[p].name] \in VMs
    BY <1>1 DEF SuspendSave, Exists
  <2>2. [dir[proc[p].name] EXCEPT !.state = TRUE] \in VMs
    BY <2>1
  <2>3. dir' \in [Names -> VMs \cup {NoVM}]
    BY <1>1, <2>1, <2>2 DEF SuspendSave
  <2>4. QED BY <2>3, ExitTypes DEF SuspendSave
<1>2. CASE ~Exists(proc[p].name)
  BY <1>2, ExitTypes DEF SuspendSave
<1>3. QED BY <1>1, <1>2

LEMMA StopSuspendedTypes == ASSUME TInv, NEW p \in Procs, StopSuspended(p) PROVE TInv'
<1>1. dir' \in [Names -> VMs \cup {NoVM}]
  BY StateDroppedTyped DEF StopSuspended
<1>2. QED BY <1>1, ExitTypes DEF StopSuspended

LEMMA DeleteRemoveTypes == ASSUME TInv, NEW p \in Procs, DeleteRemove(p) PROVE TInv'
<1>1. dir' \in [Names -> VMs \cup {NoVM}]
  BY DEF DeleteRemove
<1>2. QED BY <1>1, ExitTypes DEF DeleteRemove

LEMMA MoveRenameTypes == ASSUME TInv, NEW p \in Procs, MoveRename(p) PROVE TInv'
<1>1. proc[p].mac \in MACs /\ proc[p].state \in BOOLEAN /\ AnyOne(FreeInodes) \in Inodes /\ AnyOne(FreeDisks) \in Disks
  BY FreeOnes DEF MoveRename
<1>2. dir' \in [Names -> VMs \cup {NoVM}]
  BY <1>1 DEF MoveRename
<1>3. QED BY <1>2, ExitTypes DEF MoveRename

LEMMA RenameRenameTypes == ASSUME TInv, NEW p \in Procs, RenameRename(p) PROVE TInv'
<1>1. proc[p].name \in Names /\ proc[p].from \in Names
  BY DEF RenameRename
<1>2. dir' \in [Names -> VMs \cup {NoVM}]
  BY <1>1 DEF RenameRename
<1>3. QED BY <1>2, ExitTypes DEF RenameRename

LEMMA SetSaveTypes == ASSUME TInv, NEW p \in Procs, SetSave(p) PROVE TInv'
<1> DEFINE n == proc[p].name
           new == [dir[n] EXCEPT !.ino = AnyOne(FreeInodes), !.mac = proc[p].mac]
<1>1. /\ proc[p].pc = "set_save" /\ n \in Names /\ dir[n] \in VMs
      /\ AnyOne(FreeInodes) \in Inodes /\ proc[p].mac \in MACs
  BY FreeOnes DEF SetSave, Exists
<1>2. new \in VMs
  BY <1>1
<1>3. dir' = [dir EXCEPT ![n] = new]
  BY DEF SetSave
<1>4. dir' \in [Names -> VMs \cup {NoVM}]
  <2> HIDE DEF new
  <2>1. QED BY <1>1, <1>2, <1>3
<1>5. CASE Exit({p})
  BY <1>4, <1>5, ExitTypes
<1>6. CASE Goto(p, "set_disk") /\ UNCHANGED <<holder, home, intr, usr1>>
  BY <1>1, <1>4, <1>6 DEF Goto
<1>7. QED BY <1>5, <1>6 DEF SetSave

LEMMA SetDiskTypes == ASSUME TInv, NEW p \in Procs, SetDisk(p) PROVE TInv'
<1>1. proc[p].name \in Names /\ dir[proc[p].name] \in VMs /\ AnyOne(FreeDisks) \in Disks
  BY FreeOnes DEF SetDisk, Exists
<1>2. dir' \in [Names -> VMs \cup {NoVM}]
  BY <1>1 DEF SetDisk
<1>3. QED BY <1>2, ExitTypes DEF SetDisk

LEMMA TInvInit == Init => TInv
BY DEF Init

LEMMA TInvNext == TInv /\ [Next]_vars => TInv'
<1> SUFFICES ASSUME TInv, [Next]_vars PROVE TInv'
  OBVIOUS
<1> HIDE DEF TInv
<1>1. CASE UNCHANGED vars
  BY <1>1 DEF vars, TInv
<1>2. ASSUME NEW p \in Procs, Run(p) PROVE TInv'
  BY <1>2, RunStartTypes, RunHomeTypes, RunCheckMACTypes, RunBuildTypes, RunOpenLockTypes, StopsTypes,
     RunTrylockTypes, RunUnlockHomeTypes, RunBootTypes, SuspendRefusedTypes, RunSuspendTypes,
     SuspendSaveTypes, PersistTypes
     DEF Run, RunMissing, RunAlreadyRunning, RunBootFails, GuestEnds, RunInterrupted
<1>3. ASSUME NEW p \in Procs, Stop(p) PROVE TInv'
  BY <1>3, StopStartTypes, StopSuspendedTypes, StopFindTypes, StopsTypes, StopSignalTypes, StopPollTypes,
     ExitTypes, SuspendStartTypes, SuspendSignalTypes, TInvDir
     DEF Stop, StopNotRunning, StopOk, StopTimeout, SuspendKills
<1>4. ASSUME NEW p \in Procs, Change(p) PROVE TInv'
  <2>1. CASE \E n, m \in Names : DeleteOpen(p, n) \/ CloneStart(p, n, m) \/ CreateStart(p, n)
                                 \/ RenameStart(p, n, m) \/ SetLoad(p, n)
    BY <2>1, DeleteOpenTypes, CloneStartTypes, CreateStartTypes, RenameStartTypes, SetLoadTypes
  <2>2. CASE \E n \in Names, mac \in MACs : ImportStart(p, n, mac)
    BY <2>2, ImportStartTypes
  <2>3. CASE DeleteTrylock(p) \/ DeleteRemove(p) \/ CloneHome(p) \/ CloneCopy(p) \/ ImportHome(p)
             \/ ImportCheckMAC(p)
    BY <2>3, DeleteTrylockTypes, DeleteRemoveTypes, CloneHomeTypes, CloneCopyTypes, ImportHomeTypes,
       ImportCheckMACTypes
  <2>4. CASE MoveRemove(p) \/ MoveRename(p) \/ RenameRemove(p) \/ RenameRename(p) \/ SetSave(p) \/ SetDisk(p)
    BY <2>4, MoveRemoveTypes, MoveRenameTypes, RenameRemoveTypes, RenameRenameTypes, SetSaveTypes, SetDiskTypes
  <2>5. CASE DeleteRunning(p) \/ CloneMissing(p) \/ MoveFails(p) \/ RenameFails(p) \/ SetMissing(p)
    BY <2>5, StopsTypes DEF DeleteRunning, CloneMissing, MoveFails, RenameFails, SetMissing
  <2>6. QED BY <1>4, <2>1, <2>2, <2>3, <2>4, <2>5 DEF Change
<1>5. ASSUME NEW p \in Procs, Kill(p) PROVE TInv'
  BY <1>5, StopsTypes DEF Kill
<1>6. QED BY <1>1, <1>2, <1>3, <1>4, <1>5 DEF Next

(* Every command keeps the types: what a process knows at each step, and    *)
(* that signals wait only for runs that serve them.                         *)
THEOREM TypeCorrect == Spec => []TypeOK
<1> HIDE DEF TInv, TypeOK, Formed
<1>1. TInv => TypeOK
  BY DEF TInv
<1>2. QED BY <1>1, TInvInit, TInvNext, PTL DEF Spec

-----------------------------------------------------------------------------
(* Histories of the commands that are safe together *)

HIDE DEF TInv, TypeOK, Formed, WellFormed, Records, VMs, NoVM, Idle, Steps, Guarded, Attached, Opened, Locked,
         Served, Driving, Checking, Moving

SInv == OnlySafe /\ HomeOwned /\ LocksOwned /\ NamesShareNothing /\ Bound /\ Prepared /\ ConfiguredMACsDistinct

(* Processes that end leave less locked; names keep their VMs. *)
LEMMA ExitKeeps ==
    ASSUME TInv, SInv, NEW S, Exit(S),
           \A n \in Names : dir'[n].ino = dir[n].ino /\ dir'[n].disk = dir[n].disk /\ dir'[n].mac = dir[n].mac
    PROVE  SInv'
<1> USE DEF SInv
<1>1. \A q \in Procs : IF q \in S THEN proc'[q] = Idle
                       ELSE /\ proc'[q].pc = proc[q].pc /\ proc'[q].name = proc[q].name
                            /\ proc'[q].disk = proc[q].disk /\ proc'[q].ino = proc[q].ino
  BY DEF Exit, TInv, TypeOK, Records
<1>2. \A i \in Inodes : holder'[i] # None => holder'[i] = holder[i] /\ holder[i] \notin S
  BY DEF Exit
<1>3. Idle.pc = "idle"
  BY DEF Idle
<1>4. \A n \in Names : Running(n)' => Running(n)
  BY <1>2 DEF Running, PID, TInv, TypeOK, VMs, NoVM
<1>5. OnlySafe'
  BY <1>1, <1>3 DEF OnlySafe
<1>6. HomeOwned'
  BY <1>1, <1>3 DEF HomeOwned, Exit, Guarded, Checking, Moving
<1>7. LocksOwned'
  BY <1>1, <1>3, <1>2 DEF LocksOwned, Exit, Locked, Served, Driving
<1>8. NamesShareNothing'
  BY DEF NamesShareNothing, Exists
<1>9. Bound'
  <2>1. \A q \in Procs : proc'[q].pc \in Opened => /\ q \notin S /\ proc[q].pc \in Opened
                                                   /\ proc'[q].disk = proc[q].disk /\ proc'[q].ino = proc[q].ino
    BY <1>1, <1>3 DEF Opened, Locked, Served, Driving
  <2>2. QED BY <2>1 DEF Bound, Exists
<1>10. Prepared'
  <2>1. \A q \in Procs : proc'[q].pc \in {"run_build", "run_open", "run_trylock"} =>
            /\ proc'[q].pc = proc[q].pc /\ proc'[q].name = proc[q].name /\ proc[q].name \in Names
            /\ proc'[q].disk = proc[q].disk /\ proc'[q].ino = proc[q].ino
    BY <1>1, <1>3 DEF TInv, Formed, WellFormed
  <2>2. \A n \in Names : SameMACRuns(n)' => SameMACRuns(n)
    BY <1>4 DEF SameMACRuns
  <2>3. QED BY <2>1, <2>2 DEF Prepared, Exists
<1>11. ConfiguredMACsDistinct'
  BY <1>4 DEF ConfiguredMACsDistinct
<1>12. QED BY <1>5, <1>6, <1>7, <1>8, <1>9, <1>10, <1>11

(* A step of a process that neither is nor becomes a run with a disk.       *)
LEMMA QuietStep ==
    ASSUME TInv, SInv, NEW p \in Procs, NEW r \in Records, proc' = [proc EXCEPT ![p] = r],
           UNCHANGED <<dir, holder, home>>,
           proc[p].pc \notin Attached \cup {"run_build"}, r.pc \notin Attached \cup {"run_build"},
           proc[p].pc \in Guarded <=> r.pc \in Guarded,
           r.pc \notin {"delete_trylock", "delete_remove", "rename_remove", "rename_rename", "set_save", "set_disk"}
    PROVE  SInv'
<1> USE DEF SInv
<1>1. \A q \in Procs : proc'[q] = IF q = p THEN r ELSE proc[q]
  BY DEF TInv, TypeOK
<1>2. \A n \in Names : (Running(n)' <=> Running(n)) /\ (SameMACRuns(n)' <=> SameMACRuns(n)) /\ (Exists(n)' <=> Exists(n))
  BY DEF Running, PID, SameMACRuns, Exists
<1>3. OnlySafe'
  BY <1>1 DEF OnlySafe
<1>4. HomeOwned'
  BY <1>1 DEF HomeOwned
<1>5. LocksOwned'
  BY <1>1 DEF LocksOwned, Attached, Opened
<1>6. NamesShareNothing'
  BY DEF NamesShareNothing, Exists
<1>7. Bound'
  BY <1>1 DEF Bound, Attached, Exists
<1>8. Prepared'
  <2>1. \A q \in Procs : proc'[q].pc \in {"run_build", "run_open", "run_trylock"} =>
            proc'[q] = proc[q] /\ proc[q].name \in Names
    BY <1>1 DEF TInv, Formed, WellFormed, Attached, Opened
  <2>2. QED BY <2>1, <1>2 DEF Prepared
<1>9. ConfiguredMACsDistinct'
  BY <1>2 DEF ConfiguredMACsDistinct
<1>10. QED BY <1>3, <1>4, <1>5, <1>6, <1>7, <1>8, <1>9

LEMMA StopsKeeps == ASSUME TInv, SInv, NEW p \in Procs, Stops(p) PROVE SInv'
BY ExitKeeps DEF Stops

LEMMA ExitsKeep == ASSUME TInv, SInv, NEW S, Exit(S), UNCHANGED dir PROVE SInv'
BY ExitKeeps

(* A process takes the flock and goes to a guarded step. *)
LEMMA HomeTaken ==
    ASSUME TInv, SInv, NEW p \in Procs, NEW pc \in {"run_check", "clone_copy", "import_check"},
           proc[p].pc \in {"run_home", "clone_home", "import_home"}, home = None, home' = p, Goto(p, pc),
           UNCHANGED <<dir, holder, intr, usr1>>
    PROVE  SInv'
<1> USE DEF SInv
<1>1. \A q \in Procs : IF q = p THEN proc'[q].pc = pc ELSE proc'[q] = proc[q]
  BY DEF Goto, TInv, TypeOK, Records
<1>2. \A n \in Names : (Running(n)' <=> Running(n)) /\ (SameMACRuns(n)' <=> SameMACRuns(n)) /\ (Exists(n)' <=> Exists(n))
  BY DEF Running, PID, SameMACRuns, Exists
<1>3. OnlySafe'
  BY <1>1 DEF OnlySafe
<1>4. HomeOwned'
  BY <1>1 DEF HomeOwned, Guarded, Checking
<1>5. LocksOwned'
  BY <1>1 DEF LocksOwned, Locked, Served, Driving
<1>6. NamesShareNothing'
  BY DEF NamesShareNothing, Exists
<1>7. Bound'
  BY <1>1 DEF Bound, Opened, Locked, Served, Driving, Exists
<1>8. Prepared'
  <2>1. \A q \in Procs : proc'[q].pc \in {"run_build", "run_open", "run_trylock"} =>
            proc'[q] = proc[q] /\ proc[q].name \in Names
    BY <1>1 DEF TInv, Formed, WellFormed, Attached, Opened
  <2>2. QED BY <2>1, <1>2 DEF Prepared
<1>9. ConfiguredMACsDistinct'
  BY <1>2 DEF ConfiguredMACsDistinct
<1>10. QED BY <1>3, <1>4, <1>5, <1>6, <1>7, <1>8, <1>9

(* Whoever is at a guarded step is alone there. *)
LEMMA AloneAtHome ==
    ASSUME SInv, NEW p \in Procs, NEW q \in Procs, proc[p].pc \in Guarded, proc[q].pc \in Guarded
    PROVE  p = q
BY DEF SInv, HomeOwned

(* A VM that shares its address with one that runs does not run itself: its *)
(* config.json can be replaced, and no machine has its disk.                *)
LEMMA RunCheckMACKeeps == ASSUME TInv, SInv, TInv', NEW p \in Procs, RunCheckMAC(p) PROVE SInv'
<1> USE DEF SInv
<1>n. PICK n \in Names : n = proc[p].name
  BY DEF RunCheckMAC, TInv, Formed, WellFormed
<1>1. /\ n \in Names /\ proc[p].name = n /\ proc[p].pc = "run_check" /\ Exists(n)
      /\ UNCHANGED <<holder, home>>
  BY <1>n DEF RunCheckMAC
<1>2. \A q \in Procs : IF q = p THEN /\ proc'[q].pc = "run_build" /\ proc'[q].name = n
                       ELSE proc'[q] = proc[q]
  BY <1>1 DEF RunCheckMAC, Goto, TInv, TypeOK, Records
<1>3. \A q \in Procs : q # p => proc[q].pc \notin Guarded
  BY <1>1, AloneAtHome DEF Guarded, Checking
<1>4. \A m \in Names : m # n => dir'[m] = dir[m]
  BY <1>1 DEF RunCheckMAC, RegenerateMACAddress, TInv, TypeOK
<1>5. CASE SameMACRuns(n)
  <2> DEFINE i == AnyOne(FreeInodes)
             mac == AnyOne(FreeMACs)
  <2>1. /\ i \in FreeInodes /\ mac \in FreeMACs
        /\ dir' = [dir EXCEPT ![n] = [@ EXCEPT !.ino = i, !.mac = mac, !.state = FALSE]]
    BY <1>1, <1>5, FreeOnes DEF RunCheckMAC, RegenerateMACAddress
  <2>2. dir[n] \in VMs
    BY <1>1 DEF Exists, TInv, TypeOK, NoVM
  <2>3. dir'[n].ino = i /\ dir'[n].mac = mac /\ dir'[n].disk = dir[n].disk
    BY <1>1, <2>1, <2>2 DEF TInv, TypeOK, VMs
  <2>4. /\ i \in Inodes /\ mac \in MACs
        /\ \A m \in Names : dir[m].ino # i /\ dir[m].mac # mac
        /\ \A q \in Procs : proc[q].ino # i
    BY <2>1 DEF FreeInodes, FreeMACs
  <2> HIDE DEF i, mac
  <2>5. holder[i] = None
    BY <2>4 DEF LocksOwned, TInv, TypeOK
  <2>6. ~Running(n)
    BY <1>1, <1>5 DEF SameMACRuns, ConfiguredMACsDistinct
  <2>7. \A q \in Procs : proc[q].pc \in Opened => proc[q].disk # dir[n].disk
    <3> SUFFICES ASSUME NEW q \in Procs, proc[q].pc \in Opened, proc[q].disk = dir[n].disk PROVE FALSE
      OBVIOUS
    <3>1. proc[q].ino = dir[n].ino
      BY <1>1 DEF Bound
    <3>2. proc[q].pc \in Locked
      BY <1>1, <1>3 DEF Opened, Guarded, Checking
    <3>3. holder[dir[n].ino] = q
      BY <2>2, <3>1, <3>2 DEF LocksOwned, VMs
    <3>4. QED BY <2>6, <3>3, <2>2 DEF Running, PID, TInv, TypeOK, VMs
  <2>8. ~Running(n)' /\ Exists(n)'
    BY <2>3, <2>4, <2>5, <1>1 DEF Running, PID, Exists
  <2>9. \A m \in Names : m # n => (Running(m)' <=> Running(m)) /\ (Exists(m)' <=> Exists(m))
    BY <1>4, <1>1 DEF Running, PID, Exists
  <2>10. NamesShareNothing'
    BY <1>4, <2>3, <2>4, <1>1 DEF NamesShareNothing, Exists
  <2>11. Bound'
    <3>1. \A q \in Procs : proc'[q].pc \in Opened => q # p /\ proc'[q] = proc[q] /\ proc[q].pc \in Opened
      BY <1>2 DEF Opened, Locked, Served, Driving
    <3>2. QED BY <3>1, <1>4, <2>3, <2>4, <2>7, <2>9 DEF Bound, Exists
  <2>12. ~SameMACRuns(n)'
    BY <1>4, <2>3, <2>4 DEF SameMACRuns
  <2>13. ConfiguredMACsDistinct'
    BY <2>8, <2>9, <1>4 DEF ConfiguredMACsDistinct
  <2>14. QED BY <2>8, <2>10, <2>11, <2>12, <2>13, <1>1, <1>2, <1>3
         DEF OnlySafe, HomeOwned, LocksOwned, Prepared, Guarded, Checking, Locked, Served, Driving
<1>6. CASE ~SameMACRuns(n)
  <2>1. UNCHANGED dir
    BY <1>1, <1>6 DEF RunCheckMAC
  <2>2. \A m \in Names : (Running(m)' <=> Running(m)) /\ (SameMACRuns(m)' <=> SameMACRuns(m)) /\ (Exists(m)' <=> Exists(m))
    BY <1>1, <2>1 DEF Running, PID, SameMACRuns, Exists
  <2>3. Bound'
    BY <1>2, <2>1 DEF Bound, Opened, Locked, Served, Driving, Exists
  <2>4. NamesShareNothing' /\ ConfiguredMACsDistinct'
    BY <2>1, <2>2 DEF NamesShareNothing, ConfiguredMACsDistinct
  <2>5. QED BY <1>1, <1>2, <1>3, <1>6, <2>2, <2>3, <2>4
        DEF OnlySafe, HomeOwned, LocksOwned, Prepared, Guarded, Checking, Locked, Served, Driving
<1>7. QED BY <1>5, <1>6

(* A run opens the disk, then config.json, of the name it holds the home    *)
(* for.                                                                     *)
LEMMA RunBuildKeeps == ASSUME TInv, SInv, NEW p \in Procs, RunBuild(p) PROVE SInv'
<1> USE DEF SInv
<1>1. /\ proc[p].pc = "run_build" /\ proc[p].name \in Names
      /\ UNCHANGED <<dir, holder, home>>
  BY DEF RunBuild, TInv, Formed, WellFormed
<1>2. \A q \in Procs : IF q = p THEN /\ proc'[q].pc = "run_open" /\ proc'[q].name = proc[q].name
                                     /\ proc'[q].disk = dir[proc[q].name].disk
                       ELSE proc'[q] = proc[q]
  BY DEF RunBuild, TInv, TypeOK, Records
<1>3. \A n \in Names : (Running(n)' <=> Running(n)) /\ (SameMACRuns(n)' <=> SameMACRuns(n)) /\ (Exists(n)' <=> Exists(n))
  BY <1>1 DEF Running, PID, SameMACRuns, Exists
<1>4. NamesShareNothing' /\ ConfiguredMACsDistinct'
  BY <1>1, <1>3 DEF NamesShareNothing, ConfiguredMACsDistinct
<1>5. OnlySafe' /\ HomeOwned' /\ LocksOwned'
  BY <1>1, <1>2 DEF OnlySafe, HomeOwned, LocksOwned, Guarded, Checking, Locked, Served, Driving
<1>6. Bound'
  BY <1>1, <1>2 DEF Bound, Opened, Locked, Served, Driving, Exists
<1>7. Prepared'
  <2>1. \A q \in Procs : proc[q].pc \in {"run_build", "run_open", "run_trylock"} => proc[q].name \in Names
    BY DEF TInv, Formed, WellFormed
  <2>2. QED BY <1>1, <1>2, <1>3, <2>1 DEF Prepared
<1>8. QED BY <1>4, <1>5, <1>6, <1>7

LEMMA RunOpenLockKeeps == ASSUME TInv, SInv, NEW p \in Procs, RunOpenLock(p) PROVE SInv'
<1> USE DEF SInv
<1>1. /\ proc[p].pc = "run_open" /\ proc[p].name \in Names /\ Exists(proc[p].name)
      /\ proc[p].disk = dir[proc[p].name].disk
      /\ UNCHANGED <<dir, holder, home>>
  BY DEF RunOpenLock, TInv, Formed, WellFormed, Prepared
<1>2. \A q \in Procs : IF q = p THEN /\ proc'[q].pc = "run_trylock" /\ proc'[q].name = proc[q].name
                                     /\ proc'[q].disk = proc[q].disk
                                     /\ proc'[q].ino = dir[proc[q].name].ino
                       ELSE proc'[q] = proc[q]
  BY DEF RunOpenLock, TInv, TypeOK, Records
<1>3. \A n \in Names : (Running(n)' <=> Running(n)) /\ (SameMACRuns(n)' <=> SameMACRuns(n)) /\ (Exists(n)' <=> Exists(n))
  BY <1>1 DEF Running, PID, SameMACRuns, Exists
<1>4. NamesShareNothing' /\ ConfiguredMACsDistinct'
  BY <1>1, <1>3 DEF NamesShareNothing, ConfiguredMACsDistinct
<1>5. OnlySafe' /\ HomeOwned' /\ LocksOwned'
  BY <1>1, <1>2 DEF OnlySafe, HomeOwned, LocksOwned, Guarded, Checking, Locked, Served, Driving
<1>6. Bound'
  <2>1. \A n \in Names : Exists(n) => (dir[n].disk = proc[p].disk <=> dir[n].ino = dir[proc[p].name].ino)
    BY <1>1 DEF NamesShareNothing
  <2>2. \A q \in Procs : q # p /\ proc[q].pc \in Opened =>
            (proc[q].disk = proc[p].disk <=> proc[q].ino = dir[proc[p].name].ino)
    BY <1>1 DEF Bound
  <2>3. QED BY <1>1, <1>2, <2>1, <2>2 DEF Bound, Opened, Exists
<1>7. Prepared'
  <2>1. \A q \in Procs : proc[q].pc \in {"run_build", "run_open", "run_trylock"} => proc[q].name \in Names
    BY DEF TInv, Formed, WellFormed
  <2>2. QED BY <1>1, <1>2, <1>3, <2>1 DEF Prepared
<1>8. QED BY <1>4, <1>5, <1>6, <1>7

(* The lock makes the VM one that runs: its address is no other's.          *)
LEMMA RunTrylockKeeps == ASSUME TInv, SInv, NEW p \in Procs, RunTrylock(p) PROVE SInv'
<1> USE DEF SInv
<1>n. PICK n \in Names : n = proc[p].name
  BY DEF RunTrylock, TInv, Formed, WellFormed, Opened
<1>1. /\ proc[p].pc = "run_trylock" /\ proc[p].name = n /\ Exists(n) /\ ~SameMACRuns(n)
      /\ proc[p].ino = dir[n].ino /\ dir[n].ino \in Inodes /\ holder[dir[n].ino] = None
      /\ UNCHANGED <<dir, home>>
  BY <1>n DEF RunTrylock, TInv, TypeOK, VMs, NoVM, Prepared, Exists
<1>2. \A q \in Procs : IF q = p THEN /\ proc'[q].pc = "run_unlock" /\ proc'[q].name = n
                                     /\ proc'[q].disk = proc[q].disk /\ proc'[q].ino = proc[q].ino
                       ELSE proc'[q] = proc[q]
  BY <1>1 DEF RunTrylock, Goto, TInv, TypeOK, Records
<1>3. \A i \in Inodes : holder'[i] = IF i = dir[n].ino THEN p ELSE holder[i]
  BY <1>1 DEF RunTrylock, TInv, TypeOK
<1>4. \A m \in Names : m # n => (Running(m)' <=> Running(m))
  <2>1. \A m \in Names : m # n => dir[m].ino # dir[n].ino
    BY <1>1 DEF NamesShareNothing
  <2>2. QED BY <2>1, <1>1, <1>3 DEF Running, PID, TInv, TypeOK, VMs, NoVM
<1>5. \A q \in Procs : q # p => proc[q].pc \notin Guarded
  BY <1>1, AloneAtHome DEF Guarded, Checking
<1>6. OnlySafe' /\ HomeOwned' /\ NamesShareNothing'
  BY <1>1, <1>2 DEF OnlySafe, HomeOwned, NamesShareNothing, Guarded, Checking, Exists
<1>7. LocksOwned'
  <2>1. \A q \in Procs : q # p => ~(proc[q].pc \in Locked /\ proc[q].ino = dir[n].ino)
    BY <1>1 DEF LocksOwned
  <2>2. QED BY <2>1, <1>1, <1>2, <1>3 DEF LocksOwned, Locked, Served, Driving
<1>8. Bound'
  BY <1>1, <1>2 DEF Bound, Opened, Locked, Exists
<1>9. Prepared'
  BY <1>2, <1>5 DEF Prepared, Guarded, Checking
<1>10. ConfiguredMACsDistinct'
  <2>1. \A m \in Names : m # n /\ Running(m) => dir[m].mac # dir[n].mac
    BY <1>1 DEF SameMACRuns
  <2>2. QED BY <2>1, <1>1, <1>4 DEF ConfiguredMACsDistinct
<1>11. QED BY <1>6, <1>7, <1>8, <1>9, <1>10

(* A locked run goes on. *)
LEMMA LockedStep ==
    ASSUME TInv, SInv, NEW p \in Procs, NEW pc \in Served, proc[p].pc \in Locked, Goto(p, pc), UNCHANGED holder,
           \A n \in Names : dir'[n].ino = dir[n].ino /\ dir'[n].disk = dir[n].disk /\ dir'[n].mac = dir[n].mac,
           home' = IF home = p THEN None ELSE home
    PROVE  SInv'
<1> USE DEF SInv
<1>1. \A q \in Procs : IF q = p THEN /\ proc'[q].pc = pc /\ proc'[q].name = proc[q].name
                                     /\ proc'[q].disk = proc[q].disk /\ proc'[q].ino = proc[q].ino
                       ELSE proc'[q] = proc[q]
  BY DEF Goto, TInv, TypeOK, Records
<1>2. \A n \in Names : (Running(n)' <=> Running(n)) /\ (SameMACRuns(n)' <=> SameMACRuns(n)) /\ (Exists(n)' <=> Exists(n))
  BY DEF Running, PID, SameMACRuns, Exists
<1>3. NamesShareNothing' /\ ConfiguredMACsDistinct'
  BY <1>2 DEF NamesShareNothing, ConfiguredMACsDistinct
<1>4. OnlySafe' /\ HomeOwned'
  BY <1>1 DEF OnlySafe, HomeOwned, Guarded, Checking, Moving, Served, Driving
<1>5. LocksOwned'
  BY <1>1 DEF LocksOwned, Locked
<1>6. Bound'
  BY <1>1, <1>2 DEF Bound, Opened, Locked
<1>7. Prepared'
  <2>1. \A q \in Procs : proc'[q].pc \in {"run_build", "run_open", "run_trylock"} =>
            proc'[q] = proc[q] /\ proc[q].name \in Names
    BY <1>1 DEF TInv, Formed, WellFormed, Served, Driving
  <2>2. QED BY <2>1, <1>2 DEF Prepared
<1>8. QED BY <1>3, <1>4, <1>5, <1>6, <1>7

(* Nobody else prepares a run while a VM is moved, and what is moved to a   *)
(* name is new.                                                             *)
LEMMA MoveRemoveKeeps == ASSUME TInv, SInv, NEW p \in Procs, MoveRemove(p) PROVE SInv'
<1> USE DEF SInv
<1>n. PICK n \in Names : n = proc[p].name
  BY DEF MoveRemove, TInv, Formed, WellFormed
<1>1. /\ proc[p].pc = "move_remove" /\ dir' = [dir EXCEPT ![n] = NoVM] /\ UNCHANGED <<holder, home>>
  BY <1>n DEF MoveRemove
<1>2. \A q \in Procs : IF q = p THEN proc'[q].pc = "move_rename" ELSE proc'[q] = proc[q]
  BY DEF MoveRemove, Goto, TInv, TypeOK, Records
<1>3. \A q \in Procs : q # p => proc[q].pc \notin Guarded
  BY <1>1, AloneAtHome DEF Guarded, Moving
<1>4. /\ ~Exists(n)' /\ ~Running(n)' /\ dir'[n].ino = None /\ dir'[n].disk = None
      /\ \A m \in Names : m # n => dir'[m] = dir[m] /\ (Running(m)' <=> Running(m)) /\ (Exists(m)' <=> Exists(m))
  BY <1>1 DEF Running, PID, Exists, NoVM, TInv, TypeOK
<1>5. NamesShareNothing' /\ ConfiguredMACsDistinct'
  BY <1>4 DEF NamesShareNothing, ConfiguredMACsDistinct, Exists, TInv, TypeOK, VMs, NoVM
<1>6. OnlySafe' /\ HomeOwned' /\ LocksOwned' /\ Prepared'
  BY <1>1, <1>2, <1>3 DEF OnlySafe, HomeOwned, LocksOwned, Prepared, Guarded, Checking, Moving, Locked, Served, Driving
<1>7. Bound'
  BY <1>2, <1>4 DEF Bound, Opened, Locked, Served, Driving
<1>8. QED BY <1>5, <1>6, <1>7

LEMMA MoveRenameKeeps == ASSUME TInv, SInv, NEW p \in Procs, MoveRename(p) PROVE SInv'
<1> USE DEF SInv
<1> DEFINE i == AnyOne(FreeInodes)
           d == AnyOne(FreeDisks)
<1>n. PICK n \in Names : n = proc[p].name
  BY DEF MoveRename, TInv, Formed, WellFormed, Moving
<1> DEFINE new == [ino |-> i, disk |-> d, mac |-> proc[p].mac, state |-> proc[p].state]
<1>0. dir' = [dir EXCEPT ![n] = new] /\ new.ino = i /\ new.disk = d
  BY <1>n DEF MoveRename
<1> HIDE DEF new
<1>1. proc[p].pc = "move_rename" /\ Exit({p}) /\ i \in FreeInodes /\ d \in FreeDisks
  BY FreeOnes DEF MoveRename
<1>2. /\ i \in Inodes /\ d \in Disks
      /\ \A m \in Names : dir[m].ino # i /\ dir[m].disk # d
      /\ \A q \in Procs : proc[q].ino # i /\ proc[q].disk # d
  BY <1>1 DEF FreeInodes, FreeDisks
<1> HIDE DEF i, d
<1>3. \A q \in Procs : IF q = p THEN proc'[q].pc = "idle"
                       ELSE /\ proc'[q].pc = proc[q].pc /\ proc'[q].name = proc[q].name
                            /\ proc'[q].disk = proc[q].disk /\ proc'[q].ino = proc[q].ino
  BY <1>1 DEF Exit, Idle, TInv, TypeOK, Records
<1>4. \A q \in Procs : q # p => proc[q].pc \notin Guarded
  BY <1>1, AloneAtHome DEF Guarded, Moving
<1>5. \A j \in Inodes : holder[j] # p
  BY <1>1 DEF LocksOwned, Locked, Served, Driving
<1>6. \A j \in Inodes : holder'[j] = holder[j]
  BY <1>1, <1>5 DEF Exit
<1>7. holder[i] = None
  BY <1>2 DEF LocksOwned, TInv, TypeOK
<1>8. /\ dir'[n].ino = i /\ dir'[n].disk = d /\ ~Running(n)' /\ Exists(n)'
      /\ \A m \in Names : m # n => dir'[m] = dir[m] /\ (Running(m)' <=> Running(m)) /\ (Exists(m)' <=> Exists(m))
  BY <1>0, <1>2, <1>6, <1>7 DEF Running, PID, Exists, TInv, TypeOK, VMs, NoVM
<1>9. NamesShareNothing' /\ ConfiguredMACsDistinct'
  BY <1>2, <1>8 DEF NamesShareNothing, ConfiguredMACsDistinct, Exists
<1>10. OnlySafe' /\ Prepared'
  BY <1>3, <1>4 DEF OnlySafe, Prepared, Guarded, Checking
<1>11. HomeOwned'
  BY <1>1, <1>3 DEF HomeOwned, Exit, Guarded, Checking, Moving
<1>12. LocksOwned'
  BY <1>1, <1>3, <1>6 DEF LocksOwned, Locked, Served, Driving
<1>13. Bound'
  <2>1. \A q \in Procs : proc'[q].pc \in Opened =>
            proc[q].pc \in Opened /\ proc'[q].disk = proc[q].disk /\ proc'[q].ino = proc[q].ino
    BY <1>3 DEF Opened, Locked, Served, Driving
  <2>2. QED BY <2>1, <1>2, <1>8 DEF Bound
<1>14. QED BY <1>9, <1>10, <1>11, <1>12, <1>13

LEMMA StateOnly ==
    ASSUME TInv, NEW n \in Names, dir' = StateDropped(n) \/ (\E s \in BOOLEAN : dir' = [dir EXCEPT ![n].state = s])
    PROVE  \A m \in Names : dir'[m].ino = dir[m].ino /\ dir'[m].disk = dir[m].disk /\ dir'[m].mac = dir[m].mac
BY DEF StateDropped, TInv, TypeOK, VMs, NoVM

LEMMA SuspendSaveKeeps == ASSUME TInv, SInv, NEW p \in Procs, SuspendSave(p) PROVE SInv'
<1>1. proc[p].name \in Names /\ Exit({p})
  BY DEF SuspendSave, TInv, Formed, WellFormed
<1>2. CASE UNCHANGED dir
  BY <1>1, <1>2, ExitsKeep
<1>3. CASE dir' = [dir EXCEPT ![proc[p].name].state = TRUE]
  BY <1>1, <1>3, StateOnly, ExitKeeps
<1>4. QED BY <1>2, <1>3 DEF SuspendSave

LEMMA StopSuspendedKeeps == ASSUME TInv, SInv, NEW p \in Procs, StopSuspended(p) PROVE SInv'
<1>1. proc[p].name \in Names /\ Exit({p}) /\ dir' = StateDropped(proc[p].name)
  BY DEF StopSuspended, TInv, Formed, WellFormed
<1>2. QED BY <1>1, StateOnly, ExitKeeps

LEMMA RunKeeps == ASSUME TInv, SInv, TInv', NEW p \in Procs, SafeOps, Run(p) PROVE SInv'
<1>1. CASE \E n \in Names : RunStart(p, n)
  <2>1. proc[p].pc = "idle" /\ proc'[p].pc = "run_home" /\ proc' = [proc EXCEPT ![p] = proc'[p]]
        /\ proc'[p] \in Records /\ UNCHANGED <<dir, holder, home>>
    BY <1>1 DEF RunStart, Begin, Idle, TInv, TypeOK
  <2>2. QED BY <2>1, QuietStep DEF Attached, Opened, Locked, Served, Driving, Guarded, Checking, Moving
<1>2. CASE RunHome(p)
  BY <1>2, HomeTaken DEF RunHome
<1>3. CASE RunCheckMAC(p) \/ RunBuild(p) \/ RunOpenLock(p) \/ RunTrylock(p)
  BY <1>3, RunCheckMACKeeps, RunBuildKeeps, RunOpenLockKeeps, RunTrylockKeeps
<1>4. CASE RunMissing(p) \/ RunAlreadyRunning(p) \/ RunBootFails(p) \/ GuestEnds(p) \/ RunInterrupted(p)
  BY <1>4, StopsKeeps DEF RunMissing, RunAlreadyRunning, RunBootFails, GuestEnds, RunInterrupted
<1>5. CASE RunUnlockHome(p)
  BY <1>5, LockedStep DEF RunUnlockHome, Locked, Served
<1>6. CASE RunBoot(p)
  <2>1. proc[p].pc = "run_boot" /\ proc[p].name \in Names /\ home # p /\ UNCHANGED <<holder, home>>
        /\ dir' = StateDropped(proc[p].name) /\ Goto(p, "live")
    BY <1>6 DEF RunBoot, TInv, Formed, WellFormed, SInv, HomeOwned, Guarded, Checking, Moving
  <2>2. QED BY <2>1, StateOnly, LockedStep DEF Locked, Served, Driving
<1>7. CASE RunSuspend(p)
  <2>1. proc[p].pc = "live" /\ home # p /\ UNCHANGED <<dir, holder, home>> /\ Goto(p, "suspend")
    BY <1>7 DEF RunSuspend, SInv, HomeOwned, Guarded, Checking, Moving
  <2>2. QED BY <2>1, LockedStep DEF Locked, Served, Driving
<1>8. CASE SuspendRefused(p)
  <2>1. UNCHANGED <<dir, holder, home, proc>>
    BY <1>8 DEF SuspendRefused
  <2>2. QED BY <2>1 DEF SInv, OnlySafe, HomeOwned, LocksOwned, NamesShareNothing, Bound, Prepared,
                        ConfiguredMACsDistinct, Exists, Running, PID, SameMACRuns
<1>9. CASE SuspendSave(p)
  BY <1>9, SuspendSaveKeeps
<1>10. ~Persist(p)
  BY DEF Persist, SafeOps
<1>11. QED BY <1>1, <1>2, <1>3, <1>4, <1>5, <1>6, <1>7, <1>8, <1>9, <1>10 DEF Run

LEMMA StopKeeps == ASSUME TInv, SInv, TInv', NEW p \in Procs, Stop(p) PROVE SInv'
<1> USE DEF Attached, Opened, Locked, Served, Driving, Guarded, Checking, Moving
<1> DEFINE Quiet == /\ proc' = [proc EXCEPT ![p] = proc'[p]] /\ UNCHANGED <<dir, holder, home>>
                    /\ proc[p].pc \in {"idle", "stop_find", "stop_signal", "stop_wait", "suspend_signal"}
                    /\ proc'[p].pc \in {"idle", "stop_suspended", "stop_find", "stop_signal", "stop_wait", "suspend_signal"}
<1>1. Quiet => SInv'
  <2>1. proc'[p] \in Records
    BY DEF TInv, TypeOK
  <2>2. QED BY <2>1, QuietStep
<1>2. ASSUME NEW n \in Names, StopStart(p, n) PROVE Quiet
  <2>1. PICK pc \in {"stop_find", "stop_suspended"} : proc' = [proc EXCEPT ![p] = [Idle EXCEPT !.pc = pc, !.name = n]]
    BY <1>2 DEF StopStart, Begin
  <2>2. QED BY <1>2, <2>1 DEF StopStart, Idle, TInv, TypeOK
<1>3. CASE StopFind(p) \/ StopSignal(p) \/ StopPoll(p)
  <2>1. CASE StopFind(p)
    BY <1>1, <2>1 DEF StopFind, TInv, TypeOK, Records
  <2>2. CASE StopSignal(p)
    BY <1>1, <2>2 DEF StopSignal, Goto, TInv, TypeOK, Records
  <2>3. CASE StopPoll(p)
    BY <1>1, <2>3 DEF StopPoll, TInv, TypeOK, Records
  <2>4. QED BY <1>3, <2>1, <2>2, <2>3
<1>4. ASSUME NEW n \in Names, SuspendStart(p, n) PROVE Quiet
  BY <1>4 DEF SuspendStart, Idle, TInv, TypeOK
<1>5. CASE SuspendSignal(p)
  <2>1. Quiet
    BY <1>5 DEF SuspendSignal, Idle, TInv, TypeOK
  <2>2. QED BY <1>1, <2>1
<1>6. CASE StopSuspended(p)
  BY <1>6, StopSuspendedKeeps
<1>7. CASE StopNotRunning(p) \/ StopOk(p)
  BY <1>7, StopsKeeps DEF StopNotRunning, StopOk
<1>8. CASE StopTimeout(p) \/ SuspendKills(p)
  BY <1>8, ExitsKeep DEF StopTimeout, SuspendKills
<1> HIDE DEF Quiet
<1>9. QED BY <1>1, <1>2, <1>3, <1>4, <1>5, <1>6, <1>7, <1>8 DEF Stop

LEMMA ChangeKeeps == ASSUME TInv, SInv, TInv', NEW p \in Procs, SafeOps, Change(p) PROVE SInv'
<1> USE DEF Attached, Opened, Locked, Served, Driving, Guarded, Checking, Moving
<1> DEFINE Quiet == /\ proc' = [proc EXCEPT ![p] = proc'[p]] /\ UNCHANGED <<dir, holder, home>>
                    /\ \/ proc[p].pc = "idle" /\ proc'[p].pc \in {"clone_home", "import_home"}
                       \/ proc[p].pc \in {"clone_copy", "import_check"} /\ proc'[p].pc = "move_remove"
<1>1. Quiet => SInv'
  <2>1. proc'[p] \in Records
    BY DEF TInv, TypeOK
  <2>2. QED BY <2>1, QuietStep
<1>2. ASSUME NEW n \in Names, NEW m \in Names, CloneStart(p, n, m) PROVE Quiet
  BY <1>2 DEF CloneStart, Idle, TInv, TypeOK
<1>3. ASSUME NEW n \in Names, NEW mac \in MACs, ImportStart(p, n, mac) PROVE Quiet
  BY <1>3 DEF ImportStart, Idle, TInv, TypeOK
<1>4. CASE CloneCopy(p) \/ ImportCheckMAC(p)
  <2>1. proc[p] \in Records /\ UNCHANGED <<dir, holder, home>> /\ proc[p].pc \in {"clone_copy", "import_check"}
    BY <1>4 DEF CloneCopy, ImportCheckMAC, TInv, TypeOK
  <2>3. proc' = [proc EXCEPT ![p] = proc'[p]] /\ proc'[p].pc = "move_remove"
    <3>0. proc \in [Procs -> Records] /\ proc' \in [Procs -> Records]
      BY DEF TInv, TypeOK
    <3>1. \A q \in Procs : q # p => proc'[q] = proc[q]
      BY <1>4, <3>0 DEF CloneCopy, ImportCheckMAC, Goto
    <3>2. CASE CloneCopy(p)
      <4>1. CASE proc' = [proc EXCEPT ![p] = [@ EXCEPT !.pc = "move_remove", !.mac = dir[proc[p].from].mac,
                                                       !.state = dir[proc[p].from].state]]
        BY <3>0, <3>1, <4>1 DEF Records
      <4>2. CASE proc' = [proc EXCEPT ![p] = [@ EXCEPT !.pc = "move_remove", !.mac = AnyOne(FreeMACs), !.state = FALSE]]
        BY <3>0, <3>1, <4>2 DEF Records
      <4>3. QED BY <3>2, <4>1, <4>2 DEF CloneCopy
    <3>3. CASE ImportCheckMAC(p)
      <4>1. CASE Goto(p, "move_remove")
        BY <3>0, <3>1, <4>1 DEF Goto, Records
      <4>2. CASE proc'[p] = [proc[p] EXCEPT !.pc = "move_remove", !.mac = AnyOne(FreeMACs)]
        BY <3>0, <3>1, <4>2 DEF Records
      <4>3. QED BY <3>0, <3>3, <4>1, <4>2 DEF ImportCheckMAC
    <3>4. QED BY <1>4, <3>2, <3>3
  <2>4. QED BY <1>1, <2>1, <2>3
<1> HIDE DEF Quiet
<1>5. CASE CloneHome(p) \/ ImportHome(p)
  BY <1>5, HomeTaken DEF CloneHome, ImportHome
<1>6. CASE MoveRemove(p) \/ MoveRename(p)
  BY <1>6, MoveRemoveKeeps, MoveRenameKeeps
<1>7. CASE CloneMissing(p) \/ MoveFails(p)
  BY <1>7, StopsKeeps DEF CloneMissing, MoveFails
<1>8. \A n, m \in Names : ~DeleteOpen(p, n) /\ ~CreateStart(p, n) /\ ~RenameStart(p, n, m) /\ ~SetLoad(p, n)
  BY DEF DeleteOpen, CreateStart, RenameStart, SetLoad, SafeOps
<1>9. /\ ~DeleteTrylock(p) /\ ~DeleteRunning(p) /\ ~DeleteRemove(p) /\ ~RenameRemove(p) /\ ~RenameRename(p)
      /\ ~RenameFails(p) /\ ~SetSave(p) /\ ~SetDisk(p) /\ ~SetMissing(p)
  BY DEF SInv, OnlySafe, DeleteTrylock, DeleteRunning, DeleteRemove, RenameRemove, RenameRename, RenameFails,
         SetSave, SetDisk, SetMissing
<1>10. QED BY <1>1, <1>2, <1>3, <1>4, <1>5, <1>6, <1>7, <1>8, <1>9 DEF Change

LEMMA IInvInit == Init => IInv
<1> SUFFICES ASSUME Init PROVE IInv
  OBVIOUS
<1>1. TInv
  BY TInvInit
<1>2. \A p \in Procs : proc[p].pc = "idle"
  BY DEF Init, Idle
<1>3. OnlySafe /\ HomeOwned /\ LocksOwned /\ Bound /\ Prepared
  BY <1>2 DEF Init, OnlySafe, HomeOwned, LocksOwned, Bound, Prepared, Guarded, Checking, Moving, Opened, Locked,
              Served, Driving
<1>4. NamesShareNothing
  BY DEF Init, NamesShareNothing, Exists, NoVM
<1>5. ConfiguredMACsDistinct
  BY <1>1 DEF Init, ConfiguredMACsDistinct, Running, PID, TInv, TypeOK, VMs, NoVM
<1>6. QED BY <1>1, <1>3, <1>4, <1>5 DEF IInv, TInv

LEMMA IInvNext == SafeOps /\ IInv /\ [Next]_vars => IInv'
<1> SUFFICES ASSUME SafeOps, IInv, [Next]_vars PROVE IInv'
  OBVIOUS
<1>1. TInv /\ SInv /\ TInv'
  BY TInvNext DEF IInv, TInv, SInv
<1>2. CASE UNCHANGED vars
  BY <1>1, <1>2 DEF vars, IInv, TInv, SInv, OnlySafe, HomeOwned, LocksOwned, NamesShareNothing, Bound, Prepared,
                    ConfiguredMACsDistinct, Exists, Running, PID, SameMACRuns
<1>3. ASSUME NEW p \in Procs, Run(p) \/ Stop(p) \/ Change(p) PROVE SInv'
  BY <1>1, <1>3, RunKeeps, StopKeeps, ChangeKeeps
<1>4. ASSUME NEW p \in Procs, Kill(p) PROVE SInv'
  BY <1>1, <1>4, StopsKeeps DEF Kill
<1>5. CASE Next
  BY <1>1, <1>3, <1>4, <1>5 DEF Next, IInv, TInv, SInv
<1>6. QED BY <1>2, <1>5

(* The locks' order, as an invariant of every history of these commands:   *)
(* who drives a machine holds the lock of the directory it opened, who is  *)
(* between the address check and that lock owns the home's flock, and two  *)
(* names never come to share an inode or a disk.                           *)
THEOREM Inductive == SafeOps => (Spec => []IInv)
<1>1. ASSUME SafeOps PROVE Spec => []IInv
  <2>1. SafeOps
    BY <1>1
  <2>2. IInv /\ [Next]_vars => IInv'
    BY <2>1, IInvNext
  <2>3. QED BY <2>2, IInvInit, PTL DEF Spec
<1>2. QED BY <1>1

LEMMA DrivingExcludes == IInv => OneMachinePerDisk
<1> SUFFICES ASSUME IInv, NEW p \in Procs, NEW q \in Procs, p # q, proc[p].pc \in Driving, proc[q].pc \in Driving,
                    proc[p].disk = proc[q].disk
             PROVE  FALSE
  BY DEF OneMachinePerDisk
<1>1. proc[p].ino = proc[q].ino /\ proc[p].ino \in Inodes
  BY DEF IInv, Bound, Formed, WellFormed, Opened, Locked, Served
<1>2. holder[proc[p].ino] = p /\ holder[proc[p].ino] = q
  BY <1>1 DEF IInv, LocksOwned, Locked, Served
<1>3. QED BY <1>2

(* No two processes drive machines on one disk, however runs, stops,        *)
(* suspensions, clones, imports and kills of any number of processes fall   *)
(* together.                                                                *)
THEOREM Exclusion == SafeOps => (Spec => []OneMachinePerDisk)
<1> HIDE DEF IInv, OneMachinePerDisk
<1>1. ASSUME SafeOps PROVE Spec => []OneMachinePerDisk
  <2>1. Spec => []IInv
    BY <1>1, Inductive
  <2>2. QED BY <2>1, DrivingExcludes, PTL
<1>2. QED BY <1>1

LEMMA DrivingReported == IInv => LiveReportedRunning
<1> SUFFICES ASSUME IInv, NEW p \in Procs, NEW n \in Names, proc[p].pc \in Driving, Exists(n),
                    dir[n].disk = proc[p].disk
             PROVE  PID(dir[n].ino) = p
  BY DEF LiveReportedRunning
<1>1. dir[n].ino = proc[p].ino /\ proc[p].ino \in Inodes
  BY DEF IInv, Bound, Formed, WellFormed, Opened, Locked, Served
<1>2. QED BY <1>1 DEF IInv, LocksOwned, Locked, Served, PID

(* A VM whose disk a machine drives is reported running. *)
THEOREM Reported == SafeOps => (Spec => []LiveReportedRunning)
<1> HIDE DEF IInv, LiveReportedRunning
<1>1. ASSUME SafeOps PROVE Spec => []LiveReportedRunning
  <2>1. Spec => []IInv
    BY <1>1, Inductive
  <2>2. QED BY <2>1, DrivingReported, PTL
<1>2. QED BY <1>1

(* VMs reported running have different addresses in their configurations.   *)
THEOREM MACsDistinct == SafeOps => (Spec => []ConfiguredMACsDistinct)
<1> HIDE DEF IInv, ConfiguredMACsDistinct
<1>1. ASSUME SafeOps PROVE Spec => []ConfiguredMACsDistinct
  <2>1. Spec => []IInv
    BY <1>1, Inductive
  <2>2. IInv => ConfiguredMACsDistinct
    BY DEF IInv
  <2>3. QED BY <2>1, <2>2, PTL
<1>2. QED BY <1>1

LEMMA StoppedNotDriven ==
    ASSUME IInv, NEW p \in Procs, NEW q \in Procs, StopOk(p), proc[q].pc \in Driving
    PROVE  proc[q].ino # proc[p].ino
<1>1. proc[q].ino \in Inodes /\ holder[proc[q].ino] = q
  BY DEF IInv, LocksOwned, Formed, WellFormed, Opened, Locked, Served
<1>2. proc[q].ino # None /\ q # None
  BY <1>1, ConstantsAssumption
<1>3. QED BY <1>1, <1>2 DEF StopOk, PID

(* stop reports success only when no machine runs on the config.json it     *)
(* waited for, whichever process has become its holder meanwhile.           *)
THEOREM StopsReported == SafeOps => (Spec => StopOkMeansStopped)
<1> HIDE DEF IInv
<1>1. ASSUME SafeOps PROVE Spec => StopOkMeansStopped
  <2>1. Spec => []IInv
    BY <1>1, Inductive
  <2>2. IInv => [\A p, q \in Procs : StopOk(p) /\ proc[q].pc \in Driving => proc[q].ino # proc[p].ino]_vars
    BY StoppedNotDriven
  <2>3. QED BY <2>1, <2>2, PTL DEF StopOkMeansStopped
<1>2. QED BY <1>1

-----------------------------------------------------------------------------
(* The locks implement the lease *)


LeaseOf(p) == IF proc[p].pc \in Driving THEN proc[p].disk ELSE None
Leases == [p \in Procs |-> LeaseOf(p)]

LEMMA DriversHaveDisks == IInv => \A p \in Procs : proc[p].pc \in Driving => proc[p].disk \in Disks
BY DEF IInv, Formed, WellFormed, Attached, Opened, Locked, Served

LEMMA NextHaveDisks == IInv' => \A p \in Procs : proc'[p].pc \in Driving => proc'[p].disk \in Disks
BY DEF IInv, Formed, WellFormed, Attached, Opened, Locked, Served

LEMMA NextExcludes == IInv' => OneMachinePerDisk'
BY DrivingExcludes, PTL

(* A step that changes the machine of one process is one of the lease's.    *)
LEMMA OneChange ==
    ASSUME IInv, IInv', NEW p \in Procs, \A q \in Procs : q # p => LeaseOf(q)' = LeaseOf(q),
           LeaseOf(p) = None \/ LeaseOf(p)' = None \/ LeaseOf(p)' = LeaseOf(p)
    PROVE  Lease!Next \/ UNCHANGED Leases
<1>1. \A q \in Procs : LeaseOf(q) \in Disks \cup {None} /\ LeaseOf(q)' \in Disks \cup {None}
  BY DriversHaveDisks, NextHaveDisks DEF LeaseOf
<1>2. CASE LeaseOf(p)' = LeaseOf(p)
  BY <1>2 DEF Leases
<1>3. CASE LeaseOf(p) = None /\ LeaseOf(p)' # None
  <2>1. PICK d \in Disks : d = LeaseOf(p)'
    BY <1>1, <1>3
  <2>2. OneMachinePerDisk'
    BY NextExcludes
  <2>3. \A q \in Procs : q # p => LeaseOf(q)' # d
    BY <1>3, <2>1, <2>2 DEF OneMachinePerDisk, LeaseOf
  <2>4. \A q \in Procs : LeaseOf(q) # d
    BY <1>3, <2>1, <2>3
  <2>5. Lease!Acquire(p, d)
    BY <1>3, <2>1, <2>4 DEF Lease!Acquire, LeaseOf
  <2>6. QED BY <2>5 DEF Lease!Next
<1>4. CASE LeaseOf(p) # None /\ LeaseOf(p)' = None
  <2>1. Lease!Release(p)
    BY <1>4 DEF Lease!Release, LeaseOf
  <2>2. QED BY <2>1 DEF Lease!Next
<1>5. QED BY <1>2, <1>3, <1>4

LEMMA ExitLets ==
    ASSUME IInv, IInv', NEW p \in Procs, NEW S, Exit(S), \A q \in Procs : q \in S /\ q # p => proc[q].pc \notin Driving
    PROVE  Lease!Next \/ UNCHANGED Leases
<1>1. \A q \in Procs : IF q \in S THEN proc'[q].pc = "idle" ELSE proc'[q].pc = proc[q].pc /\ proc'[q].disk = proc[q].disk
  BY DEF Exit, Idle, IInv, TypeOK, Records
<1>2. \A q \in Procs : IF q \in S THEN LeaseOf(q)' = None ELSE LeaseOf(q)' = LeaseOf(q)
  BY <1>1 DEF LeaseOf, Driving
<1>3. \A q \in Procs : q # p => LeaseOf(q)' = LeaseOf(q)
  BY <1>2 DEF LeaseOf
<1>4. LeaseOf(p)' = None \/ LeaseOf(p)' = LeaseOf(p)
  BY <1>2
<1>5. QED BY <1>3, <1>4, OneChange

Others(p) == \A q \in Procs : q # p => proc'[q] = proc[q]

LEMMA OtherStep ==
    ASSUME IInv, IInv', NEW p \in Procs, Others(p),
           \/ proc[p].pc \notin Driving
           \/ proc'[p].pc \in Driving /\ proc'[p].disk = proc[p].disk
    PROVE  Lease!Next \/ UNCHANGED Leases
<1>1. \A q \in Procs : q # p => LeaseOf(q)' = LeaseOf(q)
  BY DEF LeaseOf, Others
<1>2. LeaseOf(p) = None \/ LeaseOf(p)' = LeaseOf(p)
  BY DEF LeaseOf
<1>3. QED BY <1>1, <1>2, OneChange

LEMMA RunLeases == ASSUME IInv, IInv', NEW p \in Procs, Run(p) PROVE Lease!Next \/ UNCHANGED Leases
<1> USE DEF Others, Driving, Goto
<1>0. proc \in [Procs -> Records]
  BY DEF IInv, TypeOK
<1>1. CASE Exit({p})
  BY <1>1, ExitLets
<1>2. CASE UNCHANGED proc
  BY <1>2 DEF Leases, LeaseOf
<1>3. CASE RunSuspend(p)
  <2>1. Others(p) /\ proc'[p].pc \in Driving /\ proc'[p].disk = proc[p].disk
    BY <1>0, <1>3 DEF RunSuspend, Records
  <2>2. QED BY <2>1, OtherStep
<1>4. CASE proc[p].pc \notin Driving /\ Others(p)
  BY <1>4, OtherStep
<1>5. \A n \in Names : RunStart(p, n) => proc[p].pc \notin Driving /\ Others(p)
  BY <1>0 DEF RunStart, Begin, Idle
<1>6. RunHome(p) \/ RunCheckMAC(p) => proc[p].pc \notin Driving /\ Others(p)
  BY <1>0 DEF RunHome, RunCheckMAC
<1>7. RunBuild(p) \/ RunOpenLock(p) => proc[p].pc \notin Driving /\ Others(p)
  BY <1>0 DEF RunBuild, RunOpenLock
<1>8. RunTrylock(p) \/ RunUnlockHome(p) \/ RunBoot(p) => proc[p].pc \notin Driving /\ Others(p)
  BY <1>0 DEF RunTrylock, RunUnlockHome, RunBoot
<1>9. RunMissing(p) \/ RunAlreadyRunning(p) \/ RunBootFails(p) \/ GuestEnds(p) \/ RunInterrupted(p)
      \/ SuspendSave(p) => Exit({p})
  BY DEF RunMissing, RunAlreadyRunning, RunBootFails, GuestEnds, RunInterrupted, SuspendSave, Stops
<1>10. SuspendRefused(p) \/ Persist(p) => UNCHANGED proc
  BY DEF SuspendRefused, Persist
<1> HIDE DEF Others, Driving, Goto
<1>11. QED BY <1>1, <1>2, <1>3, <1>4, <1>5, <1>6, <1>7, <1>8, <1>9, <1>10 DEF Run

LEMMA StopLeases == ASSUME IInv, IInv', NEW p \in Procs, Stop(p) PROVE Lease!Next \/ UNCHANGED Leases
<1> USE DEF Others, Driving, Goto
<1>0. proc \in [Procs -> Records]
  BY DEF IInv, TypeOK
<1>1. CASE Exit({p})
  BY <1>1, ExitLets
<1>2. CASE StopTimeout(p) \/ SuspendKills(p)
  <2>1. Exit({p, proc[p].pid})
    BY <1>2 DEF StopTimeout, SuspendKills
  <2> DEFINE q == IF proc[p].pid = None THEN p ELSE proc[p].pid
  <2>2. q \in Procs /\ \A r \in Procs : r \in {p, proc[p].pid} /\ r # q => proc[r].pc \notin Driving
    BY <1>0, <1>2 DEF StopTimeout, SuspendKills, Records
  <2> HIDE DEF q
  <2>3. QED BY <2>1, <2>2, ExitLets
<1>3. CASE proc[p].pc \notin Driving /\ Others(p)
  BY <1>3, OtherStep
<1>4. \A n \in Names : StopStart(p, n) \/ SuspendStart(p, n) => proc[p].pc \notin Driving /\ Others(p)
  BY <1>0 DEF StopStart, SuspendStart, Begin, Idle
<1>5. StopFind(p) \/ StopSignal(p) \/ StopPoll(p) => proc[p].pc \notin Driving /\ Others(p)
  BY <1>0 DEF StopFind, StopSignal, StopPoll
<1>6. SuspendSignal(p) => proc[p].pc \notin Driving /\ Others(p)
  BY <1>0 DEF SuspendSignal
<1>7. StopSuspended(p) \/ StopNotRunning(p) \/ StopOk(p) => Exit({p})
  BY DEF StopSuspended, StopNotRunning, StopOk, Stops
<1> HIDE DEF Others, Driving, Goto
<1>8. QED BY <1>1, <1>2, <1>3, <1>4, <1>5, <1>6, <1>7 DEF Stop

LEMMA ChangeLeases == ASSUME IInv, IInv', NEW p \in Procs, Change(p) PROVE Lease!Next \/ UNCHANGED Leases
<1> USE DEF Others, Driving, Goto
<1>0. proc \in [Procs -> Records]
  BY DEF IInv, TypeOK
<1>1. CASE Exit({p})
  BY <1>1, ExitLets
<1>2. CASE proc[p].pc \notin Driving /\ Others(p)
  BY <1>2, OtherStep
<1>3. \A n \in Names : DeleteOpen(p, n) \/ CreateStart(p, n) => proc[p].pc \notin Driving /\ Others(p)
  BY <1>0 DEF DeleteOpen, CreateStart, Idle
<1>12. \A n \in Names : SetLoad(p, n) => proc[p].pc \notin Driving /\ Others(p)
  <2> SUFFICES ASSUME NEW n \in Names, SetLoad(p, n) PROVE proc[p].pc \notin Driving /\ Others(p)
    OBVIOUS
  <2>1. PICK mac : proc' = [proc EXCEPT ![p] = [Idle EXCEPT !.pc = "set_save", !.name = n, !.mac = mac]]
    BY DEF SetLoad
  <2>2. QED BY <1>0, <2>1 DEF SetLoad, Idle
<1>4. \A n, m \in Names : CloneStart(p, n, m) \/ RenameStart(p, n, m) => proc[p].pc \notin Driving /\ Others(p)
  BY <1>0 DEF CloneStart, RenameStart, Idle
<1>5. \A n \in Names, mac \in MACs : ImportStart(p, n, mac) => proc[p].pc \notin Driving /\ Others(p)
  BY <1>0 DEF ImportStart, Idle
<1>6. DeleteTrylock(p) \/ CloneHome(p) \/ ImportHome(p) => proc[p].pc \notin Driving /\ Others(p)
  BY <1>0 DEF DeleteTrylock, CloneHome, ImportHome
<1>7. CloneCopy(p) \/ ImportCheckMAC(p) => proc[p].pc \notin Driving /\ Others(p)
  BY <1>0 DEF CloneCopy, ImportCheckMAC
<1>8. MoveRemove(p) \/ RenameRemove(p) => proc[p].pc \notin Driving /\ Others(p)
  BY <1>0 DEF MoveRemove, RenameRemove
<1>9. SetSave(p) => Exit({p}) \/ (proc[p].pc \notin Driving /\ Others(p))
  BY <1>0 DEF SetSave
<1>10. DeleteRunning(p) \/ DeleteRemove(p) \/ CloneMissing(p) \/ MoveRename(p) \/ MoveFails(p) \/ RenameRename(p)
       \/ RenameFails(p) \/ SetDisk(p) \/ SetMissing(p) => Exit({p})
  BY DEF DeleteRunning, DeleteRemove, CloneMissing, MoveRename, MoveFails, RenameRename, RenameFails, SetDisk,
         SetMissing, Stops
<1> HIDE DEF Others, Driving, Goto
<1>11. QED BY <1>1, <1>2, <1>3, <1>4, <1>5, <1>6, <1>7, <1>8, <1>9, <1>10, <1>12 DEF Change

LEMMA NextLeases == IInv /\ IInv' /\ [Next]_vars => [Lease!Next]_Leases
<1> SUFFICES ASSUME IInv, IInv', [Next]_vars PROVE Lease!Next \/ UNCHANGED Leases
  OBVIOUS
<1>1. CASE UNCHANGED vars
  BY <1>1 DEF vars, Leases, LeaseOf
<1>2. ASSUME NEW p \in Procs, Run(p) \/ Stop(p) \/ Change(p) PROVE Lease!Next \/ UNCHANGED Leases
  BY <1>2, RunLeases, StopLeases, ChangeLeases
<1>3. ASSUME NEW p \in Procs, Kill(p) PROVE Lease!Next \/ UNCHANGED Leases
  BY <1>3, ExitLets DEF Kill, Stops
<1>4. QED BY <1>1, <1>2, <1>3 DEF Next

LEMMA InitLeases == Init => Lease!Init
BY DEF Init, Lease!Init, Idle, Driving

(* The locks implement the lease: a machine is started on a disk that no    *)
(* other machine has, and lets go of it before another is started.          *)
THEOREM LocksImplementLeases == SafeOps => (Spec => ImplementsDiskLease)
<1> HIDE DEF IInv
<1>1. ASSUME SafeOps PROVE Spec => ImplementsDiskLease
  <2>1. Spec => []IInv
    BY <1>1, Inductive
  <2>2. IInv /\ IInv' /\ [Next]_vars => [Lease!Next]_Leases
    BY NextLeases
  <2>3. QED BY <2>1, <2>2, InitLeases, PTL DEF Spec, ImplementsDiskLease, Lease!Spec, Leases, LeaseOf
<1>2. QED BY <1>1

-----------------------------------------------------------------------------
(* The histories of every command, deletes, renames and sets included: no  *)
(* two names share a VM, and addresses are compared by one process at a    *)
(* time.                                                                   *)

NInv == TInv /\ NamesShareNothing /\ MACChecksSerialised

-----------------------------------------------------------------------------
(* The check of addresses: who is at one has the home's flock. *)

(* A step of one process that takes no flock of another's, and goes to a    *)
(* check with the flock only.                                               *)
LEMMA OneStepChecks ==
    ASSUME TInv, MACChecksSerialised, NEW p \in Procs,
           \A q \in Procs : q # p => proc'[q].pc = proc[q].pc,
           proc'[p].pc \in Checking => home' = p,
           home' = home \/ home \in {None, p}
    PROVE  MACChecksSerialised'
BY DEF MACChecksSerialised

LEMMA ExitChecks ==
    ASSUME TInv, MACChecksSerialised, NEW S, Exit(S)
    PROVE  MACChecksSerialised'
<1>1. \A q \in Procs : IF q \in S THEN proc'[q] = Idle ELSE proc'[q].pc = proc[q].pc
  BY DEF Exit, TInv, TypeOK, Records
<1>2. QED BY <1>1 DEF Exit, MACChecksSerialised, Idle, Checking

LEMMA RunChecks ==
    ASSUME TInv, MACChecksSerialised, NEW p \in Procs, Run(p)
    PROVE  MACChecksSerialised'
<1>1. CASE \E S : Exit(S)
  BY <1>1, ExitChecks
<1>2. CASE UNCHANGED <<proc, home>>
  BY <1>2 DEF MACChecksSerialised
<1>3. CASE \E n \in Names : RunStart(p, n)
  BY <1>3, OneStepChecks DEF RunStart, Begin, Idle, Checking, TInv, TypeOK, Records
<1>4. CASE RunHome(p)
  BY <1>4, OneStepChecks DEF RunHome, Goto, TInv, TypeOK, Records
<1>5. CASE RunCheckMAC(p) \/ RunBuild(p) \/ RunOpenLock(p) \/ RunTrylock(p)
  <2>1. /\ \A q \in Procs : q # p => proc'[q].pc = proc[q].pc
        /\ proc[p].pc \in Checking /\ home' = home
    BY <1>5 DEF RunCheckMAC, RunBuild, RunOpenLock, RunTrylock, Goto, TInv, TypeOK, Records, Checking
  <2>2. QED BY <2>1, OneStepChecks DEF MACChecksSerialised
<1>6. CASE RunUnlockHome(p)
  <2>1. /\ \A q \in Procs : q # p => proc'[q].pc = proc[q].pc
        /\ proc'[p].pc \notin Checking
        /\ home' = home \/ home = p
    BY <1>6 DEF RunUnlockHome, Goto, TInv, TypeOK, Records, Checking
  <2>2. QED BY <2>1, OneStepChecks
<1>7. CASE RunBoot(p) \/ RunSuspend(p)
  <2>1. /\ \A q \in Procs : q # p => proc'[q].pc = proc[q].pc
        /\ proc'[p].pc \notin Checking /\ home' = home
    BY <1>7 DEF RunBoot, RunSuspend, Goto, TInv, TypeOK, Records, Checking
  <2>2. QED BY <2>1, OneStepChecks
<1>8. QED
  BY <1>1, <1>2, <1>3, <1>4, <1>5, <1>6, <1>7
     DEF Run, RunMissing, RunAlreadyRunning, RunBootFails, GuestEnds, RunInterrupted, SuspendRefused,
         SuspendSave, Persist, Stops

LEMMA StopChecks ==
    ASSUME TInv, MACChecksSerialised, NEW p \in Procs, Stop(p)
    PROVE  MACChecksSerialised'
<1>1. CASE \E S : Exit(S)
  BY <1>1, ExitChecks
<1>2. CASE (\E n \in Names : StopStart(p, n) \/ SuspendStart(p, n)) \/ StopFind(p)
  <2>1. /\ \A q \in Procs : q # p => proc'[q].pc = proc[q].pc
        /\ proc'[p].pc \notin Checking /\ home' = home
    <3>1. CASE StopFind(p)
      BY <3>1 DEF StopFind, TInv, TypeOK, Records, Checking
    <3>2. ASSUME NEW n \in Names, NEW pc \in {"stop_find", "stop_suspended"}, Begin(p, pc, n), UNCHANGED home
          PROVE  /\ \A q \in Procs : q # p => proc'[q].pc = proc[q].pc
                 /\ proc'[p].pc \notin Checking /\ home' = home
      BY <3>2 DEF Begin, Idle, TInv, TypeOK, Checking
    <3>3. CASE \E n \in Names : SuspendStart(p, n)
      BY <3>3 DEF SuspendStart, Idle, TInv, TypeOK, Checking
    <3>4. QED BY <1>2, <3>1, <3>2, <3>3 DEF StopStart
  <2>2. QED BY <2>1, OneStepChecks
<1>3. CASE StopSignal(p) \/ StopPoll(p) \/ SuspendSignal(p)
  <2>1. /\ \A q \in Procs : q # p => proc'[q].pc = proc[q].pc
        /\ proc'[p].pc \notin Checking /\ home' = home
    BY <1>3 DEF StopSignal, StopPoll, SuspendSignal, Goto, Idle, TInv, TypeOK, Records, Checking
  <2>2. QED BY <2>1, OneStepChecks
<1>4. QED BY <1>1, <1>2, <1>3 DEF Stop, StopSuspended, StopNotRunning, StopOk, StopTimeout,
    SuspendKills, Stops

LEMMA ChangeChecks ==
    ASSUME TInv, MACChecksSerialised, NEW p \in Procs, Change(p)
    PROVE  MACChecksSerialised'
<1>1. CASE \E S : Exit(S)
  BY <1>1, ExitChecks
<1>2. CASE \E n, m \in Names : DeleteOpen(p, n) \/ CloneStart(p, n, m) \/ CreateStart(p, n) \/ RenameStart(p, n, m)
                               \/ SetLoad(p, n)
  <2>1. /\ \A q \in Procs : q # p => proc'[q].pc = proc[q].pc
        /\ proc'[p].pc \notin Checking /\ home' = home
    <3> DEFINE Aside == (\A q \in Procs : q # p => proc'[q].pc = proc[q].pc) /\ proc'[p].pc \notin Checking /\ home' = home
    <3>1. ASSUME NEW n \in Names, NEW m \in Names, DeleteOpen(p, n) PROVE Aside
      BY <3>1 DEF DeleteOpen, Idle, TInv, TypeOK, Checking
    <3>2. ASSUME NEW n \in Names, NEW m \in Names, CloneStart(p, n, m) PROVE Aside
      BY <3>2 DEF CloneStart, Idle, TInv, TypeOK, Checking
    <3>3. ASSUME NEW n \in Names, NEW m \in Names, CreateStart(p, n) PROVE Aside
      BY <3>3 DEF CreateStart, Idle, TInv, TypeOK, Checking
    <3>4. ASSUME NEW n \in Names, NEW m \in Names, RenameStart(p, n, m) PROVE Aside
      BY <3>4 DEF RenameStart, Idle, TInv, TypeOK, Checking
    <3>5. ASSUME NEW n \in Names, NEW m \in Names, SetLoad(p, n) PROVE Aside
      BY <3>5 DEF SetLoad, Idle, TInv, TypeOK, Checking
    <3>6. QED BY <1>2, <3>1, <3>2, <3>3, <3>4, <3>5
  <2>2. QED BY <2>1, OneStepChecks
<1>3. CASE \E n \in Names, mac \in MACs : ImportStart(p, n, mac)
  <2>1. /\ \A q \in Procs : q # p => proc'[q].pc = proc[q].pc
        /\ proc'[p].pc \notin Checking /\ home' = home
    BY <1>3 DEF ImportStart, Idle, TInv, TypeOK, Records, Checking
  <2>2. QED BY <2>1, OneStepChecks
<1>4. CASE CloneHome(p) \/ ImportHome(p)
  BY <1>4, OneStepChecks DEF CloneHome, ImportHome, Goto, TInv, TypeOK, Records
<1>5. CASE CloneCopy(p) \/ ImportCheckMAC(p)
  <2>1. /\ \A q \in Procs : q # p => proc'[q].pc = proc[q].pc
        /\ proc'[p].pc \notin Checking /\ home' = home
    <3>1. proc[p] \in Records
      BY DEF TInv, TypeOK
    <3>2. PICK mac, state : proc' = [proc EXCEPT ![p] = [@ EXCEPT !.pc = "move_remove", !.mac = mac, !.state = state]]
                            \/ proc' = [proc EXCEPT ![p] = [@ EXCEPT !.pc = "move_remove", !.mac = mac]]
                            \/ Goto(p, "move_remove")
      BY <1>5 DEF CloneCopy, ImportCheckMAC
    <3>3. PICK r : proc' = [proc EXCEPT ![p] = r] /\ r.pc = "move_remove"
      <4>1. ASSUME NEW m, NEW st,
                   proc' = [proc EXCEPT ![p] = [@ EXCEPT !.pc = "move_remove", !.mac = m, !.state = st]]
            PROVE  \E r : proc' = [proc EXCEPT ![p] = r] /\ r.pc = "move_remove"
        <5> DEFINE r == [proc[p] EXCEPT !.pc = "move_remove", !.mac = m, !.state = st]
        <5>1. r.pc = "move_remove"
          BY <3>1, Zenon DEF Records
        <5>2. proc' = [proc EXCEPT ![p] = r]
          BY <4>1
        <5> HIDE DEF r
        <5>3. QED BY <5>1, <5>2
      <4>2. ASSUME NEW m, proc' = [proc EXCEPT ![p] = [@ EXCEPT !.pc = "move_remove", !.mac = m]]
            PROVE  \E r : proc' = [proc EXCEPT ![p] = r] /\ r.pc = "move_remove"
        <5> DEFINE r == [proc[p] EXCEPT !.pc = "move_remove", !.mac = m]
        <5>1. r.pc = "move_remove"
          BY <3>1, Zenon DEF Records
        <5>2. proc' = [proc EXCEPT ![p] = r]
          BY <4>2
        <5> HIDE DEF r
        <5>3. QED BY <5>1, <5>2
      <4>3. ASSUME Goto(p, "move_remove")
            PROVE  \E r : proc' = [proc EXCEPT ![p] = r] /\ r.pc = "move_remove"
        <5> DEFINE r == [proc[p] EXCEPT !.pc = "move_remove"]
        <5>1. r.pc = "move_remove"
          BY <3>1, Zenon DEF Records
        <5>2. proc' = [proc EXCEPT ![p] = r]
          BY <4>3 DEF Goto
        <5> HIDE DEF r
        <5>3. QED BY <5>1, <5>2
      <4>4. QED BY <3>2, <4>1, <4>2, <4>3
    <3>4. proc'[p].pc = "move_remove" /\ \A q \in Procs : q # p => proc'[q] = proc[q]
      BY <3>3 DEF TInv, TypeOK
    <3>5. QED BY <1>5, <3>4 DEF CloneCopy, ImportCheckMAC, Checking
  <2>2. QED BY <2>1, OneStepChecks
<1>6. CASE DeleteTrylock(p) \/ MoveRemove(p) \/ RenameRemove(p) \/ (SetSave(p) /\ ~\E S : Exit(S))
  <2>1. /\ \A q \in Procs : q # p => proc'[q].pc = proc[q].pc
        /\ proc'[p].pc \notin Checking /\ home' = home
    BY <1>6 DEF DeleteTrylock, MoveRemove, RenameRemove, SetSave, Goto, TInv, TypeOK, Records, Checking
  <2>2. QED BY <2>1, OneStepChecks
<1>7. QED
  BY <1>1, <1>2, <1>3, <1>4, <1>5, <1>6
     DEF Change, DeleteRunning, DeleteRemove, CloneMissing, MoveRename, MoveFails, RenameRename,
         RenameFails, SetDisk, SetMissing, Stops

-----------------------------------------------------------------------------
(* What moves, replaces and renames directories *)

(* The files of every name are what they were. *)
Unmoved == \A n \in Names : dir'[n].ino = dir[n].ino /\ dir'[n].disk = dir[n].disk

LEMMA UnmovedNames ==
    ASSUME NamesShareNothing, Unmoved
    PROVE  NamesShareNothing'
BY DEF NamesShareNothing, Unmoved, Exists

(* A name gets files of its own, or none; the others keep theirs.           *)
LEMMA OneNameChanges ==
    ASSUME TInv, NamesShareNothing, NEW n \in Names,
           \A m \in Names : m # n => dir'[m] = dir[m],
           \A m \in Names : m # n => dir'[n].ino # dir[m].ino /\ dir'[n].disk # dir[m].disk
    PROVE  NamesShareNothing'
BY DEF NamesShareNothing, Exists

LEMMA RemovedNames ==
    ASSUME TInv, NamesShareNothing, NEW n \in Names, dir' = [dir EXCEPT ![n] = NoVM]
    PROVE  NamesShareNothing'
<1>1. \A m \in Names : dir'[m] = IF m = n THEN NoVM ELSE dir[m]
  BY DEF TInv, TypeOK
<1>2. \A m \in Names : Exists(m) => dir[m] \in VMs
  BY DEF Exists, NoVM, VMs, TInv, TypeOK
<1>3. QED BY <1>1, <1>2 DEF NamesShareNothing, Exists, NoVM, VMs

LEMMA RunNames ==
    ASSUME TInv, NamesShareNothing, NEW p \in Procs, Run(p)
    PROVE  NamesShareNothing'
<1>1. CASE UNCHANGED dir
  BY <1>1, UnmovedNames DEF Unmoved
<1>2. CASE RunCheckMAC(p) /\ ~UNCHANGED dir
  <2>1. PICK n \in Names : n = proc[p].name
    BY <1>2 DEF RunCheckMAC, TInv, Formed, WellFormed
  <2>2. PICK i \in FreeInodes, mac \in FreeMACs : dir' = [dir EXCEPT ![n] = [@ EXCEPT !.ino = i, !.mac = mac, !.state = FALSE]]
    BY <1>2, <2>1, FreeOnes DEF RunCheckMAC, RegenerateMACAddress
  <2>3. Exists(n) /\ dir[n] \in VMs
    BY <1>2, <2>1 DEF RunCheckMAC, Exists, TInv, TypeOK, NoVM
  <2>4. dir'[n].ino = i /\ dir'[n].disk = dir[n].disk /\ \A m \in Names : m # n => dir'[m] = dir[m]
    BY <2>2, <2>3 DEF TInv, TypeOK, VMs
  <2>5. QED BY <2>3, <2>4, OneNameChanges DEF FreeInodes, NamesShareNothing
<1>3. CASE RunBoot(p)
  <2>1. PICK n \in Names : n = proc[p].name
    BY <1>3 DEF RunBoot, TInv, Formed, WellFormed
  <2>2. QED BY <1>3, <2>1, StateOnly, UnmovedNames DEF RunBoot, Unmoved
<1>4. CASE SuspendSave(p)
  <2>1. PICK n \in Names : n = proc[p].name
    BY <1>4 DEF SuspendSave, TInv, Formed, WellFormed
  <2>2. Unmoved
    <3>1. CASE Exists(n)
      <4>1. dir[n] \in VMs /\ dir' = [dir EXCEPT ![n].state = TRUE]
        BY <1>4, <2>1, <3>1 DEF SuspendSave, Exists, TInv, TypeOK, NoVM
      <4>2. QED BY <4>1 DEF Unmoved, TInv, TypeOK, VMs
    <3>2. CASE ~Exists(n)
      BY <1>4, <2>1, <3>2 DEF SuspendSave, Unmoved
    <3>3. QED BY <3>1, <3>2
  <2>3. QED BY <2>2, UnmovedNames
<1>5. QED
  BY <1>1, <1>2, <1>3, <1>4
     DEF Run, RunStart, RunHome, RunBuild, RunOpenLock, RunMissing, RunTrylock, RunAlreadyRunning,
         RunUnlockHome, RunBootFails, GuestEnds, RunInterrupted, SuspendRefused, RunSuspend, Persist,
         Stops

LEMMA StopNames ==
    ASSUME TInv, NamesShareNothing, NEW p \in Procs, Stop(p)
    PROVE  NamesShareNothing'
<1>1. CASE UNCHANGED dir
  BY <1>1, UnmovedNames DEF Unmoved
<1>2. CASE StopSuspended(p)
  <2>1. PICK n \in Names : n = proc[p].name
    BY <1>2 DEF StopSuspended, TInv, Formed, WellFormed
  <2>2. QED BY <1>2, <2>1, StateOnly, UnmovedNames DEF StopSuspended, Unmoved
<1>3. QED
  BY <1>1, <1>2 DEF Stop, StopStart, StopFind, StopNotRunning, StopSignal, StopPoll, StopOk,
      StopTimeout, SuspendStart, SuspendSignal, SuspendKills, Stops

LEMMA ChangeNames ==
    ASSUME TInv, NamesShareNothing, NEW p \in Procs, Change(p)
    PROVE  NamesShareNothing'
<1>1. CASE UNCHANGED dir
  BY <1>1, UnmovedNames DEF Unmoved
<1>2. CASE DeleteRemove(p) \/ MoveRemove(p) \/ RenameRemove(p)
  <2>1. PICK n \in Names : n = proc[p].name
    BY <1>2 DEF DeleteRemove, MoveRemove, RenameRemove, TInv, Formed, WellFormed
  <2>2. QED BY <1>2, <2>1, RemovedNames DEF DeleteRemove, MoveRemove, RenameRemove
<1>3. CASE MoveRename(p)
  <2>1. PICK n \in Names : n = proc[p].name
    BY <1>3 DEF MoveRename, TInv, Formed, WellFormed, Moving
  <2>2. PICK i \in FreeInodes, d \in FreeDisks :
          dir' = [dir EXCEPT ![n] = [ino |-> i, disk |-> d, mac |-> proc[p].mac, state |-> proc[p].state]]
    BY <1>3, <2>1, FreeOnes DEF MoveRename
  <2>3. dir'[n].ino = i /\ dir'[n].disk = d /\ \A m \in Names : m # n => dir'[m] = dir[m]
    BY <2>2 DEF TInv, TypeOK
  <2>4. QED BY <2>3, OneNameChanges DEF FreeInodes, FreeDisks
<1>4. CASE RenameRename(p)
  <2>1. PICK n \in Names, o \in Names : n = proc[p].name /\ o = proc[p].from
    BY <1>4 DEF RenameRename, TInv, Formed, WellFormed
  <2>2. Exists(o) /\ ~Exists(n) /\ dir' = [dir EXCEPT ![n] = dir[o], ![o] = NoVM]
    BY <1>4, <2>1 DEF RenameRename
  <2>3. \A m \in Names : dir'[m] = IF m = o THEN NoVM ELSE IF m = n THEN dir[o] ELSE dir[m]
    BY <2>2 DEF TInv, TypeOK
  <2>4. \A m \in Names : Exists(m) => dir[m] \in VMs
    BY DEF Exists, NoVM, VMs, TInv, TypeOK
  <2>5. ASSUME NEW a \in Names, NEW b \in Names, a # b, dir'[a].ino # None
        PROVE  dir'[a].ino # dir'[b].ino /\ dir'[a].disk # dir'[b].disk
    <3>a. a # o
      BY <2>3, <2>5 DEF NoVM
    <3>1. PICK c \in Names : c = (IF a = n THEN o ELSE a) /\ Exists(c) /\ dir'[a] = dir[c]
      BY <2>2, <2>3, <2>5, <3>a DEF Exists
    <3>2. dir'[a] \in VMs
      BY <2>4, <3>1
    <3>3. CASE b = o
      BY <2>3, <3>2, <3>3 DEF NoVM, VMs
    <3>4. CASE b # o
      <4>1. PICK e \in Names : e = (IF b = n THEN o ELSE b) /\ dir'[b] = dir[e]
        BY <2>3, <3>4
      <4>2. c # e
        BY <2>5, <3>a, <3>1, <3>4, <4>1
      <4>3. QED BY <3>1, <4>1, <4>2 DEF NamesShareNothing
    <3>5. QED BY <3>3, <3>4
  <2>6. QED BY <2>5 DEF NamesShareNothing, Exists
<1>5. CASE SetSave(p)
  <2>1. PICK n \in Names : n = proc[p].name
    BY <1>5 DEF SetSave, TInv, Formed, WellFormed
  <2>2. PICK i \in FreeInodes : dir' = [dir EXCEPT ![n] = [@ EXCEPT !.ino = i, !.mac = proc[p].mac]]
    BY <1>5, <2>1, FreeOnes DEF SetSave
  <2>3. Exists(n) /\ dir[n] \in VMs
    BY <1>5, <2>1 DEF SetSave, Exists, TInv, TypeOK, NoVM
  <2>4. dir'[n].ino = i /\ dir'[n].disk = dir[n].disk /\ \A m \in Names : m # n => dir'[m] = dir[m]
    BY <2>2, <2>3 DEF TInv, TypeOK, VMs
  <2>5. QED BY <2>3, <2>4, OneNameChanges DEF FreeInodes, NamesShareNothing
<1>6. CASE SetDisk(p)
  <2>1. PICK n \in Names : n = proc[p].name
    BY <1>6 DEF SetDisk, TInv, Formed, WellFormed
  <2>2. PICK d \in FreeDisks : dir' = [dir EXCEPT ![n].disk = d]
    BY <1>6, <2>1, FreeOnes DEF SetDisk
  <2>3. Exists(n) /\ dir[n] \in VMs
    BY <1>6, <2>1 DEF SetDisk, Exists, TInv, TypeOK, NoVM
  <2>4. dir'[n].disk = d /\ dir'[n].ino = dir[n].ino /\ \A m \in Names : m # n => dir'[m] = dir[m]
    BY <2>2, <2>3 DEF TInv, TypeOK, VMs
  <2>5. QED BY <2>3, <2>4, OneNameChanges DEF FreeDisks, NamesShareNothing
<1>7. QED
  BY <1>1, <1>2, <1>3, <1>4, <1>5, <1>6
     DEF Change, DeleteOpen, DeleteTrylock, DeleteRunning, CloneStart, CloneHome, CloneCopy,
         CloneMissing, ImportStart, ImportHome, ImportCheckMAC, CreateStart, MoveFails, RenameStart,
         RenameFails, SetLoad, SetMissing, Stops

-----------------------------------------------------------------------------
(* The invariant *)

LEMMA NamesInit == Init => NInv
<1> SUFFICES ASSUME Init PROVE NInv
  OBVIOUS
<1>1. NamesShareNothing
  BY DEF Init, NamesShareNothing, Exists, NoVM
<1>2. MACChecksSerialised
  BY DEF Init, MACChecksSerialised, Idle, Checking
<1>3. QED BY <1>1, <1>2, TInvInit DEF NInv

LEMMA NamesNext == NInv /\ [Next]_vars => NInv'
<1> SUFFICES ASSUME NInv, [Next]_vars PROVE NInv'
  OBVIOUS
<1>1. TInv /\ TInv'
  BY TInvNext DEF NInv
<1>2. CASE UNCHANGED vars
  BY <1>1, <1>2 DEF vars, NInv, NamesShareNothing, MACChecksSerialised, Exists
<1>3. ASSUME NEW p \in Procs, Run(p) \/ Stop(p) \/ Change(p) PROVE NInv'
  BY <1>1, <1>3, RunChecks, StopChecks, ChangeChecks, RunNames, StopNames, ChangeNames DEF NInv
<1>4. ASSUME NEW p \in Procs, Kill(p) PROVE NInv'
  BY <1>1, <1>4, ExitChecks, UnmovedNames DEF Kill, Stops, Unmoved, NInv
<1>5. QED BY <1>2, <1>3, <1>4 DEF Next

(* Whatever commands run beside each other, deletes and renames that take   *)
(* no lock included: no config.json and no disk is under two names, and     *)
(* whoever compares addresses has the home to itself.                       *)
THEOREM NamesKept == Spec => []NamesSafe
<1> HIDE DEF NInv, NamesSafe
<1>1. NInv => NamesSafe
  BY DEF NInv, TInv, NamesSafe
<1>2. QED BY <1>1, NamesInit, NamesNext, PTL DEF Spec
=============================================================================
