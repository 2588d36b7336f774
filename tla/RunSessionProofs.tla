-------------------------- MODULE RunSessionProofs --------------------------
(***************************************************************************)
(* What RunSession keeps, for every number of machines, clients, snapshots *)
(* and moments. Types are kept in every history; that memory and disk are  *)
(* of one moment is proved where reverts happen alone (RevertsAlone), and  *)
(* is false beyond. What is beside a run, the network, emulators, servers,  *)
(* screens and setups of Runs, is safe in every history.                   *)
(***************************************************************************)
EXTENDS Runs, FiniteSetTheorems, SequenceTheorems, TLAPS

USE ConstantsAssumption

TInv == TypeOK /\ Formed

-----------------------------------------------------------------------------
(* The records of the state and their updates *)

LEMMA MachineFields ==
    ASSUME mach \in [Machines -> MachineStates], NEW m \in Machines
    PROVE  mach[m].mem \in Moments \cup {None}
BY DEF MachineStates

LEMMA MachineUpdates ==
    ASSUME NEW f \in [Machines -> MachineStates], NEW m \in Machines
    PROVE  \A x \in {"none", "built", "running", "paused", "stopped"} :
              [f EXCEPT ![m].st = x] \in [Machines -> MachineStates]
BY SMT DEF MachineStates

LEMMA RunFields ==
    ASSUME NEW r \in RunStates
    PROVE  r.stop \in BOOLEAN /\ r.ref \in Snaps \cup {None} /\ r.target \in Snaps \cup {None}
BY Zenon DEF RunStates

LEMMA RunUpdates ==
    ASSUME NEW r \in RunStates
    PROVE  /\ \A b \in BOOLEAN : [r EXCEPT !.cancel = b, !.live = TRUE] \in RunStates
           /\ \A s \in Snaps \cup {None} : [r EXCEPT !.target = s, !.ref = None, !.live = FALSE] \in RunStates
           /\ [r EXCEPT !.target = None, !.sema = FALSE] \in RunStates
           /\ [r EXCEPT !.sema = TRUE] \in RunStates
           /\ [r EXCEPT !.stop = TRUE, !.cancel = TRUE] \in RunStates
           /\ \A s \in Snaps : [r EXCEPT !.ref = s, !.cancel = TRUE] \in RunStates
BY Zenon DEF RunStates

LEMMA ClientFields ==
    ASSUME client \in [Clients -> ClientStates], NEW c \in Clients
    PROVE  client[c].vm \in Machines /\ client[c].got \in Entries /\ client[c].snap \in Snaps \cup {None}
BY DEF ClientStates

-----------------------------------------------------------------------------
(* Types *)

USE DEF TInv, TypeOK, Machines, Accepting, Reverting, Active, NoMachine, NoSnap, NoClient, ClientAt, NoSuspension, Built, Entries

LEMMA LaunchTypes == ASSUME TInv, Launch PROVE TInv'
<1>1. mach' \in [Machines -> MachineStates]
  BY DEF Launch, MachineStates
<1>2. QED BY <1>1, RunFields, MachineFields DEF Launch, Formed

LEMMA TopTypes == ASSUME TInv, Top PROVE TInv'
<1>1. run' \in RunStates
  BY RunUpdates, RunFields DEF Top
<1>2. Formed' /\ (run'.live <=> pc' \in Accepting) /\ (run'.target # None <=> pc' \in Reverting)
  BY DEF Top, Formed, RunStates
<1>3. QED BY <1>1, <1>2, RunFields, MachineFields DEF Top, Formed

LEMMA RestoreTypes == ASSUME TInv, Restore PROVE TInv'
<1>1. mach' \in [Machines -> MachineStates]
  BY DEF Restore, MachineStates
<1>2. QED BY <1>1, RunFields, MachineFields DEF Restore, Formed

LEMMA UnstageTypes == ASSUME TInv, Unstage PROVE TInv'
<1>1. QED BY RunFields, MachineFields DEF Unstage, Formed

LEMMA StartTypes == ASSUME TInv, Start PROVE TInv'
<1>1. mach' \in [Machines -> MachineStates]
  <2>1. CASE pc = "boot"
    BY <2>1 DEF Start, MachineStates
  <2>2. CASE pc = "resume"
    <3>1. mach' = [mach EXCEPT ![cur].st = "running"]
      BY <2>2 DEF Start
    <3>2. QED BY <3>1, MachineUpdates
  <2>3. QED BY <2>1, <2>2 DEF Start
<1>2. QED BY <1>1, RunFields, MachineFields DEF Start, Formed

LEMMA ExitsTypes == ASSUME TInv, Exits PROVE TInv'
<1>1. mach' \in [Machines -> MachineStates]
  BY DEF Exits, Exit, MachineStates
<1>2. run' \in RunStates
  BY DEF Exits, Exit, RunStates
<1>3. client' \in [Clients -> ClientStates]
  BY ClientFields, MachineFields DEF Exits, Exit, ClientStates
<1>4. Formed' /\ (run'.live <=> pc' \in Accepting) /\ (run'.target # None <=> pc' \in Reverting)
  BY ClientFields DEF Exits, Exit, Formed, RunStates, ClientStates
<1>5. pc' = "exited" /\ cur' \in Machines /\ susp' \in [pc : {"idle", "save", "cancel"}, vm : Machines]
  BY DEF Exits, Exit
<1>6. UNCHANGED <<disk, state, snaps, mix>>
  BY DEF Exits
<1>7. QED BY <1>1, <1>2, <1>3, <1>4, <1>5, <1>6

LEMMA RunWakesTypes == ASSUME TInv, RunWakes PROVE TInv'
<1>1. QED BY RunFields, MachineFields DEF RunWakes, Formed

LEMMA RunStopsTypes == ASSUME TInv, RunStops PROVE TInv'
<1>1. mach' \in [Machines -> MachineStates]
  BY MachineUpdates DEF RunStops
<1>2. QED BY <1>1, RunFields, MachineFields DEF RunStops, Formed

LEMMA ClaimTypes == ASSUME TInv, Claim PROVE TInv'
<1>1. run' \in RunStates
  BY RunUpdates, RunFields DEF Claim
<1>2. Formed' /\ (run'.live <=> pc' \in Accepting) /\ (run'.target # None <=> pc' \in Reverting)
  BY DEF Claim, Formed, RunStates
<1>3. QED BY <1>1, <1>2, RunFields, MachineFields DEF Claim, Formed

LEMMA RevertDiskTypes == ASSUME TInv, RevertDisk PROVE TInv'
<1>1. QED BY RunFields, MachineFields DEF RevertDisk, Formed

LEMMA RevertStateTypes == ASSUME TInv, RevertState PROVE TInv'
<1>1. QED BY RunFields, MachineFields DEF RevertState, Formed

LEMMA RebuildTypes == ASSUME TInv, Rebuild PROVE TInv'
<1>1. mach' \in [Machines -> MachineStates]
  BY DEF Rebuild, MachineStates
<1>2. run' \in RunStates
  BY RunUpdates, RunFields DEF Rebuild
<1>3. Formed' /\ (run'.live <=> pc' \in Accepting) /\ (run'.target # None <=> pc' \in Reverting)
  BY DEF Rebuild, Formed, RunStates
<1>4. QED BY <1>1, <1>2, <1>3, RunFields, MachineFields DEF Rebuild, Formed

LEMMA GuestWritesTypes == ASSUME TInv, NEW m \in Machines, GuestWrites(m) PROVE TInv'
<1>1. mach' \in [Machines -> MachineStates]
  BY DEF GuestWrites, MachineStates
<1>2. QED BY <1>1, RunFields, MachineFields DEF GuestWrites, Formed

LEMMA GuestEndsTypes == ASSUME TInv, NEW m \in Machines, GuestEnds(m) PROVE TInv'
<1>1. mach' \in [Machines -> MachineStates]
  BY MachineUpdates DEF GuestEnds
<1>2. run' \in RunStates
  BY RunUpdates, RunFields DEF GuestEnds
<1>3. Formed' /\ (run'.live <=> pc' \in Accepting) /\ (run'.target # None <=> pc' \in Reverting)
  <2>1. run'.live = run.live /\ run'.ref = run.ref /\ run'.target = run.target
    BY DEF GuestEnds, RunStates
  <2>2. pc # "exited" /\ UNCHANGED <<pc, cur, snaps, client>>
    BY DEF GuestEnds, Formed
  <2>3. QED BY <2>1, <2>2 DEF Formed
<1>4. QED BY <1>1, <1>2, <1>3, RunFields, MachineFields DEF GuestEnds, Formed

LEMMA NetworkLostTypes == ASSUME TInv, NetworkLost PROVE TInv'
<1>1. run' \in RunStates
  BY RunUpdates, RunFields DEF NetworkLost
<1>2. Formed' /\ (run'.live <=> pc' \in Accepting) /\ (run'.target # None <=> pc' \in Reverting)
  BY DEF NetworkLost, Formed, RunStates
<1>3. QED BY <1>1, <1>2, RunFields, MachineFields DEF NetworkLost, Formed

LEMMA InterruptTypes == ASSUME TInv, Interrupt PROVE TInv'
<1>1. run' \in RunStates
  BY RunUpdates, RunFields DEF Interrupt
<1>2. Formed' /\ (run'.live <=> pc' \in Accepting) /\ (run'.target # None <=> pc' \in Reverting)
  BY DEF Interrupt, Formed, RunStates
<1>3. QED BY <1>1, <1>2, RunFields, MachineFields DEF Interrupt, Formed

LEMMA TriggerRevertTypes == ASSUME TInv, NEW s \in Snaps, TriggerRevert(s) PROVE TInv'
<1>1. run' \in RunStates
  BY RunUpdates, RunFields DEF TriggerRevert
<1>2. Formed' /\ (run'.live <=> pc' \in Accepting) /\ (run'.target # None <=> pc' \in Reverting)
  BY DEF TriggerRevert, Formed, RunStates
<1>3. QED BY <1>1, <1>2, RunFields, MachineFields DEF TriggerRevert, Formed

LEMMA SuspendPauseTypes == ASSUME TInv, SuspendPause PROVE TInv'
<1>1. mach' \in [Machines -> MachineStates]
  BY MachineUpdates DEF SuspendPause
<1>2. QED BY <1>1, RunFields, MachineFields DEF SuspendPause, Formed

LEMMA SuspendSavesTypes == ASSUME TInv, SuspendSaves PROVE TInv'
<1>1. QED BY RunFields, MachineFields DEF SuspendSaves, Formed

LEMMA SuspendCancelsTypes == ASSUME TInv, SuspendCancels PROVE TInv'
<1>1. run' \in RunStates
  BY RunUpdates, RunFields DEF SuspendCancels
<1>2. Formed' /\ (run'.live <=> pc' \in Accepting) /\ (run'.target # None <=> pc' \in Reverting)
  BY DEF SuspendCancels, Formed, RunStates
<1>3. QED BY <1>1, <1>2, RunFields, MachineFields DEF SuspendCancels, Formed

LEMMA CreatePauseTypes == ASSUME TInv, NEW c \in Clients, CreatePause(c) PROVE TInv'
<1>1. mach' \in [Machines -> MachineStates]
  BY MachineUpdates DEF CreatePause
<1>2. client' \in [Clients -> ClientStates]
  BY ClientFields, MachineFields DEF CreatePause, ClientStates
<1>3. Formed' /\ (run'.live <=> pc' \in Accepting) /\ (run'.target # None <=> pc' \in Reverting)
  BY ClientFields DEF CreatePause, Formed, RunStates, ClientStates
<1>4. QED BY <1>1, <1>2, <1>3, RunFields, MachineFields DEF CreatePause, Formed

LEMMA CreateCloneToTypes == ASSUME TInv, NEW c \in Clients, NEW s \in Snaps, CreateCloneTo(c, s) PROVE TInv'
<1>1. client' \in [Clients -> ClientStates]
  BY ClientFields, MachineFields DEF CreateCloneTo, ClientStates
<1>2. Formed' /\ (run'.live <=> pc' \in Accepting) /\ (run'.target # None <=> pc' \in Reverting)
  BY ClientFields DEF CreateCloneTo, Formed, RunStates, ClientStates
<1>3. QED BY <1>1, <1>2, RunFields, MachineFields DEF CreateCloneTo, Formed

LEMMA CreateCloneFailsTypes == ASSUME TInv, NEW c \in Clients, CreateCloneFails(c) PROVE TInv'
<1>1. client' \in [Clients -> ClientStates]
  BY ClientFields, MachineFields DEF CreateCloneFails, ClientStates
<1>2. Formed' /\ (run'.live <=> pc' \in Accepting) /\ (run'.target # None <=> pc' \in Reverting)
  BY ClientFields DEF CreateCloneFails, Formed, RunStates, ClientStates
<1>3. QED BY <1>1, <1>2, RunFields, MachineFields DEF CreateCloneFails, Formed

LEMMA CreateSaveOkTypes == ASSUME TInv, NEW c \in Clients, CreateSaveOk(c) PROVE TInv'
<1>1. client' \in [Clients -> ClientStates]
  BY ClientFields, MachineFields DEF CreateSaveOk, ClientStates
<1>2. Formed' /\ (run'.live <=> pc' \in Accepting) /\ (run'.target # None <=> pc' \in Reverting)
  BY ClientFields DEF CreateSaveOk, Formed, RunStates, ClientStates
<1>3. QED BY <1>1, <1>2, RunFields, MachineFields DEF CreateSaveOk, Formed

LEMMA CreateFailsTypes == ASSUME TInv, NEW c \in Clients, CreateFails(c) PROVE TInv'
<1>1. client' \in [Clients -> ClientStates]
  BY ClientFields, MachineFields DEF CreateFails, ClientStates
<1>2. Formed' /\ (run'.live <=> pc' \in Accepting) /\ (run'.target # None <=> pc' \in Reverting)
  BY ClientFields DEF CreateFails, Formed, RunStates, ClientStates
<1>3. QED BY <1>1, <1>2, RunFields, MachineFields DEF CreateFails, Formed

LEMMA CreateIndexTypes == ASSUME TInv, NEW c \in Clients, CreateIndex(c) PROVE TInv'
<1>1. snaps' \in [Snaps -> Entries]
  BY ClientFields DEF CreateIndex
<1>2. client' \in [Clients -> ClientStates]
  BY ClientFields, MachineFields DEF CreateIndex, ClientStates
<1>3. Formed' /\ (run'.live <=> pc' \in Accepting) /\ (run'.target # None <=> pc' \in Reverting)
  BY ClientFields DEF CreateIndex, Formed, RunStates, ClientStates
<1>4. QED BY <1>1, <1>2, <1>3, RunFields, MachineFields DEF CreateIndex, Formed

LEMMA CreateResumeTypes == ASSUME TInv, NEW c \in Clients, CreateResume(c) PROVE TInv'
<1>1. mach' \in [Machines -> MachineStates]
  <2>1. CASE mach[client[c].vm].st = "paused"
    BY <2>1, ClientFields, MachineUpdates DEF CreateResume
  <2>2. CASE mach[client[c].vm].st # "paused"
    BY <2>2 DEF CreateResume
  <2>3. QED BY <2>1, <2>2
<1>2. client' \in [Clients -> ClientStates]
  BY ClientFields, MachineFields DEF CreateResume, ClientStates
<1>3. Formed' /\ (run'.live <=> pc' \in Accepting) /\ (run'.target # None <=> pc' \in Reverting)
  BY ClientFields DEF CreateResume, Formed, RunStates, ClientStates
<1>4. QED BY <1>1, <1>2, <1>3, RunFields, MachineFields DEF CreateResume, Formed

LEMMA InitTypes == Init => TInv
<1> SUFFICES ASSUME Init PROVE TInv
  OBVIOUS
<1>1. mach \in [Machines -> MachineStates]
  BY DEF Init, MachineStates
<1>2. run \in RunStates
  BY DEF Init, RunStates
<1>3. client \in [Clients -> ClientStates]
  BY DEF Init, ClientStates
<1>4. snaps \in [Snaps -> Entries] /\ \A s \in Snaps : snaps[s].disk = None => snaps[s].state = None
  <2>1. CASE "revert" \in mix
    <3>1. PICK m \in Moments \ {disk} : snaps \in [Snaps -> {[disk |-> m, state |-> m], [disk |-> m, state |-> None]}]
      BY <2>1 DEF Init
    <3>2. QED BY <3>1
  <2>2. CASE "revert" \notin mix
    BY <2>2 DEF Init
  <2>3. QED BY <2>1, <2>2
<1>5. Formed /\ (run.live <=> pc \in Accepting) /\ (run.target # None <=> pc \in Reverting)
  BY <1>4 DEF Init, Formed
<1>6. cur \in Machines /\ disk \in Moments /\ susp \in [pc : {"idle", "save", "cancel"}, vm : Machines]
  BY DEF Init
<1>7. QED BY <1>1, <1>2, <1>3, <1>4, <1>5, <1>6 DEF Init

LEMMA NextTypes == TInv /\ [Next]_vars => TInv'
<1> SUFFICES ASSUME TInv, [Next]_vars PROVE TInv'
  OBVIOUS
<1> HIDE DEF TInv
<1>1. CASE Exits
  BY <1>1, ExitsTypes
<1>2. CASE Launch
  BY <1>2, LaunchTypes
<1>3. CASE Drive
  BY <1>3, TopTypes, RestoreTypes, UnstageTypes, StartTypes, ExitsTypes, RunWakesTypes, RunStopsTypes,
      ClaimTypes, RevertDiskTypes, RevertStateTypes, RebuildTypes DEF Drive, Fails, RunStopFails, Ends
<1>4. CASE \E m \in Machines : GuestWrites(m) \/ GuestEnds(m)
  BY <1>4, GuestWritesTypes, GuestEndsTypes
<1>5. CASE NetworkLost \/ Interrupt \/ Kill \/ \E s \in Snaps : TriggerRevert(s)
  BY <1>5, NetworkLostTypes, InterruptTypes, TriggerRevertTypes, ExitsTypes DEF Kill
<1>6. CASE SuspendPause \/ SuspendPauseFails \/ SuspendStep
  BY <1>6, SuspendPauseTypes, SuspendSavesTypes, SuspendCancelsTypes, ExitsTypes
     DEF SuspendPauseFails, SuspendStep, SuspendFails
<1>7. CASE \E c \in Clients : CreatePause(c) \/ CreateStep(c)
  BY <1>7, CreatePauseTypes, CreateCloneToTypes, CreateCloneFailsTypes, CreateSaveOkTypes,
      CreateFailsTypes, CreateIndexTypes, CreateResumeTypes DEF CreateStep
<1>8. CASE UNCHANGED vars
  BY <1>8 DEF vars, TInv, Formed
<1>9. QED BY <1>2, <1>3, <1>4, <1>5, <1>6, <1>7, <1>8 DEF Next

(* Whatever is mixed in a history, states keep their types: a machine's     *)
(* records, a client's copies, and a step of driveVM and what it has.       *)
THEOREM TypeCorrect == Spec => []TypeOK
<1>1. Init => TInv
  BY InitTypes
<1>2. TInv /\ [Next]_vars => TInv'
  BY NextTypes
<1>3. TInv => TypeOK
  BY DEF TInv
<1>4. QED BY <1>1, <1>2, <1>3, PTL DEF Spec

-----------------------------------------------------------------------------
(* What a step keeps where reverts happen alone. *)

USE DEF AfterStart, Quiet, MachineStates, ClientStates, RunStates

LEMMA LaunchKeeps == ASSUME IInv, TInv', RevertsAlone, Launch PROVE IInv'
<1> USE DEF Launch
<1>1. Apart'
  BY SMT DEF IInv, Apart
<1>2. OneStarted'
  BY SMT DEF IInv, OneStarted, Formed
<1>3. OnePauser'
  BY SMT DEF IInv, OnePauser
<1>4. StagedMatches'
  BY SMT DEF IInv, StagedMatches
<1>5. RevertsStopped'
  BY SMT DEF IInv, RevertsStopped, Formed
<1>6. MachineMatchesDisk'
  BY SMT DEF IInv, MachineMatchesDisk
<1>7. SnapshotsWhole'
  BY SMT DEF IInv, SnapshotsWhole
<1>8. QED BY <1>1, <1>2, <1>3, <1>4, <1>5, <1>6, <1>7 DEF TInv, IInv

LEMMA TopKeeps == ASSUME IInv, TInv', RevertsAlone, Top PROVE IInv'
<1> USE DEF Top
<1>1. Apart'
  BY SMT DEF IInv, Apart
<1>2. OneStarted'
  BY SMT DEF IInv, OneStarted
<1>3. OnePauser'
  BY SMT DEF IInv, OnePauser
<1>4. StagedMatches'
  BY SMT DEF IInv, StagedMatches
<1>5. RevertsStopped'
  BY SMT DEF IInv, RevertsStopped
<1>6. MachineMatchesDisk'
  BY SMT DEF IInv, MachineMatchesDisk
<1>7. SnapshotsWhole'
  BY SMT DEF IInv, SnapshotsWhole
<1>8. QED BY <1>1, <1>2, <1>3, <1>4, <1>5, <1>6, <1>7 DEF TInv, IInv

LEMMA RestoreKeeps == ASSUME IInv, TInv', RevertsAlone, Restore PROVE IInv'
<1> USE DEF Restore
<1>1. Apart'
  BY SMT DEF IInv, Apart
<1>2. OneStarted'
  BY SMT DEF IInv, OneStarted
<1>3. OnePauser'
  BY SMT DEF IInv, OnePauser
<1>4. StagedMatches'
  BY SMT DEF IInv, StagedMatches
<1>5. RevertsStopped'
  BY SMT DEF IInv, RevertsStopped, OneStarted
<1>6. MachineMatchesDisk'
  BY SMT DEF IInv, MachineMatchesDisk, StagedMatches
<1>7. SnapshotsWhole'
  BY SMT DEF IInv, SnapshotsWhole
<1>8. QED BY <1>1, <1>2, <1>3, <1>4, <1>5, <1>6, <1>7 DEF TInv, IInv

LEMMA UnstageKeeps == ASSUME IInv, TInv', RevertsAlone, Unstage PROVE IInv'
<1> USE DEF Unstage
<1>1. Apart'
  BY SMT DEF IInv, Apart
<1>2. OneStarted'
  BY SMT DEF IInv, OneStarted
<1>3. OnePauser'
  BY SMT DEF IInv, OnePauser
<1>4. StagedMatches'
  BY SMT DEF IInv, StagedMatches
<1>5. RevertsStopped'
  BY SMT DEF IInv, RevertsStopped
<1>6. MachineMatchesDisk'
  BY SMT DEF IInv, MachineMatchesDisk
<1>7. SnapshotsWhole'
  BY SMT DEF IInv, SnapshotsWhole
<1>8. QED BY <1>1, <1>2, <1>3, <1>4, <1>5, <1>6, <1>7 DEF TInv, IInv

LEMMA StartKeeps == ASSUME IInv, TInv', RevertsAlone, Start PROVE IInv'
<1> USE DEF Start
<1>1. Apart'
  BY SMT DEF IInv, Apart
<1>2. OneStarted'
  BY SMT DEF IInv, OneStarted
<1>3. OnePauser'
  BY SMT DEF IInv, OnePauser
<1>4. StagedMatches'
  BY SMT DEF IInv, StagedMatches
<1>5. RevertsStopped'
  BY SMT DEF IInv, RevertsStopped, OneStarted, StagedMatches
<1>6. MachineMatchesDisk'
  BY SMTT(30) DEF IInv, MachineMatchesDisk, OneStarted, RevertsStopped
<1>7. SnapshotsWhole'
  BY SMT DEF IInv, SnapshotsWhole
<1>8. QED BY <1>1, <1>2, <1>3, <1>4, <1>5, <1>6, <1>7 DEF TInv, IInv

LEMMA ExitsKeeps == ASSUME IInv, TInv', RevertsAlone, Exits PROVE IInv'
<1> USE DEF Exits, Exit
<1>1. Apart'
  BY SMT DEF IInv, Apart
<1>2. OneStarted'
  BY SMT DEF IInv, OneStarted
<1>3. OnePauser'
  BY SMT DEF IInv, OnePauser
<1>4. StagedMatches'
  BY SMT DEF IInv, StagedMatches
<1>5. RevertsStopped'
  BY SMT DEF IInv, RevertsStopped
<1>6. MachineMatchesDisk'
  BY SMT DEF IInv, MachineMatchesDisk
<1>7. SnapshotsWhole'
  BY SMT DEF IInv, SnapshotsWhole
<1>8. QED BY <1>1, <1>2, <1>3, <1>4, <1>5, <1>6, <1>7 DEF TInv, IInv

LEMMA RunWakesKeeps == ASSUME IInv, TInv', RevertsAlone, RunWakes PROVE IInv'
<1> USE DEF RunWakes
<1>1. Apart'
  BY SMT DEF IInv, Apart
<1>2. OneStarted'
  BY SMT DEF IInv, OneStarted
<1>3. OnePauser'
  BY SMT DEF IInv, OnePauser
<1>4. StagedMatches'
  BY SMT DEF IInv, StagedMatches
<1>5. RevertsStopped'
  BY SMT DEF IInv, RevertsStopped
<1>6. MachineMatchesDisk'
  BY SMT DEF IInv, MachineMatchesDisk
<1>7. SnapshotsWhole'
  BY SMT DEF IInv, SnapshotsWhole
<1>8. QED BY <1>1, <1>2, <1>3, <1>4, <1>5, <1>6, <1>7 DEF TInv, IInv

LEMMA RunStopsKeeps == ASSUME IInv, TInv', RevertsAlone, RunStops PROVE IInv'
<1> USE DEF RunStops
<1>1. Apart'
  BY SMT DEF IInv, Apart
<1>2. OneStarted'
  BY SMT DEF IInv, OneStarted
<1>3. OnePauser'
  BY SMT DEF IInv, OnePauser
<1>4. StagedMatches'
  BY SMT DEF IInv, StagedMatches
<1>5. RevertsStopped'
  BY SMT DEF IInv, RevertsStopped
<1>6. MachineMatchesDisk'
  BY SMT DEF IInv, MachineMatchesDisk
<1>7. SnapshotsWhole'
  BY SMT DEF IInv, SnapshotsWhole
<1>8. QED BY <1>1, <1>2, <1>3, <1>4, <1>5, <1>6, <1>7 DEF TInv, IInv

LEMMA ClaimKeeps == ASSUME IInv, TInv', RevertsAlone, Claim PROVE IInv'
<1> USE DEF Claim
<1>1. Apart'
  BY SMT DEF IInv, Apart
<1>2. OneStarted'
  BY SMT DEF IInv, OneStarted, RevertsStopped, Apart
<1>3. OnePauser'
  BY SMT DEF IInv, OnePauser, Apart
<1>4. StagedMatches'
  BY SMT DEF IInv, StagedMatches
<1>5. RevertsStopped'
  BY SMT DEF IInv, RevertsStopped
<1>6. MachineMatchesDisk'
  BY SMT DEF IInv, MachineMatchesDisk
<1>7. SnapshotsWhole'
  BY SMT DEF IInv, SnapshotsWhole
<1>8. QED BY <1>1, <1>2, <1>3, <1>4, <1>5, <1>6, <1>7 DEF TInv, IInv

LEMMA RevertDiskKeeps == ASSUME IInv, TInv', RevertsAlone, RevertDisk PROVE IInv'
<1> USE DEF RevertDisk
<1>1. Apart'
  BY SMT DEF IInv, Apart
<1>2. OneStarted'
  BY SMT DEF IInv, OneStarted
<1>3. OnePauser'
  BY SMT DEF IInv, OnePauser
<1>4. StagedMatches'
  BY SMT DEF IInv, StagedMatches, RevertsStopped, Apart
<1>5. RevertsStopped'
  BY SMT DEF IInv, RevertsStopped
<1>6. MachineMatchesDisk'
  BY SMT DEF IInv, MachineMatchesDisk, OneStarted
<1>7. SnapshotsWhole'
  BY SMT DEF IInv, SnapshotsWhole
<1>8. QED BY <1>1, <1>2, <1>3, <1>4, <1>5, <1>6, <1>7 DEF TInv, IInv

LEMMA RevertStateKeeps == ASSUME IInv, TInv', RevertsAlone, RevertState PROVE IInv'
<1> USE DEF RevertState
<1>1. Apart'
  BY SMT DEF IInv, Apart
<1>2. OneStarted'
  BY SMT DEF IInv, OneStarted
<1>3. OnePauser'
  BY SMT DEF IInv, OnePauser
<1>4. StagedMatches'
  BY SMT DEF IInv, StagedMatches, RevertsStopped, Apart, SnapshotsWhole
<1>5. RevertsStopped'
  BY SMT DEF IInv, RevertsStopped
<1>6. MachineMatchesDisk'
  BY SMT DEF IInv, MachineMatchesDisk
<1>7. SnapshotsWhole'
  BY SMT DEF IInv, SnapshotsWhole
<1>8. QED BY <1>1, <1>2, <1>3, <1>4, <1>5, <1>6, <1>7 DEF TInv, IInv

LEMMA RebuildKeeps == ASSUME IInv, TInv', RevertsAlone, Rebuild PROVE IInv'
<1> USE DEF Rebuild
<1>1. Apart'
  BY SMT DEF IInv, Apart
<1>2. OneStarted'
  BY SMT DEF IInv, OneStarted
<1>3. OnePauser'
  BY SMT DEF IInv, OnePauser
<1>4. StagedMatches'
  BY SMT DEF IInv, StagedMatches
<1>5. RevertsStopped'
  BY SMT DEF IInv, RevertsStopped
<1>6. MachineMatchesDisk'
  BY SMT DEF IInv, MachineMatchesDisk
<1>7. SnapshotsWhole'
  BY SMT DEF IInv, SnapshotsWhole
<1>8. QED BY <1>1, <1>2, <1>3, <1>4, <1>5, <1>6, <1>7 DEF TInv, IInv

LEMMA GuestWritesKeeps == ASSUME IInv, TInv', RevertsAlone, NEW m \in Machines, GuestWrites(m) PROVE IInv'
<1> USE DEF GuestWrites
<1>1. Apart'
  BY SMT DEF IInv, Apart, OneStarted, OnePauser
<1>2. OneStarted'
  BY SMT DEF IInv, OneStarted
<1>3. OnePauser'
  BY SMT DEF IInv, OnePauser
<1>4. StagedMatches'
  BY SMT DEF IInv, StagedMatches, OneStarted
<1>5. RevertsStopped'
  BY SMT DEF IInv, RevertsStopped, OneStarted
<1>6. MachineMatchesDisk'
  BY SMT DEF IInv, MachineMatchesDisk, OneStarted
<1>7. SnapshotsWhole'
  BY SMT DEF IInv, SnapshotsWhole
<1>8. QED BY <1>1, <1>2, <1>3, <1>4, <1>5, <1>6, <1>7 DEF TInv, IInv

LEMMA GuestEndsKeeps == ASSUME IInv, TInv', RevertsAlone, NEW m \in Machines, GuestEnds(m) PROVE IInv'
<1> USE DEF GuestEnds
<1>1. Apart'
  BY SMT DEF IInv, Apart
<1>2. OneStarted'
  BY SMT DEF IInv, OneStarted
<1>3. OnePauser'
  BY SMT DEF IInv, OnePauser
<1>4. StagedMatches'
  BY SMT DEF IInv, StagedMatches
<1>5. RevertsStopped'
  BY SMT DEF IInv, RevertsStopped
<1>6. MachineMatchesDisk'
  BY SMT DEF IInv, MachineMatchesDisk
<1>7. SnapshotsWhole'
  BY SMT DEF IInv, SnapshotsWhole
<1>8. QED BY <1>1, <1>2, <1>3, <1>4, <1>5, <1>6, <1>7 DEF TInv, IInv

LEMMA NetworkLostKeeps == ASSUME IInv, TInv', RevertsAlone, NetworkLost PROVE IInv'
<1> USE DEF NetworkLost
<1>1. Apart'
  BY SMT DEF IInv, Apart
<1>2. OneStarted'
  BY SMT DEF IInv, OneStarted
<1>3. OnePauser'
  BY SMT DEF IInv, OnePauser
<1>4. StagedMatches'
  BY SMT DEF IInv, StagedMatches
<1>5. RevertsStopped'
  BY SMT DEF IInv, RevertsStopped, RevertsAlone
<1>6. MachineMatchesDisk'
  BY SMT DEF IInv, MachineMatchesDisk
<1>7. SnapshotsWhole'
  BY SMT DEF IInv, SnapshotsWhole
<1>8. QED BY <1>1, <1>2, <1>3, <1>4, <1>5, <1>6, <1>7 DEF TInv, IInv

LEMMA InterruptKeeps == ASSUME IInv, TInv', RevertsAlone, Interrupt PROVE IInv'
<1> USE DEF Interrupt
<1>1. Apart'
  BY SMT DEF IInv, Apart
<1>2. OneStarted'
  BY SMT DEF IInv, OneStarted
<1>3. OnePauser'
  BY SMT DEF IInv, OnePauser
<1>4. StagedMatches'
  BY SMT DEF IInv, StagedMatches
<1>5. RevertsStopped'
  BY SMT DEF IInv, RevertsStopped
<1>6. MachineMatchesDisk'
  BY SMT DEF IInv, MachineMatchesDisk
<1>7. SnapshotsWhole'
  BY SMT DEF IInv, SnapshotsWhole
<1>8. QED BY <1>1, <1>2, <1>3, <1>4, <1>5, <1>6, <1>7 DEF TInv, IInv

LEMMA TriggerRevertKeeps == ASSUME IInv, TInv', RevertsAlone, NEW s \in Snaps, TriggerRevert(s) PROVE IInv'
<1> USE DEF TriggerRevert
<1>1. Apart'
  BY SMT DEF IInv, Apart
<1>2. OneStarted'
  BY SMT DEF IInv, OneStarted
<1>3. OnePauser'
  BY SMT DEF IInv, OnePauser
<1>4. StagedMatches'
  BY SMT DEF IInv, StagedMatches
<1>5. RevertsStopped'
  BY SMT DEF IInv, RevertsStopped
<1>6. MachineMatchesDisk'
  BY SMT DEF IInv, MachineMatchesDisk
<1>7. SnapshotsWhole'
  BY SMT DEF IInv, SnapshotsWhole
<1>8. QED BY <1>1, <1>2, <1>3, <1>4, <1>5, <1>6, <1>7 DEF TInv, IInv

LEMMA SuspendPauseKeeps == ASSUME IInv, TInv', RevertsAlone, SuspendPause PROVE IInv'
<1> USE DEF SuspendPause
<1>1. Apart'
  BY SMT DEF IInv, Apart, RevertsAlone
<1>2. OneStarted'
  BY SMT DEF IInv, OneStarted
<1>3. OnePauser'
  BY SMT DEF IInv, OnePauser, OneStarted
<1>4. StagedMatches'
  BY SMT DEF IInv, StagedMatches
<1>5. RevertsStopped'
  BY SMT DEF IInv, RevertsStopped, RevertsAlone
<1>6. MachineMatchesDisk'
  BY SMT DEF IInv, MachineMatchesDisk
<1>7. SnapshotsWhole'
  BY SMT DEF IInv, SnapshotsWhole
<1>8. QED BY <1>1, <1>2, <1>3, <1>4, <1>5, <1>6, <1>7 DEF TInv, IInv

LEMMA SuspendSavesKeeps == ASSUME IInv, TInv', RevertsAlone, SuspendSaves PROVE IInv'
<1> USE DEF SuspendSaves
<1>1. Apart'
  BY SMT DEF IInv, Apart
<1>2. OneStarted'
  BY SMT DEF IInv, OneStarted
<1>3. OnePauser'
  BY SMT DEF IInv, OnePauser
<1>4. StagedMatches'
  BY SMT DEF IInv, StagedMatches, OnePauser, MachineMatchesDisk
<1>5. RevertsStopped'
  BY SMT DEF IInv, RevertsStopped, OneStarted
<1>6. MachineMatchesDisk'
  BY SMT DEF IInv, MachineMatchesDisk
<1>7. SnapshotsWhole'
  BY SMT DEF IInv, SnapshotsWhole
<1>8. QED BY <1>1, <1>2, <1>3, <1>4, <1>5, <1>6, <1>7 DEF TInv, IInv

LEMMA SuspendCancelsKeeps == ASSUME IInv, TInv', RevertsAlone, SuspendCancels PROVE IInv'
<1> USE DEF SuspendCancels
<1>1. Apart'
  BY SMT DEF IInv, Apart
<1>2. OneStarted'
  BY SMT DEF IInv, OneStarted
<1>3. OnePauser'
  BY SMT DEF IInv, OnePauser
<1>4. StagedMatches'
  BY SMT DEF IInv, StagedMatches
<1>5. RevertsStopped'
  BY SMT DEF IInv, RevertsStopped
<1>6. MachineMatchesDisk'
  BY SMT DEF IInv, MachineMatchesDisk
<1>7. SnapshotsWhole'
  BY SMT DEF IInv, SnapshotsWhole
<1>8. QED BY <1>1, <1>2, <1>3, <1>4, <1>5, <1>6, <1>7 DEF TInv, IInv

LEMMA CreatePauseKeeps == ASSUME IInv, TInv', RevertsAlone, NEW c \in Clients, CreatePause(c) PROVE IInv'
<1> USE DEF CreatePause
<1>1. Apart'
  BY SMT DEF IInv, Apart, RevertsAlone
<1>2. OneStarted'
  BY SMT DEF IInv, OneStarted
<1>3. OnePauser'
  BY SMT DEF IInv, OnePauser, OneStarted, StagedMatches
<1>4. StagedMatches'
  BY SMT DEF IInv, StagedMatches
<1>5. RevertsStopped'
  BY SMT DEF IInv, RevertsStopped, RevertsAlone
<1>6. MachineMatchesDisk'
  BY SMT DEF IInv, MachineMatchesDisk
<1>7. SnapshotsWhole'
  BY SMT DEF IInv, SnapshotsWhole
<1>8. QED BY <1>1, <1>2, <1>3, <1>4, <1>5, <1>6, <1>7 DEF TInv, IInv

LEMMA CreateCloneToKeeps ==
    ASSUME IInv, TInv', RevertsAlone, NEW c \in Clients, NEW s \in Snaps, CreateCloneTo(c, s)
    PROVE  IInv'
<1> USE DEF CreateCloneTo
<1>1. Apart'
  BY SMT DEF IInv, Apart
<1>2. OneStarted'
  BY SMT DEF IInv, OneStarted
<1>3. OnePauser'
  BY SMT DEF IInv, OnePauser
<1>4. StagedMatches'
  BY SMT DEF IInv, StagedMatches
<1>5. RevertsStopped'
  BY SMT DEF IInv, RevertsStopped
<1>6. MachineMatchesDisk'
  BY SMT DEF IInv, MachineMatchesDisk
<1>7. SnapshotsWhole'
  BY SMT DEF IInv, SnapshotsWhole
<1>8. QED BY <1>1, <1>2, <1>3, <1>4, <1>5, <1>6, <1>7 DEF TInv, IInv

LEMMA CreateCloneFailsKeeps ==
    ASSUME IInv, TInv', RevertsAlone, NEW c \in Clients, CreateCloneFails(c)
    PROVE  IInv'
<1> USE DEF CreateCloneFails
<1>1. Apart'
  BY SMT DEF IInv, Apart
<1>2. OneStarted'
  BY SMT DEF IInv, OneStarted
<1>3. OnePauser'
  BY SMT DEF IInv, OnePauser
<1>4. StagedMatches'
  BY SMT DEF IInv, StagedMatches
<1>5. RevertsStopped'
  BY SMT DEF IInv, RevertsStopped
<1>6. MachineMatchesDisk'
  BY SMT DEF IInv, MachineMatchesDisk
<1>7. SnapshotsWhole'
  BY SMT DEF IInv, SnapshotsWhole
<1>8. QED BY <1>1, <1>2, <1>3, <1>4, <1>5, <1>6, <1>7 DEF TInv, IInv

LEMMA CreateSaveOkKeeps == ASSUME IInv, TInv', RevertsAlone, NEW c \in Clients, CreateSaveOk(c) PROVE IInv'
<1> USE DEF CreateSaveOk
<1>1. Apart'
  BY SMT DEF IInv, Apart, MachineMatchesDisk
<1>2. OneStarted'
  BY SMT DEF IInv, OneStarted
<1>3. OnePauser'
  BY SMT DEF IInv, OnePauser
<1>4. StagedMatches'
  BY SMT DEF IInv, StagedMatches
<1>5. RevertsStopped'
  BY SMT DEF IInv, RevertsStopped
<1>6. MachineMatchesDisk'
  BY SMT DEF IInv, MachineMatchesDisk
<1>7. SnapshotsWhole'
  BY SMT DEF IInv, SnapshotsWhole
<1>8. QED BY <1>1, <1>2, <1>3, <1>4, <1>5, <1>6, <1>7 DEF TInv, IInv

LEMMA CreateFailsKeeps == ASSUME IInv, TInv', RevertsAlone, NEW c \in Clients, CreateFails(c) PROVE IInv'
<1> USE DEF CreateFails
<1>1. Apart'
  BY SMT DEF IInv, Apart
<1>2. OneStarted'
  BY SMT DEF IInv, OneStarted
<1>3. OnePauser'
  BY SMT DEF IInv, OnePauser
<1>4. StagedMatches'
  BY SMT DEF IInv, StagedMatches
<1>5. RevertsStopped'
  BY SMT DEF IInv, RevertsStopped
<1>6. MachineMatchesDisk'
  BY SMT DEF IInv, MachineMatchesDisk
<1>7. SnapshotsWhole'
  BY SMT DEF IInv, SnapshotsWhole
<1>8. QED BY <1>1, <1>2, <1>3, <1>4, <1>5, <1>6, <1>7 DEF TInv, IInv

LEMMA CreateIndexKeeps == ASSUME IInv, TInv', RevertsAlone, NEW c \in Clients, CreateIndex(c) PROVE IInv'
<1> USE DEF CreateIndex
<1>1. Apart'
  BY SMT DEF IInv, Apart
<1>2. OneStarted'
  BY SMT DEF IInv, OneStarted
<1>3. OnePauser'
  BY SMT DEF IInv, OnePauser
<1>4. StagedMatches'
  BY SMT DEF IInv, StagedMatches
<1>5. RevertsStopped'
  BY SMT DEF IInv, RevertsStopped, OnePauser
<1>6. MachineMatchesDisk'
  BY SMT DEF IInv, MachineMatchesDisk
<1>7. SnapshotsWhole'
  BY SMT DEF IInv, SnapshotsWhole, Apart
<1>8. QED BY <1>1, <1>2, <1>3, <1>4, <1>5, <1>6, <1>7 DEF TInv, IInv

LEMMA CreateResumeKeeps == ASSUME IInv, TInv', RevertsAlone, NEW c \in Clients, CreateResume(c) PROVE IInv'
<1> USE DEF CreateResume
<1>1. Apart'
  BY SMT DEF IInv, Apart
<1>2. OneStarted'
  BY SMT DEF IInv, OneStarted, OnePauser
<1>3. OnePauser'
  BY SMT DEF IInv, OnePauser
<1>4. StagedMatches'
  BY SMT DEF IInv, StagedMatches, OnePauser
<1>5. RevertsStopped'
  BY SMT DEF IInv, RevertsStopped
<1>6. MachineMatchesDisk'
  BY SMT DEF IInv, MachineMatchesDisk
<1>7. SnapshotsWhole'
  BY SMT DEF IInv, SnapshotsWhole
<1>8. QED BY <1>1, <1>2, <1>3, <1>4, <1>5, <1>6, <1>7 DEF TInv, IInv

-----------------------------------------------------------------------------
(* The invariant, and what it says. *)

LEMMA InitIInv == Init /\ RevertsAlone => IInv
<1> SUFFICES ASSUME Init, RevertsAlone PROVE IInv
  OBVIOUS
<1>1. TInv
  BY InitTypes
<1>2. /\ pc = "top" /\ cur = 1 /\ state \in {None, disk} /\ ~run.sema /\ run.ref = None /\ run.target = None
      /\ mach[1].st = "built" /\ \A m \in Machines \ {1} : ~Active(m)
      /\ susp.pc = "idle" /\ \A c \in Clients : client[c].pc = "idle"
  BY DEF Init
<1>3. SnapshotsWhole
  <2>1. CASE "revert" \in mix
    <3>1. PICK m \in Moments \ {disk} : snaps \in [Snaps -> {[disk |-> m, state |-> m], [disk |-> m, state |-> None]}]
      BY <2>1 DEF Init
    <3>2. QED BY <3>1 DEF SnapshotsWhole
  <2>2. CASE "revert" \notin mix
    <3>1. snaps = [s \in Snaps |-> NoSnap]
      BY <2>2, Zenon DEF Init
    <3>2. ASSUME NEW s \in Snaps PROVE snaps[s].state = None
      BY <3>1
    <3>3. QED BY <3>2, Zenon DEF SnapshotsWhole
  <2>3. QED BY <2>1, <2>2
<1>4. QED
  BY <1>1, <1>2, <1>3 DEF IInv, Apart, OneStarted, OnePauser, StagedMatches, RevertsStopped,
      MachineMatchesDisk

LEMMA NextIInv == RevertsAlone /\ IInv /\ [Next]_vars => IInv'
<1> SUFFICES ASSUME RevertsAlone, IInv, [Next]_vars PROVE IInv'
  OBVIOUS
<1>0. TInv /\ TInv'
  BY NextTypes DEF IInv
<1> HIDE DEF TInv
<1>1. CASE Exits
  BY <1>0, <1>1, ExitsKeeps
<1>2. CASE Launch
  BY <1>0, <1>2, LaunchKeeps
<1>3. CASE Drive
  BY <1>0, <1>3, TopKeeps, RestoreKeeps, UnstageKeeps, StartKeeps, ExitsKeeps, RunWakesKeeps,
      RunStopsKeeps, ClaimKeeps, RevertDiskKeeps, RevertStateKeeps, RebuildKeeps
      DEF Drive, Fails, RunStopFails, Ends
<1>4. CASE \E m \in Machines : GuestWrites(m) \/ GuestEnds(m)
  BY <1>0, <1>4, GuestWritesKeeps, GuestEndsKeeps
<1>5. CASE NetworkLost \/ Interrupt \/ Kill \/ \E s \in Snaps : TriggerRevert(s)
  BY <1>0, <1>5, NetworkLostKeeps, InterruptKeeps, TriggerRevertKeeps, ExitsKeeps DEF Kill
<1>6. CASE SuspendPause \/ SuspendPauseFails \/ SuspendStep
  BY <1>0, <1>6, SuspendPauseKeeps, SuspendSavesKeeps, SuspendCancelsKeeps, ExitsKeeps
     DEF SuspendPauseFails, SuspendStep, SuspendFails
<1>7. CASE \E c \in Clients : CreatePause(c) \/ CreateStep(c)
  BY <1>0, <1>7, CreatePauseKeeps, CreateCloneToKeeps, CreateCloneFailsKeeps, CreateSaveOkKeeps,
      CreateFailsKeeps, CreateIndexKeeps, CreateResumeKeeps DEF CreateStep
<1>8. CASE UNCHANGED vars
  BY <1>8 DEF vars, IInv, Formed, Apart, OneStarted, OnePauser, StagedMatches, RevertsStopped,
      MachineMatchesDisk, SnapshotsWhole
<1>9. QED BY <1>2, <1>3, <1>4, <1>5, <1>6, <1>7, <1>8 DEF Next

THEOREM Inductive == RevertsAlone => (Spec => []IInv)
<1> SUFFICES ASSUME RevertsAlone PROVE Spec => []IInv
  OBVIOUS
<1>1. Init => IInv
  BY InitIInv
<1>2. IInv /\ [Next]_vars => IInv'
  BY NextIInv
<1>3. QED BY <1>1, <1>2, PTL DEF Spec

(* A machine that runs or is paused has the memory of its disk's moment,    *)
(* through suspensions, restorations, live snapshots and kills.             *)
THEOREM MemoryMatchesDisk == RevertsAlone => (Spec => []MachineMatchesDisk)
<1> SUFFICES ASSUME RevertsAlone PROVE Spec => []MachineMatchesDisk
  OBVIOUS
<1>1. IInv => MachineMatchesDisk
  BY DEF IInv
<1>2. QED BY <1>1, Inductive, PTL

(* A snapshot in the index has its disk and its state from one moment.      *)
THEOREM SnapshotsOfOneMoment == RevertsAlone => (Spec => []SnapshotsWhole)
<1> SUFFICES ASSUME RevertsAlone PROVE Spec => []SnapshotsWhole
  OBVIOUS
<1>1. IInv => SnapshotsWhole
  BY DEF IInv
<1>2. QED BY <1>1, Inductive, PTL

(* The machine a revert replaces is not active beside the new one.          *)
THEOREM OneActive == RevertsAlone => (Spec => []OneMachine)
<1> SUFFICES ASSUME RevertsAlone PROVE Spec => []OneMachine
  OBVIOUS
<1>1. IInv => OneMachine
  BY DEF IInv, OneStarted, OneMachine
<1>2. QED BY <1>1, Inductive, PTL

(* Where reverts happen alone, a disk is only replaced while no machine is  *)
(* active: what snapshot.Revert asks for, and what fails beside snapshots.  *)
THEOREM RevertsOfStopped == RevertsAlone => (Spec => DiskReplacedWhenStopped)
<1> SUFFICES ASSUME RevertsAlone PROVE Spec => DiskReplacedWhenStopped
  OBVIOUS
<1>1. IInv /\ [Next]_vars => [RevertDisk => \A m \in Machines : ~Active(m)]_vars
  BY DEF IInv, OneStarted, RevertsStopped, Apart, RevertDisk
<1>2. QED BY <1>1, Inductive, PTL DEF Spec, DiskReplacedWhenStopped

HIDE ConstantsAssumption
HIDE DEF TInv, TypeOK, Machines, Accepting, Reverting, Active, NoMachine, NoSnap, NoClient, ClientAt, NoSuspension,
         Built, Entries, AfterStart, Quiet, MachineStates, ClientStates, RunStates

-----------------------------------------------------------------------------
(* Topology                                                                *)

LEMMA OneIsASequence == ASSUME NEW x PROVE \E S : <<x>> \in Seq(S) /\ Len(<<x>>) >= 1
<1>1. <<x>> \in Seq({x}) /\ Len(<<x>>) = 1
  OBVIOUS
<1> WITNESS {x}
<1> QED
  BY <1>1

LEMMA FunctionIsASequence ==
    ASSUME NEW n \in Nat, NEW S, NEW f \in [1 .. n -> S]
    PROVE  f \in Seq(S) /\ Len(f) = n
OBVIOUS

LEMMA SomeNICs == ASSUME NEW l \in NetLines PROVE \E S : Net!resolveNICs(l) \in Seq(S) /\ Len(Net!resolveNICs(l)) >= 1
<1> DEFINE N == [mode : STRING, primary : BOOLEAN, mac : STRING \cup {NoMAC}]
           r == Net!resolveNICs(l)
<1>1. CASE l.profile # "none"
  <2>1. PICK x : r = <<x>>
    BY <1>1 DEF Net!resolveNICs, Net!ExpandProfile
  <2> QED
    BY <2>1, OneIsASequence
<1>2. CASE l.profile = "none" /\ l.devices # <<>>
  <2>1. l.devices \in Seq([mode : STRING, options : SUBSET STRING, primary : BOOLEAN, mac : STRING])
    BY NetAssumption DEF NICSpecs
  <2>2. Len(l.devices) \in Nat /\ Len(l.devices) >= 1 /\ DOMAIN l.devices = 1 .. Len(l.devices)
    BY <2>1, <1>2
  <2>3. r = Net!ParseNICDevices(l.devices)
    BY <1>2 DEF Net!resolveNICs
  <2>4. PICK S : r \in [1 .. Len(l.devices) -> S]
    <3> DEFINE f == Net!ParseNICDevices(l.devices)
    <3>1. f \in [1 .. Len(l.devices) -> {f[i] : i \in 1 .. Len(l.devices)}]
      BY <2>2 DEF Net!ParseNICDevices
    <3> QED
      BY <2>3, <3>1
  <2> QED
    <3>1. r \in Seq(S) /\ Len(r) >= 1
      <4> HIDE DEF r
      <4> QED
        BY <2>2, <2>4, FunctionIsASequence
    <3> WITNESS S
    <3> QED
      BY <3>1
<1>3. CASE l.profile = "none" /\ l.devices = <<>> /\ l.bridged # <<>>
  <2>1. l.bridged \in Seq(STRING)
    BY NetAssumption
  <2>2. Len(l.bridged) \in Nat /\ Len(l.bridged) >= 1 /\ DOMAIN l.bridged = 1 .. Len(l.bridged)
    BY <2>1, <1>3
  <2>3. PICK S : r \in [1 .. Len(l.bridged) -> S]
    <3> DEFINE f == [i \in DOMAIN l.bridged |-> Net!NIC("bridged", i = 1, NoMAC)]
    <3>1. f \in [1 .. Len(l.bridged) -> {f[i] : i \in 1 .. Len(l.bridged)}]
      BY <2>2
    <3>2. r = f
      BY <1>3 DEF Net!resolveNICs
    <3> QED
      BY <3>2, <3>1
  <2> QED
    <3>1. r \in Seq(S) /\ Len(r) >= 1
      <4> HIDE DEF r
      <4> QED
        BY <2>2, <2>3, FunctionIsASequence
    <3> WITNESS S
    <3> QED
      BY <3>1
<1>4. CASE l.profile = "none" /\ l.devices = <<>> /\ l.bridged = <<>> /\ l.softnet
  <2>1. PICK x : r = <<x>>
    BY <1>4 DEF Net!resolveNICs
  <2> QED
    BY <2>1, OneIsASequence
<1>5. CASE l.profile = "none" /\ l.devices = <<>> /\ l.bridged = <<>> /\ ~l.softnet
  <2>1. r = Net!EnsureNICs(l.stored)
    BY <1>5 DEF Net!resolveNICs
  <2>2. l.stored \in Seq([mode : STRING, primary : BOOLEAN, mac : STRING])
    BY NetAssumption DEF StoredNICs
  <2>3. CASE l.stored = <<>>
    <3>1. PICK x : r = <<x>>
      BY <2>1, <2>3 DEF Net!EnsureNICs
    <3> QED
      BY <3>1, OneIsASequence
  <2>4. CASE l.stored # <<>>
    <3>1. r = l.stored
      BY <2>1, <2>4 DEF Net!EnsureNICs
    <3> QED
      BY <3>1, <2>2, <2>4
  <2> QED
    BY <2>3, <2>4
<1> QED
  BY <1>1, <1>2, <1>3, <1>4, <1>5

(* The machine's own NIC is one of those wanted. *)
LEMMA LeastIn ==
    ASSUME NEW T, T \subseteq Nat, T # {}
    PROVE  \E x \in T : \A y \in T : x <= y
<1> DEFINE R == OpToRel(<, Nat)
<1>1. IsWellFoundedOn(R, Nat)
  BY NatLessThanWellFounded
<1>2. \A x, y \in Nat : x < y => <<x, y>> \in R
  BY DEF OpToRel
<1> HIDE DEF R
<1>3. PICK x \in T : \A y \in T : ~ (<<y, x>> \in R)
  BY <1>1, WFMin
<1>4. \A y \in T : x <= y
  <2> SUFFICES ASSUME NEW y \in T, y < x PROVE FALSE
    OBVIOUS
  <2>1. <<y, x>> \in R
    BY <1>2
  <2> QED
    BY <2>1, <1>3
<1> QED
  BY <1>4

LEMMA WantedNICs ==
    ASSUME line \in NetLines
    PROVE  /\ Len(Net!Wanted) \in Nat /\ Len(Net!Wanted) >= 1
           /\ DOMAIN Net!Wanted = 1 .. Len(Net!Wanted)
           /\ Net!Slots = 1 .. Len(Net!Wanted)
           /\ Net!Primary \in Net!Slots
<1>1. PICK S : Net!Wanted \in Seq(S) /\ Len(Net!Wanted) >= 1
  BY SomeNICs DEF Net!Wanted
<1> DEFINE w == Net!Wanted
<1>2. Len(w) \in Nat /\ Len(w) >= 1 /\ DOMAIN w = 1 .. Len(w)
  BY <1>1
<1>3. Net!Primary \in 1 .. Len(w)
  <2> HIDE DEF w
  <2>1. CASE \E i \in DOMAIN w : w[i].primary
    <3> DEFINE T == {i \in 1 .. Len(w) : w[i].primary}
    <3>0. T \subseteq Nat /\ T # {}
      BY <1>2, <2>1
    <3>1. PICK x \in T : \A y \in T : x <= y
      <4> HIDE DEF T
      <4> QED
        BY <3>0, LeastIn
    <3>2. x \in DOMAIN w /\ w[x].primary /\ \A j \in 1 .. (x - 1) : ~w[j].primary
      BY <1>2, <3>1
    <3>3. Net!Primary = CHOOSE i \in DOMAIN w : w[i].primary /\ \A j \in 1 .. (i - 1) : ~w[j].primary
      BY <2>1 DEF Net!Primary, w
    <3> QED
      BY <3>2, <3>3, <1>2
  <2>2. CASE ~\E i \in DOMAIN w : w[i].primary
    BY <1>2, <2>2 DEF Net!Primary, w
  <2> QED
    BY <2>1, <2>2
<1> QED
  BY <1>2, <1>3 DEF Net!Slots

NICOf(i) == [mode |-> Net!Wanted[i].mode, mac |-> Net!Address(i)]

(* Addresses that are not given differ. *)
LEMMA OwnAddresses ==
    ASSUME line \in NetLines
    PROVE  /\ \A i, j \in Net!Slots : i # j /\ Net!Address(i) = Net!Address(j) => Net!Given(i) \/ Net!Given(j)
           /\ Net!Address(Net!Primary) = <<Net!Machines>>
<1>1. \A i \in Net!Slots : ~Net!Given(i) =>
         Net!Address(i) = IF i = Net!Primary THEN <<Net!Machines>> ELSE <<Net!Machines, i>>
  BY DEF Net!Given, Net!Address, Net!DeriveMACAddress
<1>2. \A x, i, j : <<x>> # <<x, i>> /\ (<<x, i>> = <<x, j>> => i = j)
  OBVIOUS
<1> QED
  BY <1>1, <1>2 DEF Net!Address

LEMMA NetSame ==
    ASSUME line' = line
    PROVE  /\ Net!Wanted' = Net!Wanted /\ Net!Slots' = Net!Slots /\ Net!Primary' = Net!Primary
           /\ \A i : (NICOf(i))' = NICOf(i)
<1>1. Net!Wanted' = Net!Wanted
  BY DEF Net!Wanted
<1>2. Net!Primary' = Net!Primary
  BY <1>1 DEF Net!Primary
<1> QED
  BY <1>1, <1>2 DEF Net!Slots, NICOf, Net!Address

(* The NICs built so far are those wanted. *)
NetLate == {"engines", "undo", "undone", "wait", "halt", "stop", "over"}
NetNICs ==
    /\ line \in NetLines
    /\ nics \in Seq({NICOf(i) : i \in Net!Slots}) /\ Len(nics) <= Len(Net!Wanted)
    /\ \A i \in 1 .. Len(nics) : nics[i] = NICOf(i)
    /\ netstep \in {"resolve", "prepare"} => nics = <<>>
    /\ netstep \in NetLate => Len(nics) = Len(Net!Wanted)

NetTypes ==
    /\ netstep \in {"resolve", "prepare", "build", "exited"} \cup NetLate
    /\ netat \in 1 .. (Len(Net!Wanted) + 1) /\ upto \in 1 .. (Len(Net!Wanted) + 1)
    /\ helper \in Seq(Net!HelperStates)
    /\ netstep = "resolve" => helper = <<>>
    /\ netstep \notin {"resolve", "exited"} => Len(helper) = Len(Net!Wanted)
    /\ asked \subseteq Net!Slots /\ early \subseteq Net!Slots
    /\ guest \in {"none", "running", "stopped"}
    /\ suid \in BOOLEAN /\ sema \in BOOLEAN /\ stopping \in BOOLEAN /\ failed \in BOOLEAN
    /\ topology \in Nat

(* A helper is a softnet NIC's; it ends early or asked, and what has ended  *)
(* is noticed.                                                              *)
NetHelpers ==
    netstep \notin {"resolve", "exited"} =>
        \A i \in Net!Slots :
            /\ helper[i] # "none" => i <= Len(nics) /\ Net!Wanted[i].mode = "softnet"
            /\ helper[i] \in {"ended", "told", "finished"} => i \in asked \cup early
            /\ helper[i] \in {"told", "finished"} => sema

(* Which of them are started, and which have been waited for. *)
Unstarted(i) == helper[i] \in {"none", "made"}
WaitedFor(i) == helper[i] \in {"none", "made", "finished"}
NetPlace ==
    /\ netstep = "prepare" => \A i \in Net!Slots : helper[i] = "none"
    /\ netstep = "build" => \A i \in Net!Slots : Unstarted(i)
    /\ netstep = "engines" => \A i \in Net!Slots : i >= netat => Unstarted(i)
    /\ netstep = "undo" =>
          /\ netat <= upto
          /\ \A i \in Net!Slots : (i < netat => WaitedFor(i)) /\ (i >= upto => Unstarted(i))
    /\ netstep \in {"halt", "stop"} => upto = Len(Net!Wanted) + 1
    /\ netstep = "halt" => netat = 1
    /\ netstep = "stop" => \A i \in Net!Slots : i < netat => WaitedFor(i)
    /\ netstep \in {"undone", "over"} => \A i \in Net!Slots : WaitedFor(i)

NetAsked ==
    /\ failed => early # {}
    /\ Net!Privileged
    /\ netstep \notin {"resolve", "prepare", "exited"} /\ line.interactive =>
          suid \/ \A i \in Net!Slots : Net!Wanted[i].mode # "softnet"

NetInv == NetNICs /\ NetTypes /\ NetHelpers /\ NetPlace /\ NetAsked

LEMMA BuiltNICs ==
    ASSUME NetNICs
    PROVE  /\ DOMAIN nics = 1 .. Len(nics) /\ Len(nics) \in Nat /\ DOMAIN nics \subseteq Net!Slots
           /\ \A i \in DOMAIN nics : nics[i].mode = Net!Wanted[i].mode /\ nics[i].mac = Net!Address(i)
<1>1. /\ Net!Slots = 1 .. Len(Net!Wanted) /\ Len(Net!Wanted) \in Nat
  BY WantedNICs DEF NetNICs
<1>2. /\ DOMAIN nics = 1 .. Len(nics) /\ Len(nics) \in Nat /\ Len(nics) <= Len(Net!Wanted)
  <2> DEFINE S == {NICOf(i) : i \in Net!Slots}
  <2>1. nics \in Seq(S) /\ Len(nics) <= Len(Net!Wanted)
    BY DEF NetNICs
  <2> HIDE DEF S
  <2> QED
    BY <2>1
<1>3. \A i \in DOMAIN nics : nics[i] = NICOf(i)
  BY <1>2 DEF NetNICs
<1>4. \A i : NICOf(i).mode = Net!Wanted[i].mode /\ NICOf(i).mac = Net!Address(i)
  BY DEF NICOf
<1> QED
  BY <1>1, <1>2, <1>3, <1>4

LEMMA NICsFrame ==
    ASSUME NetNICs, line' = line, nics' = nics,
           netstep' \in {"resolve", "prepare"} => nics = <<>>,
           netstep' \in NetLate => Len(nics) = Len(Net!Wanted)
    PROVE  NetNICs'
<1>1. /\ Net!Wanted' = Net!Wanted /\ Net!Slots' = Net!Slots
      /\ \A i : (NICOf(i))' = NICOf(i)
  BY NetSame
<1>2. {NICOf(i) : i \in Net!Slots}' = {NICOf(i) : i \in Net!Slots}
  BY <1>1
<1> QED
  BY <1>1, <1>2 DEF NetNICs

LEMMA HelperSet ==
    ASSUME NetInv, netstep \notin {"resolve", "exited"}, NEW i \in Net!Slots, NEW x \in Net!HelperStates,
           helper' = [helper EXCEPT ![i] = x]
    PROVE  /\ helper' \in Seq(Net!HelperStates) /\ Len(helper') = Len(Net!Wanted)
           /\ \A j \in Net!Slots : helper'[j] = IF j = i THEN x ELSE helper[j]
<1>1. i \in 1 .. Len(helper) /\ Net!Slots = 1 .. Len(helper)
  BY WantedNICs DEF NetInv, NetNICs, NetTypes
<1> QED
  BY <1>1, ExceptSeq DEF NetInv, NetTypes

LEMMA NoHelpers ==
    ASSUME line \in NetLines
    PROVE  /\ [i \in Net!Slots |-> "none"] \in Seq(Net!HelperStates)
           /\ Len([i \in Net!Slots |-> "none"]) = Len(Net!Wanted)
<1>1. [i \in Net!Slots |-> "none"] \in [1 .. Len(Net!Wanted) -> Net!HelperStates]
  BY WantedNICs DEF Net!HelperStates
<1> QED
  BY <1>1, WantedNICs, FunctionIsASequence

(* Who is asked for and who has ended, when nothing of the helpers changes. *)
LEMMA PrivilegedKept ==
    ASSUME NetInv, line' = line, suid => suid', suid \in BOOLEAN, suid' \in BOOLEAN,
           DOMAIN helper' = DOMAIN helper, \A i \in DOMAIN helper : helper[i] = "none" => helper'[i] = "none"
    PROVE  Net!Privileged'
BY DEF NetInv, NetAsked, Net!Privileged

LEMMA NetPrepareKeeps == ASSUME NetInv, Net!Prepare PROVE NetInv'
<1> USE DEF Net!Prepare, Net!Stopping, Net!Softnet, Net!NeedsPrivileges
<1>1. /\ line' = line /\ nics' = nics /\ helper' = helper /\ (suid => suid') /\ (netstep' = "resolve" => netstep = "resolve")
      /\ netstep' = netstep \/ netstep' \in {"build", "exited"} \cup NetLate
      /\ (netstep' \in NetLate => Len(nics) = Len(Net!Wanted))
      /\ (netstep' \in {"resolve", "prepare"} => nics = <<>>)
  BY DEF NetInv, NetNICs, NetTypes, NetLate
<1>2. NetNICs'
  BY <1>1, NICsFrame DEF NetInv
<1>3. /\ Net!Wanted' = Net!Wanted /\ Net!Slots' = Net!Slots /\ Net!Slots = 1 .. Len(Net!Wanted)
      /\ Len(Net!Wanted) \in Nat /\ Len(Net!Wanted) >= 1
  BY <1>1, NetSame, WantedNICs DEF NetInv, NetNICs
<1>4. \A i \in DOMAIN nics : i \in Net!Slots /\ nics[i].mode = Net!Wanted[i].mode /\ DOMAIN nics = 1 .. Len(nics)
  BY BuiltNICs DEF NetInv
<1>5. NetTypes'
  BY <1>1, <1>3, <1>4 DEF NetInv, NetNICs, NetTypes, NetPlace, NetLate
<1>6. NetHelpers'
  BY <1>1, <1>3 DEF NetInv, NetTypes, NetHelpers, NetLate
<1>7. NetPlace'
  BY <1>1, <1>3, <1>4 DEF NetInv, NetNICs, NetTypes, NetHelpers, NetPlace, Unstarted, WaitedFor, NetLate, Net!HelperStates
<1>8. NetAsked'
  <2>1. Net!Privileged'
    BY <1>1, <1>5, PrivilegedKept DEF NetInv, NetTypes
  <2> QED
    BY <1>1, <1>3, <1>4, <2>1 DEF NetInv, NetNICs, NetTypes, NetHelpers, NetAsked, NetLate
<1> QED
  BY <1>2, <1>5, <1>6, <1>7, <1>8 DEF NetInv

LEMMA NetBuiltKeeps == ASSUME NetInv, Net!Built PROVE NetInv'
<1> USE DEF Net!Built, Net!Stopping, Net!Softnet, Net!NeedsPrivileges
<1>1. /\ line' = line /\ nics' = nics /\ helper' = helper /\ (suid => suid') /\ (netstep' = "resolve" => netstep = "resolve")
      /\ netstep' = netstep \/ netstep' \in {"build", "exited"} \cup NetLate
      /\ (netstep' \in NetLate => Len(nics) = Len(Net!Wanted))
      /\ (netstep' \in {"resolve", "prepare"} => nics = <<>>)
  BY DEF NetInv, NetNICs, NetTypes, NetLate
<1>2. NetNICs'
  BY <1>1, NICsFrame DEF NetInv
<1>3. /\ Net!Wanted' = Net!Wanted /\ Net!Slots' = Net!Slots /\ Net!Slots = 1 .. Len(Net!Wanted)
      /\ Len(Net!Wanted) \in Nat /\ Len(Net!Wanted) >= 1
  BY <1>1, NetSame, WantedNICs DEF NetInv, NetNICs
<1>4. \A i \in DOMAIN nics : i \in Net!Slots /\ nics[i].mode = Net!Wanted[i].mode /\ DOMAIN nics = 1 .. Len(nics)
  BY BuiltNICs DEF NetInv
<1>5. NetTypes'
  BY <1>1, <1>3, <1>4 DEF NetInv, NetNICs, NetTypes, NetPlace, NetLate
<1>6. NetHelpers'
  BY <1>1, <1>3 DEF NetInv, NetTypes, NetHelpers, NetLate
<1>7. NetPlace'
  BY <1>1, <1>3, <1>4 DEF NetInv, NetNICs, NetTypes, NetHelpers, NetPlace, Unstarted, WaitedFor, NetLate, Net!HelperStates
<1>8. NetAsked'
  <2>1. Net!Privileged'
    BY <1>1, <1>5, PrivilegedKept DEF NetInv, NetTypes
  <2> QED
    BY <1>1, <1>3, <1>4, <2>1 DEF NetInv, NetNICs, NetTypes, NetHelpers, NetAsked, NetLate
<1> QED
  BY <1>2, <1>5, <1>6, <1>7, <1>8 DEF NetInv

LEMMA NetMachineStartsKeeps == ASSUME NetInv, Net!MachineStarts PROVE NetInv'
<1> USE DEF Net!MachineStarts, Net!Stopping, Net!Softnet, Net!NeedsPrivileges
<1>1. /\ line' = line /\ nics' = nics /\ helper' = helper /\ (suid => suid') /\ (netstep' = "resolve" => netstep = "resolve")
      /\ netstep' = netstep \/ netstep' \in {"build", "exited"} \cup NetLate
      /\ (netstep' \in NetLate => Len(nics) = Len(Net!Wanted))
      /\ (netstep' \in {"resolve", "prepare"} => nics = <<>>)
  BY DEF NetInv, NetNICs, NetTypes, NetLate
<1>2. NetNICs'
  BY <1>1, NICsFrame DEF NetInv
<1>3. /\ Net!Wanted' = Net!Wanted /\ Net!Slots' = Net!Slots /\ Net!Slots = 1 .. Len(Net!Wanted)
      /\ Len(Net!Wanted) \in Nat /\ Len(Net!Wanted) >= 1
  BY <1>1, NetSame, WantedNICs DEF NetInv, NetNICs
<1>4. \A i \in DOMAIN nics : i \in Net!Slots /\ nics[i].mode = Net!Wanted[i].mode /\ DOMAIN nics = 1 .. Len(nics)
  BY BuiltNICs DEF NetInv
<1>5. NetTypes'
  BY <1>1, <1>3, <1>4 DEF NetInv, NetNICs, NetTypes, NetPlace, NetLate
<1>6. NetHelpers'
  BY <1>1, <1>3 DEF NetInv, NetTypes, NetHelpers, NetLate
<1>7. NetPlace'
  BY <1>1, <1>3, <1>4 DEF NetInv, NetNICs, NetTypes, NetHelpers, NetPlace, Unstarted, WaitedFor, NetLate, Net!HelperStates
<1>8. NetAsked'
  <2>1. Net!Privileged'
    BY <1>1, <1>5, PrivilegedKept DEF NetInv, NetTypes
  <2> QED
    BY <1>1, <1>3, <1>4, <2>1 DEF NetInv, NetNICs, NetTypes, NetHelpers, NetAsked, NetLate
<1> QED
  BY <1>2, <1>5, <1>6, <1>7, <1>8 DEF NetInv

LEMMA NetWakesKeeps == ASSUME NetInv, Net!Wakes PROVE NetInv'
<1> USE DEF Net!Wakes, Net!Stopping, Net!Softnet, Net!NeedsPrivileges
<1>1. /\ line' = line /\ nics' = nics /\ helper' = helper /\ (suid => suid') /\ (netstep' = "resolve" => netstep = "resolve")
      /\ netstep' = netstep \/ netstep' \in {"build", "exited"} \cup NetLate
      /\ (netstep' \in NetLate => Len(nics) = Len(Net!Wanted))
      /\ (netstep' \in {"resolve", "prepare"} => nics = <<>>)
  BY DEF NetInv, NetNICs, NetTypes, NetLate
<1>2. NetNICs'
  BY <1>1, NICsFrame DEF NetInv
<1>3. /\ Net!Wanted' = Net!Wanted /\ Net!Slots' = Net!Slots /\ Net!Slots = 1 .. Len(Net!Wanted)
      /\ Len(Net!Wanted) \in Nat /\ Len(Net!Wanted) >= 1
  BY <1>1, NetSame, WantedNICs DEF NetInv, NetNICs
<1>4. \A i \in DOMAIN nics : i \in Net!Slots /\ nics[i].mode = Net!Wanted[i].mode /\ DOMAIN nics = 1 .. Len(nics)
  BY BuiltNICs DEF NetInv
<1>5. NetTypes'
  BY <1>1, <1>3, <1>4 DEF NetInv, NetNICs, NetTypes, NetPlace, NetLate
<1>6. NetHelpers'
  BY <1>1, <1>3 DEF NetInv, NetTypes, NetHelpers, NetLate
<1>7. NetPlace'
  BY <1>1, <1>3, <1>4 DEF NetInv, NetNICs, NetTypes, NetHelpers, NetPlace, Unstarted, WaitedFor, NetLate, Net!HelperStates
<1>8. NetAsked'
  <2>1. Net!Privileged'
    BY <1>1, <1>5, PrivilegedKept DEF NetInv, NetTypes
  <2> QED
    BY <1>1, <1>3, <1>4, <2>1 DEF NetInv, NetNICs, NetTypes, NetHelpers, NetAsked, NetLate
<1> QED
  BY <1>2, <1>5, <1>6, <1>7, <1>8 DEF NetInv

LEMMA NetHaltsKeeps == ASSUME NetInv, Net!Halts PROVE NetInv'
<1> USE DEF Net!Halts, Net!Stopping, Net!Softnet, Net!NeedsPrivileges
<1>1. /\ line' = line /\ nics' = nics /\ helper' = helper /\ (suid => suid') /\ (netstep' = "resolve" => netstep = "resolve")
      /\ netstep' = netstep \/ netstep' \in {"build", "exited"} \cup NetLate
      /\ (netstep' \in NetLate => Len(nics) = Len(Net!Wanted))
      /\ (netstep' \in {"resolve", "prepare"} => nics = <<>>)
  BY DEF NetInv, NetNICs, NetTypes, NetLate
<1>2. NetNICs'
  BY <1>1, NICsFrame DEF NetInv
<1>3. /\ Net!Wanted' = Net!Wanted /\ Net!Slots' = Net!Slots /\ Net!Slots = 1 .. Len(Net!Wanted)
      /\ Len(Net!Wanted) \in Nat /\ Len(Net!Wanted) >= 1
  BY <1>1, NetSame, WantedNICs DEF NetInv, NetNICs
<1>4. \A i \in DOMAIN nics : i \in Net!Slots /\ nics[i].mode = Net!Wanted[i].mode /\ DOMAIN nics = 1 .. Len(nics)
  BY BuiltNICs DEF NetInv
<1>5. NetTypes'
  BY <1>1, <1>3, <1>4 DEF NetInv, NetNICs, NetTypes, NetPlace, NetLate
<1>6. NetHelpers'
  BY <1>1, <1>3 DEF NetInv, NetTypes, NetHelpers, NetLate
<1>7. NetPlace'
  BY <1>1, <1>3, <1>4 DEF NetInv, NetNICs, NetTypes, NetHelpers, NetPlace, Unstarted, WaitedFor, NetLate, Net!HelperStates
<1>8. NetAsked'
  <2>1. Net!Privileged'
    BY <1>1, <1>5, PrivilegedKept DEF NetInv, NetTypes
  <2> QED
    BY <1>1, <1>3, <1>4, <2>1 DEF NetInv, NetNICs, NetTypes, NetHelpers, NetAsked, NetLate
<1> QED
  BY <1>2, <1>5, <1>6, <1>7, <1>8 DEF NetInv

LEMMA NetNoEngineKeeps == ASSUME NetInv, Net!NoEngine PROVE NetInv'
<1> USE DEF Net!NoEngine, Net!Stopping, Net!Softnet, Net!NeedsPrivileges
<1>1. /\ line' = line /\ nics' = nics /\ helper' = helper /\ (suid => suid') /\ (netstep' = "resolve" => netstep = "resolve")
      /\ netstep' = netstep \/ netstep' \in {"build", "exited"} \cup NetLate
      /\ (netstep' \in NetLate => Len(nics) = Len(Net!Wanted))
      /\ (netstep' \in {"resolve", "prepare"} => nics = <<>>)
  BY DEF NetInv, NetNICs, NetTypes, NetLate
<1>2. NetNICs'
  BY <1>1, NICsFrame DEF NetInv
<1>3. /\ Net!Wanted' = Net!Wanted /\ Net!Slots' = Net!Slots /\ Net!Slots = 1 .. Len(Net!Wanted)
      /\ Len(Net!Wanted) \in Nat /\ Len(Net!Wanted) >= 1
  BY <1>1, NetSame, WantedNICs DEF NetInv, NetNICs
<1>4. \A i \in DOMAIN nics : i \in Net!Slots /\ nics[i].mode = Net!Wanted[i].mode /\ DOMAIN nics = 1 .. Len(nics)
  BY BuiltNICs DEF NetInv
<1>5. NetTypes'
  BY <1>1, <1>3, <1>4 DEF NetInv, NetNICs, NetTypes, NetPlace, NetLate
<1>6. NetHelpers'
  BY <1>1, <1>3 DEF NetInv, NetTypes, NetHelpers, NetLate
<1>7. NetPlace'
  BY <1>1, <1>3, <1>4 DEF NetInv, NetNICs, NetTypes, NetHelpers, NetPlace, Unstarted, WaitedFor, NetLate, Net!HelperStates
<1>8. NetAsked'
  <2>1. Net!Privileged'
    BY <1>1, <1>5, PrivilegedKept DEF NetInv, NetTypes
  <2> QED
    BY <1>1, <1>3, <1>4, <2>1 DEF NetInv, NetNICs, NetTypes, NetHelpers, NetAsked, NetLate
<1> QED
  BY <1>2, <1>5, <1>6, <1>7, <1>8 DEF NetInv

LEMMA NetFoundFinishedKeeps == ASSUME NetInv, Net!FoundFinished PROVE NetInv'
<1> USE DEF Net!FoundFinished, Net!Stopping, Net!Softnet, Net!NeedsPrivileges
<1>1. /\ line' = line /\ nics' = nics /\ helper' = helper /\ (suid => suid') /\ (netstep' = "resolve" => netstep = "resolve")
      /\ netstep' = netstep \/ netstep' \in {"build", "exited"} \cup NetLate
      /\ (netstep' \in NetLate => Len(nics) = Len(Net!Wanted))
      /\ (netstep' \in {"resolve", "prepare"} => nics = <<>>)
  BY DEF NetInv, NetNICs, NetTypes, NetLate
<1>2. NetNICs'
  BY <1>1, NICsFrame DEF NetInv
<1>3. /\ Net!Wanted' = Net!Wanted /\ Net!Slots' = Net!Slots /\ Net!Slots = 1 .. Len(Net!Wanted)
      /\ Len(Net!Wanted) \in Nat /\ Len(Net!Wanted) >= 1
  BY <1>1, NetSame, WantedNICs DEF NetInv, NetNICs
<1>4. \A i \in DOMAIN nics : i \in Net!Slots /\ nics[i].mode = Net!Wanted[i].mode /\ DOMAIN nics = 1 .. Len(nics)
  BY BuiltNICs DEF NetInv
<1>5. NetTypes'
  BY <1>1, <1>3, <1>4 DEF NetInv, NetNICs, NetTypes, NetPlace, NetLate
<1>6. NetHelpers'
  BY <1>1, <1>3 DEF NetInv, NetTypes, NetHelpers, NetLate
<1>7. NetPlace'
  BY <1>1, <1>3, <1>4 DEF NetInv, NetNICs, NetTypes, NetHelpers, NetPlace, Unstarted, WaitedFor, NetLate, Net!HelperStates
<1>8. NetAsked'
  <2>1. Net!Privileged'
    BY <1>1, <1>5, PrivilegedKept DEF NetInv, NetTypes
  <2> QED
    BY <1>1, <1>3, <1>4, <2>1 DEF NetInv, NetNICs, NetTypes, NetHelpers, NetAsked, NetLate
<1> QED
  BY <1>2, <1>5, <1>6, <1>7, <1>8 DEF NetInv

LEMMA NetInterruptsKeeps == ASSUME NetInv, Net!Interrupts PROVE NetInv'
<1> USE DEF Net!Interrupts, Net!Stopping, Net!Softnet, Net!NeedsPrivileges
<1>1. /\ line' = line /\ nics' = nics /\ helper' = helper /\ (suid => suid') /\ (netstep' = "resolve" => netstep = "resolve")
      /\ netstep' = netstep \/ netstep' \in {"build", "exited"} \cup NetLate
      /\ (netstep' \in NetLate => Len(nics) = Len(Net!Wanted))
      /\ (netstep' \in {"resolve", "prepare"} => nics = <<>>)
  BY DEF NetInv, NetNICs, NetTypes, NetLate
<1>2. NetNICs'
  BY <1>1, NICsFrame DEF NetInv
<1>3. /\ Net!Wanted' = Net!Wanted /\ Net!Slots' = Net!Slots /\ Net!Slots = 1 .. Len(Net!Wanted)
      /\ Len(Net!Wanted) \in Nat /\ Len(Net!Wanted) >= 1
  BY <1>1, NetSame, WantedNICs DEF NetInv, NetNICs
<1>4. \A i \in DOMAIN nics : i \in Net!Slots /\ nics[i].mode = Net!Wanted[i].mode /\ DOMAIN nics = 1 .. Len(nics)
  BY BuiltNICs DEF NetInv
<1>5. NetTypes'
  BY <1>1, <1>3, <1>4 DEF NetInv, NetNICs, NetTypes, NetPlace, NetLate
<1>6. NetHelpers'
  BY <1>1, <1>3 DEF NetInv, NetTypes, NetHelpers, NetLate
<1>7. NetPlace'
  BY <1>1, <1>3, <1>4 DEF NetInv, NetNICs, NetTypes, NetHelpers, NetPlace, Unstarted, WaitedFor, NetLate, Net!HelperStates
<1>8. NetAsked'
  <2>1. Net!Privileged'
    BY <1>1, <1>5, PrivilegedKept DEF NetInv, NetTypes
  <2> QED
    BY <1>1, <1>3, <1>4, <2>1 DEF NetInv, NetNICs, NetTypes, NetHelpers, NetAsked, NetLate
<1> QED
  BY <1>2, <1>5, <1>6, <1>7, <1>8 DEF NetInv

LEMMA NetAwaitsMonitorKeeps == ASSUME NetInv, Net!AwaitsMonitor PROVE NetInv'
<1> USE DEF Net!AwaitsMonitor, Net!Stopping, Net!Softnet, Net!NeedsPrivileges
<1>1. /\ line' = line /\ nics' = nics /\ helper' = helper /\ (suid => suid') /\ (netstep' = "resolve" => netstep = "resolve")
      /\ netstep' = netstep \/ netstep' \in {"build", "exited"} \cup NetLate
      /\ (netstep' \in NetLate => Len(nics) = Len(Net!Wanted))
      /\ (netstep' \in {"resolve", "prepare"} => nics = <<>>)
  BY DEF NetInv, NetNICs, NetTypes, NetLate
<1>2. NetNICs'
  BY <1>1, NICsFrame DEF NetInv
<1>3. /\ Net!Wanted' = Net!Wanted /\ Net!Slots' = Net!Slots /\ Net!Slots = 1 .. Len(Net!Wanted)
      /\ Len(Net!Wanted) \in Nat /\ Len(Net!Wanted) >= 1
  BY <1>1, NetSame, WantedNICs DEF NetInv, NetNICs
<1>4. \A i \in DOMAIN nics : i \in Net!Slots /\ nics[i].mode = Net!Wanted[i].mode /\ DOMAIN nics = 1 .. Len(nics)
  BY BuiltNICs DEF NetInv
<1>5. NetTypes'
  BY <1>1, <1>3, <1>4 DEF NetInv, NetNICs, NetTypes, NetPlace, NetLate
<1>6. NetHelpers'
  BY <1>1, <1>3 DEF NetInv, NetTypes, NetHelpers, NetLate
<1>7. NetPlace'
  BY <1>1, <1>3, <1>4 DEF NetInv, NetNICs, NetTypes, NetHelpers, NetPlace, Unstarted, WaitedFor, NetLate, Net!HelperStates
<1>8. NetAsked'
  <2>1. Net!Privileged'
    BY <1>1, <1>5, PrivilegedKept DEF NetInv, NetTypes
  <2> QED
    BY <1>1, <1>3, <1>4, <2>1 DEF NetInv, NetNICs, NetTypes, NetHelpers, NetAsked, NetLate
<1> QED
  BY <1>2, <1>5, <1>6, <1>7, <1>8 DEF NetInv

LEMMA NetUndoneKeeps == ASSUME NetInv, Net!Undone PROVE NetInv'
<1> USE DEF Net!Undone, Net!Stopping, Net!Softnet, Net!NeedsPrivileges
<1>1. /\ line' = line /\ nics' = nics /\ helper' = helper /\ (suid => suid') /\ (netstep' = "resolve" => netstep = "resolve")
      /\ netstep' = netstep \/ netstep' \in {"build", "exited"} \cup NetLate
      /\ (netstep' \in NetLate => Len(nics) = Len(Net!Wanted))
      /\ (netstep' \in {"resolve", "prepare"} => nics = <<>>)
  BY DEF NetInv, NetNICs, NetTypes, NetLate
<1>2. NetNICs'
  BY <1>1, NICsFrame DEF NetInv
<1>3. /\ Net!Wanted' = Net!Wanted /\ Net!Slots' = Net!Slots /\ Net!Slots = 1 .. Len(Net!Wanted)
      /\ Len(Net!Wanted) \in Nat /\ Len(Net!Wanted) >= 1
  BY <1>1, NetSame, WantedNICs DEF NetInv, NetNICs
<1>4. \A i \in DOMAIN nics : i \in Net!Slots /\ nics[i].mode = Net!Wanted[i].mode /\ DOMAIN nics = 1 .. Len(nics)
  BY BuiltNICs DEF NetInv
<1>5. NetTypes'
  BY <1>1, <1>3, <1>4 DEF NetInv, NetNICs, NetTypes, NetPlace, NetLate
<1>6. NetHelpers'
  BY <1>1, <1>3 DEF NetInv, NetTypes, NetHelpers, NetLate
<1>7. NetPlace'
  BY <1>1, <1>3, <1>4 DEF NetInv, NetNICs, NetTypes, NetHelpers, NetPlace, Unstarted, WaitedFor, NetLate, Net!HelperStates
<1>8. NetAsked'
  <2>1. Net!Privileged'
    BY <1>1, <1>5, PrivilegedKept DEF NetInv, NetTypes
  <2> QED
    BY <1>1, <1>3, <1>4, <2>1 DEF NetInv, NetNICs, NetTypes, NetHelpers, NetAsked, NetLate
<1> QED
  BY <1>2, <1>5, <1>6, <1>7, <1>8 DEF NetInv

LEMMA NetStoppedKeeps == ASSUME NetInv, Net!Stopped PROVE NetInv'
<1> USE DEF Net!Stopped, Net!Stopping, Net!Softnet, Net!NeedsPrivileges
<1>1. /\ line' = line /\ nics' = nics /\ helper' = helper /\ (suid => suid') /\ (netstep' = "resolve" => netstep = "resolve")
      /\ netstep' = netstep \/ netstep' \in {"build", "exited"} \cup NetLate
      /\ (netstep' \in NetLate => Len(nics) = Len(Net!Wanted))
      /\ (netstep' \in {"resolve", "prepare"} => nics = <<>>)
  BY DEF NetInv, NetNICs, NetTypes, NetLate
<1>2. NetNICs'
  BY <1>1, NICsFrame DEF NetInv
<1>3. /\ Net!Wanted' = Net!Wanted /\ Net!Slots' = Net!Slots /\ Net!Slots = 1 .. Len(Net!Wanted)
      /\ Len(Net!Wanted) \in Nat /\ Len(Net!Wanted) >= 1
  BY <1>1, NetSame, WantedNICs DEF NetInv, NetNICs
<1>4. \A i \in DOMAIN nics : i \in Net!Slots /\ nics[i].mode = Net!Wanted[i].mode /\ DOMAIN nics = 1 .. Len(nics)
  BY BuiltNICs DEF NetInv
<1>5. NetTypes'
  BY <1>1, <1>3, <1>4 DEF NetInv, NetNICs, NetTypes, NetPlace, NetLate
<1>6. NetHelpers'
  BY <1>1, <1>3 DEF NetInv, NetTypes, NetHelpers, NetLate
<1>7. NetPlace'
  BY <1>1, <1>3, <1>4 DEF NetInv, NetNICs, NetTypes, NetHelpers, NetPlace, Unstarted, WaitedFor, NetLate, Net!HelperStates
<1>8. NetAsked'
  <2>1. Net!Privileged'
    BY <1>1, <1>5, PrivilegedKept DEF NetInv, NetTypes
  <2> QED
    BY <1>1, <1>3, <1>4, <2>1 DEF NetInv, NetNICs, NetTypes, NetHelpers, NetAsked, NetLate
<1> QED
  BY <1>2, <1>5, <1>6, <1>7, <1>8 DEF NetInv

LEMMA NetGuestStopsKeeps == ASSUME NetInv, Net!GuestStops PROVE NetInv'
<1> USE DEF Net!GuestStops, Net!Stopping, Net!Softnet, Net!NeedsPrivileges
<1>1. /\ line' = line /\ nics' = nics /\ helper' = helper /\ (suid => suid') /\ (netstep' = "resolve" => netstep = "resolve")
      /\ netstep' = netstep \/ netstep' \in {"build", "exited"} \cup NetLate
      /\ (netstep' \in NetLate => Len(nics) = Len(Net!Wanted))
      /\ (netstep' \in {"resolve", "prepare"} => nics = <<>>)
  BY DEF NetInv, NetNICs, NetTypes, NetLate
<1>2. NetNICs'
  BY <1>1, NICsFrame DEF NetInv
<1>3. /\ Net!Wanted' = Net!Wanted /\ Net!Slots' = Net!Slots /\ Net!Slots = 1 .. Len(Net!Wanted)
      /\ Len(Net!Wanted) \in Nat /\ Len(Net!Wanted) >= 1
  BY <1>1, NetSame, WantedNICs DEF NetInv, NetNICs
<1>4. \A i \in DOMAIN nics : i \in Net!Slots /\ nics[i].mode = Net!Wanted[i].mode /\ DOMAIN nics = 1 .. Len(nics)
  BY BuiltNICs DEF NetInv
<1>5. NetTypes'
  BY <1>1, <1>3, <1>4 DEF NetInv, NetNICs, NetTypes, NetPlace, NetLate
<1>6. NetHelpers'
  BY <1>1, <1>3 DEF NetInv, NetTypes, NetHelpers, NetLate
<1>7. NetPlace'
  BY <1>1, <1>3, <1>4 DEF NetInv, NetNICs, NetTypes, NetHelpers, NetPlace, Unstarted, WaitedFor, NetLate, Net!HelperStates
<1>8. NetAsked'
  <2>1. Net!Privileged'
    BY <1>1, <1>5, PrivilegedKept DEF NetInv, NetTypes
  <2> QED
    BY <1>1, <1>3, <1>4, <2>1 DEF NetInv, NetNICs, NetTypes, NetHelpers, NetAsked, NetLate
<1> QED
  BY <1>2, <1>5, <1>6, <1>7, <1>8 DEF NetInv

LEMMA NetDisconnectedKeeps == ASSUME NetInv, Net!Disconnected PROVE NetInv'
<1> USE DEF Net!Disconnected, Net!Stopping, Net!Softnet, Net!NeedsPrivileges
<1>1. /\ line' = line /\ nics' = nics /\ helper' = helper /\ (suid => suid') /\ (netstep' = "resolve" => netstep = "resolve")
      /\ netstep' = netstep \/ netstep' \in {"build", "exited"} \cup NetLate
      /\ (netstep' \in NetLate => Len(nics) = Len(Net!Wanted))
      /\ (netstep' \in {"resolve", "prepare"} => nics = <<>>)
  BY DEF NetInv, NetNICs, NetTypes, NetLate
<1>2. NetNICs'
  BY <1>1, NICsFrame DEF NetInv
<1>3. /\ Net!Wanted' = Net!Wanted /\ Net!Slots' = Net!Slots /\ Net!Slots = 1 .. Len(Net!Wanted)
      /\ Len(Net!Wanted) \in Nat /\ Len(Net!Wanted) >= 1
  BY <1>1, NetSame, WantedNICs DEF NetInv, NetNICs
<1>4. \A i \in DOMAIN nics : i \in Net!Slots /\ nics[i].mode = Net!Wanted[i].mode /\ DOMAIN nics = 1 .. Len(nics)
  BY BuiltNICs DEF NetInv
<1>5. NetTypes'
  BY <1>1, <1>3, <1>4 DEF NetInv, NetNICs, NetTypes, NetPlace, NetLate
<1>6. NetHelpers'
  BY <1>1, <1>3 DEF NetInv, NetTypes, NetHelpers, NetLate
<1>7. NetPlace'
  BY <1>1, <1>3, <1>4 DEF NetInv, NetNICs, NetTypes, NetHelpers, NetPlace, Unstarted, WaitedFor, NetLate, Net!HelperStates
<1>8. NetAsked'
  <2>1. Net!Privileged'
    BY <1>1, <1>5, PrivilegedKept DEF NetInv, NetTypes
  <2> QED
    BY <1>1, <1>3, <1>4, <2>1 DEF NetInv, NetNICs, NetTypes, NetHelpers, NetAsked, NetLate
<1> QED
  BY <1>2, <1>5, <1>6, <1>7, <1>8 DEF NetInv

LEMMA NetCancelKeeps == ASSUME NetInv, Net!Cancel PROVE NetInv'
<1> USE DEF Net!Cancel, Net!Stopping, Net!Softnet, Net!NeedsPrivileges
<1>1. /\ line' = line /\ nics' = nics /\ helper' = helper /\ (suid => suid') /\ (netstep' = "resolve" => netstep = "resolve")
      /\ netstep' = netstep \/ netstep' \in {"build", "exited"} \cup NetLate
      /\ (netstep' \in NetLate => Len(nics) = Len(Net!Wanted))
      /\ (netstep' \in {"resolve", "prepare"} => nics = <<>>)
  BY DEF NetInv, NetNICs, NetTypes, NetLate
<1>2. NetNICs'
  BY <1>1, NICsFrame DEF NetInv
<1>3. /\ Net!Wanted' = Net!Wanted /\ Net!Slots' = Net!Slots /\ Net!Slots = 1 .. Len(Net!Wanted)
      /\ Len(Net!Wanted) \in Nat /\ Len(Net!Wanted) >= 1
  BY <1>1, NetSame, WantedNICs DEF NetInv, NetNICs
<1>4. \A i \in DOMAIN nics : i \in Net!Slots /\ nics[i].mode = Net!Wanted[i].mode /\ DOMAIN nics = 1 .. Len(nics)
  BY BuiltNICs DEF NetInv
<1>5. NetTypes'
  BY <1>1, <1>3, <1>4 DEF NetInv, NetNICs, NetTypes, NetPlace, NetLate
<1>6. NetHelpers'
  BY <1>1, <1>3 DEF NetInv, NetTypes, NetHelpers, NetLate
<1>7. NetPlace'
  BY <1>1, <1>3, <1>4 DEF NetInv, NetNICs, NetTypes, NetHelpers, NetPlace, Unstarted, WaitedFor, NetLate, Net!HelperStates
<1>8. NetAsked'
  <2>1. Net!Privileged'
    BY <1>1, <1>5, PrivilegedKept DEF NetInv, NetTypes
  <2> QED
    BY <1>1, <1>3, <1>4, <2>1 DEF NetInv, NetNICs, NetTypes, NetHelpers, NetAsked, NetLate
<1> QED
  BY <1>2, <1>5, <1>6, <1>7, <1>8 DEF NetInv

LEMMA NetEngineFailsKeeps == ASSUME NetInv, Net!EngineFails PROVE NetInv'
<1> USE DEF Net!EngineFails, Net!Stopping, Net!Softnet, Net!NeedsPrivileges
<1>1. /\ line' = line /\ nics' = nics /\ helper' = helper /\ (suid => suid') /\ (netstep' = "resolve" => netstep = "resolve")
      /\ netstep' = netstep \/ netstep' \in {"build", "exited"} \cup NetLate
      /\ (netstep' \in NetLate => Len(nics) = Len(Net!Wanted))
      /\ (netstep' \in {"resolve", "prepare"} => nics = <<>>)
  BY DEF NetInv, NetNICs, NetTypes, NetLate
<1>2. NetNICs'
  BY <1>1, NICsFrame DEF NetInv
<1>3. /\ Net!Wanted' = Net!Wanted /\ Net!Slots' = Net!Slots /\ Net!Slots = 1 .. Len(Net!Wanted)
      /\ Len(Net!Wanted) \in Nat /\ Len(Net!Wanted) >= 1
  BY <1>1, NetSame, WantedNICs DEF NetInv, NetNICs
<1>4. \A i \in DOMAIN nics : i \in Net!Slots /\ nics[i].mode = Net!Wanted[i].mode /\ DOMAIN nics = 1 .. Len(nics)
  BY BuiltNICs DEF NetInv
<1>5. NetTypes'
  BY <1>1, <1>3, <1>4 DEF NetInv, NetNICs, NetTypes, NetPlace, NetLate
<1>6. NetHelpers'
  BY <1>1, <1>3 DEF NetInv, NetTypes, NetHelpers, NetLate
<1>7. NetPlace'
  BY <1>1, <1>3, <1>4 DEF NetInv, NetNICs, NetTypes, NetHelpers, NetPlace, Unstarted, WaitedFor, NetLate, Net!HelperStates
<1>8. NetAsked'
  <2>1. Net!Privileged'
    BY <1>1, <1>5, PrivilegedKept DEF NetInv, NetTypes
  <2> QED
    BY <1>1, <1>3, <1>4, <2>1 DEF NetInv, NetNICs, NetTypes, NetHelpers, NetAsked, NetLate
<1> QED
  BY <1>2, <1>5, <1>6, <1>7, <1>8 DEF NetInv

LEMMA NetResolveFailsKeeps == ASSUME NetInv, Net!ResolveFails PROVE NetInv'
<1> USE DEF Net!ResolveFails, Net!ProcessEnds, Net!Stopping, Net!Softnet, Net!NeedsPrivileges
<1>1. /\ line' = line /\ nics' = nics /\ helper' = helper /\ (suid => suid') /\ (netstep' = "resolve" => netstep = "resolve")
      /\ netstep' = netstep \/ netstep' \in {"build", "exited"} \cup NetLate
      /\ (netstep' \in NetLate => Len(nics) = Len(Net!Wanted))
      /\ (netstep' \in {"resolve", "prepare"} => nics = <<>>)
  BY DEF NetInv, NetNICs, NetTypes, NetLate
<1>2. NetNICs'
  BY <1>1, NICsFrame DEF NetInv
<1>3. /\ Net!Wanted' = Net!Wanted /\ Net!Slots' = Net!Slots /\ Net!Slots = 1 .. Len(Net!Wanted)
      /\ Len(Net!Wanted) \in Nat /\ Len(Net!Wanted) >= 1
  BY <1>1, NetSame, WantedNICs DEF NetInv, NetNICs
<1>4. \A i \in DOMAIN nics : i \in Net!Slots /\ nics[i].mode = Net!Wanted[i].mode /\ DOMAIN nics = 1 .. Len(nics)
  BY BuiltNICs DEF NetInv
<1>5. NetTypes'
  BY <1>1, <1>3, <1>4 DEF NetInv, NetNICs, NetTypes, NetPlace, NetLate
<1>6. NetHelpers'
  BY <1>1, <1>3 DEF NetInv, NetTypes, NetHelpers, NetLate
<1>7. NetPlace'
  BY <1>1, <1>3, <1>4 DEF NetInv, NetNICs, NetTypes, NetHelpers, NetPlace, Unstarted, WaitedFor, NetLate, Net!HelperStates
<1>8. NetAsked'
  <2>1. Net!Privileged'
    BY <1>1, <1>5, PrivilegedKept DEF NetInv, NetTypes
  <2> QED
    BY <1>1, <1>3, <1>4, <2>1 DEF NetInv, NetNICs, NetTypes, NetHelpers, NetAsked, NetLate
<1> QED
  BY <1>2, <1>5, <1>6, <1>7, <1>8 DEF NetInv

LEMMA NetPrepareFailsKeeps == ASSUME NetInv, Net!PrepareFails PROVE NetInv'
<1> USE DEF Net!PrepareFails, Net!ProcessEnds, Net!Stopping, Net!Softnet, Net!NeedsPrivileges
<1>1. /\ line' = line /\ nics' = nics /\ helper' = helper /\ (suid => suid') /\ (netstep' = "resolve" => netstep = "resolve")
      /\ netstep' = netstep \/ netstep' \in {"build", "exited"} \cup NetLate
      /\ (netstep' \in NetLate => Len(nics) = Len(Net!Wanted))
      /\ (netstep' \in {"resolve", "prepare"} => nics = <<>>)
  BY DEF NetInv, NetNICs, NetTypes, NetLate
<1>2. NetNICs'
  BY <1>1, NICsFrame DEF NetInv
<1>3. /\ Net!Wanted' = Net!Wanted /\ Net!Slots' = Net!Slots /\ Net!Slots = 1 .. Len(Net!Wanted)
      /\ Len(Net!Wanted) \in Nat /\ Len(Net!Wanted) >= 1
  BY <1>1, NetSame, WantedNICs DEF NetInv, NetNICs
<1>4. \A i \in DOMAIN nics : i \in Net!Slots /\ nics[i].mode = Net!Wanted[i].mode /\ DOMAIN nics = 1 .. Len(nics)
  BY BuiltNICs DEF NetInv
<1>5. NetTypes'
  BY <1>1, <1>3, <1>4 DEF NetInv, NetNICs, NetTypes, NetPlace, NetLate
<1>6. NetHelpers'
  BY <1>1, <1>3 DEF NetInv, NetTypes, NetHelpers, NetLate
<1>7. NetPlace'
  BY <1>1, <1>3, <1>4 DEF NetInv, NetNICs, NetTypes, NetHelpers, NetPlace, Unstarted, WaitedFor, NetLate, Net!HelperStates
<1>8. NetAsked'
  <2>1. Net!Privileged'
    BY <1>1, <1>5, PrivilegedKept DEF NetInv, NetTypes
  <2> QED
    BY <1>1, <1>3, <1>4, <2>1 DEF NetInv, NetNICs, NetTypes, NetHelpers, NetAsked, NetLate
<1> QED
  BY <1>2, <1>5, <1>6, <1>7, <1>8 DEF NetInv

LEMMA NetBuildFailsKeeps == ASSUME NetInv, Net!BuildFails PROVE NetInv'
<1> USE DEF Net!BuildFails, Net!ProcessEnds, Net!Stopping, Net!Softnet, Net!NeedsPrivileges
<1>1. /\ line' = line /\ nics' = nics /\ helper' = helper /\ (suid => suid') /\ (netstep' = "resolve" => netstep = "resolve")
      /\ netstep' = netstep \/ netstep' \in {"build", "exited"} \cup NetLate
      /\ (netstep' \in NetLate => Len(nics) = Len(Net!Wanted))
      /\ (netstep' \in {"resolve", "prepare"} => nics = <<>>)
  BY DEF NetInv, NetNICs, NetTypes, NetLate
<1>2. NetNICs'
  BY <1>1, NICsFrame DEF NetInv
<1>3. /\ Net!Wanted' = Net!Wanted /\ Net!Slots' = Net!Slots /\ Net!Slots = 1 .. Len(Net!Wanted)
      /\ Len(Net!Wanted) \in Nat /\ Len(Net!Wanted) >= 1
  BY <1>1, NetSame, WantedNICs DEF NetInv, NetNICs
<1>4. \A i \in DOMAIN nics : i \in Net!Slots /\ nics[i].mode = Net!Wanted[i].mode /\ DOMAIN nics = 1 .. Len(nics)
  BY BuiltNICs DEF NetInv
<1>5. NetTypes'
  BY <1>1, <1>3, <1>4 DEF NetInv, NetNICs, NetTypes, NetPlace, NetLate
<1>6. NetHelpers'
  BY <1>1, <1>3 DEF NetInv, NetTypes, NetHelpers, NetLate
<1>7. NetPlace'
  BY <1>1, <1>3, <1>4 DEF NetInv, NetNICs, NetTypes, NetHelpers, NetPlace, Unstarted, WaitedFor, NetLate, Net!HelperStates
<1>8. NetAsked'
  <2>1. Net!Privileged'
    BY <1>1, <1>5, PrivilegedKept DEF NetInv, NetTypes
  <2> QED
    BY <1>1, <1>3, <1>4, <2>1 DEF NetInv, NetNICs, NetTypes, NetHelpers, NetAsked, NetLate
<1> QED
  BY <1>2, <1>5, <1>6, <1>7, <1>8 DEF NetInv

LEMMA NetMachineFailsKeeps == ASSUME NetInv, Net!MachineFails PROVE NetInv'
<1> USE DEF Net!MachineFails, Net!ProcessEnds, Net!Stopping, Net!Softnet, Net!NeedsPrivileges
<1>1. /\ line' = line /\ nics' = nics /\ helper' = helper /\ (suid => suid') /\ (netstep' = "resolve" => netstep = "resolve")
      /\ netstep' = netstep \/ netstep' \in {"build", "exited"} \cup NetLate
      /\ (netstep' \in NetLate => Len(nics) = Len(Net!Wanted))
      /\ (netstep' \in {"resolve", "prepare"} => nics = <<>>)
  BY DEF NetInv, NetNICs, NetTypes, NetLate
<1>2. NetNICs'
  BY <1>1, NICsFrame DEF NetInv
<1>3. /\ Net!Wanted' = Net!Wanted /\ Net!Slots' = Net!Slots /\ Net!Slots = 1 .. Len(Net!Wanted)
      /\ Len(Net!Wanted) \in Nat /\ Len(Net!Wanted) >= 1
  BY <1>1, NetSame, WantedNICs DEF NetInv, NetNICs
<1>4. \A i \in DOMAIN nics : i \in Net!Slots /\ nics[i].mode = Net!Wanted[i].mode /\ DOMAIN nics = 1 .. Len(nics)
  BY BuiltNICs DEF NetInv
<1>5. NetTypes'
  BY <1>1, <1>3, <1>4 DEF NetInv, NetNICs, NetTypes, NetPlace, NetLate
<1>6. NetHelpers'
  BY <1>1, <1>3 DEF NetInv, NetTypes, NetHelpers, NetLate
<1>7. NetPlace'
  BY <1>1, <1>3, <1>4 DEF NetInv, NetNICs, NetTypes, NetHelpers, NetPlace, Unstarted, WaitedFor, NetLate, Net!HelperStates
<1>8. NetAsked'
  <2>1. Net!Privileged'
    BY <1>1, <1>5, PrivilegedKept DEF NetInv, NetTypes
  <2> QED
    BY <1>1, <1>3, <1>4, <2>1 DEF NetInv, NetNICs, NetTypes, NetHelpers, NetAsked, NetLate
<1> QED
  BY <1>2, <1>5, <1>6, <1>7, <1>8 DEF NetInv

LEMMA NetHaltFailsKeeps == ASSUME NetInv, Net!HaltFails PROVE NetInv'
<1> USE DEF Net!HaltFails, Net!ProcessEnds, Net!Stopping, Net!Softnet, Net!NeedsPrivileges
<1>1. /\ line' = line /\ nics' = nics /\ helper' = helper /\ (suid => suid') /\ (netstep' = "resolve" => netstep = "resolve")
      /\ netstep' = netstep \/ netstep' \in {"build", "exited"} \cup NetLate
      /\ (netstep' \in NetLate => Len(nics) = Len(Net!Wanted))
      /\ (netstep' \in {"resolve", "prepare"} => nics = <<>>)
  BY DEF NetInv, NetNICs, NetTypes, NetLate
<1>2. NetNICs'
  BY <1>1, NICsFrame DEF NetInv
<1>3. /\ Net!Wanted' = Net!Wanted /\ Net!Slots' = Net!Slots /\ Net!Slots = 1 .. Len(Net!Wanted)
      /\ Len(Net!Wanted) \in Nat /\ Len(Net!Wanted) >= 1
  BY <1>1, NetSame, WantedNICs DEF NetInv, NetNICs
<1>4. \A i \in DOMAIN nics : i \in Net!Slots /\ nics[i].mode = Net!Wanted[i].mode /\ DOMAIN nics = 1 .. Len(nics)
  BY BuiltNICs DEF NetInv
<1>5. NetTypes'
  BY <1>1, <1>3, <1>4 DEF NetInv, NetNICs, NetTypes, NetPlace, NetLate
<1>6. NetHelpers'
  BY <1>1, <1>3 DEF NetInv, NetTypes, NetHelpers, NetLate
<1>7. NetPlace'
  BY <1>1, <1>3, <1>4 DEF NetInv, NetNICs, NetTypes, NetHelpers, NetPlace, Unstarted, WaitedFor, NetLate, Net!HelperStates
<1>8. NetAsked'
  <2>1. Net!Privileged'
    BY <1>1, <1>5, PrivilegedKept DEF NetInv, NetTypes
  <2> QED
    BY <1>1, <1>3, <1>4, <2>1 DEF NetInv, NetNICs, NetTypes, NetHelpers, NetAsked, NetLate
<1> QED
  BY <1>2, <1>5, <1>6, <1>7, <1>8 DEF NetInv

LEMMA NetEndsKeeps == ASSUME NetInv, Net!Ends PROVE NetInv'
<1> USE DEF Net!Ends, Net!ProcessEnds, Net!Stopping, Net!Softnet, Net!NeedsPrivileges
<1>1. /\ line' = line /\ nics' = nics /\ helper' = helper /\ (suid => suid') /\ (netstep' = "resolve" => netstep = "resolve")
      /\ netstep' = netstep \/ netstep' \in {"build", "exited"} \cup NetLate
      /\ (netstep' \in NetLate => Len(nics) = Len(Net!Wanted))
      /\ (netstep' \in {"resolve", "prepare"} => nics = <<>>)
  BY DEF NetInv, NetNICs, NetTypes, NetLate
<1>2. NetNICs'
  BY <1>1, NICsFrame DEF NetInv
<1>3. /\ Net!Wanted' = Net!Wanted /\ Net!Slots' = Net!Slots /\ Net!Slots = 1 .. Len(Net!Wanted)
      /\ Len(Net!Wanted) \in Nat /\ Len(Net!Wanted) >= 1
  BY <1>1, NetSame, WantedNICs DEF NetInv, NetNICs
<1>4. \A i \in DOMAIN nics : i \in Net!Slots /\ nics[i].mode = Net!Wanted[i].mode /\ DOMAIN nics = 1 .. Len(nics)
  BY BuiltNICs DEF NetInv
<1>5. NetTypes'
  BY <1>1, <1>3, <1>4 DEF NetInv, NetNICs, NetTypes, NetPlace, NetLate
<1>6. NetHelpers'
  BY <1>1, <1>3 DEF NetInv, NetTypes, NetHelpers, NetLate
<1>7. NetPlace'
  BY <1>1, <1>3, <1>4 DEF NetInv, NetNICs, NetTypes, NetHelpers, NetPlace, Unstarted, WaitedFor, NetLate, Net!HelperStates
<1>8. NetAsked'
  <2>1. Net!Privileged'
    BY <1>1, <1>5, PrivilegedKept DEF NetInv, NetTypes
  <2> QED
    BY <1>1, <1>3, <1>4, <2>1 DEF NetInv, NetNICs, NetTypes, NetHelpers, NetAsked, NetLate
<1> QED
  BY <1>2, <1>5, <1>6, <1>7, <1>8 DEF NetInv

LEMMA NetHelperEndsKeeps == ASSUME NetInv, NEW i \in Net!Slots, Net!HelperEnds(i) PROVE NetInv'
<1> USE DEF Net!HelperEnds, Net!Softnet
<1>1. /\ line' = line /\ nics' = nics /\ netstep' = netstep /\ suid' = suid /\ netstep # "exited"
      /\ helper' = [helper EXCEPT ![i] = "ended"] /\ helper[i] # "none"
      /\ UNCHANGED <<netat, upto, stopping, guest, failed, topology>>
  OBVIOUS
<1>2. NetNICs'
  BY <1>1, NICsFrame DEF NetInv, NetNICs
<1>3. /\ Net!Wanted' = Net!Wanted /\ Net!Slots' = Net!Slots /\ Net!Slots = 1 .. Len(Net!Wanted)
      /\ Len(Net!Wanted) \in Nat /\ Len(Net!Wanted) >= 1
  BY <1>1, NetSame, WantedNICs DEF NetInv, NetNICs
<1>4. netstep # "resolve" /\ helper \in Seq(Net!HelperStates)
  <2>1. netstep # "resolve"
    BY DEF NetInv, NetNICs
  <2> QED
    BY <2>1 DEF NetInv, NetTypes
<1>5. /\ helper' \in Seq(Net!HelperStates) /\ Len(helper') = Len(Net!Wanted)
      /\ \A j \in Net!Slots : helper'[j] = IF j = i THEN "ended" ELSE helper[j]
  <2>1. "ended" \in Net!HelperStates
    BY DEF Net!HelperStates
  <2> QED
    BY <1>1, <1>4, <2>1, HelperSet
<1>6. NetTypes'
  BY <1>1, <1>3, <1>4, <1>5 DEF NetInv, NetTypes
<1>7. NetHelpers'
  BY <1>1, <1>3, <1>4, <1>5 DEF NetInv, NetTypes, NetHelpers
<1>8. NetPlace'
  BY <1>1, <1>3, <1>4, <1>5 DEF NetInv, NetTypes, NetPlace, Unstarted, WaitedFor
<1>9. NetAsked'
  <2>1. DOMAIN helper = Net!Slots /\ DOMAIN helper' = Net!Slots
    BY <1>1, <1>3, <1>4, <1>5 DEF NetInv, NetTypes
  <2>2. Net!Privileged'
    BY <1>1, <1>5, <2>1, PrivilegedKept DEF NetInv, NetTypes
  <2> QED
    BY <1>1, <1>3, <2>2 DEF NetInv, NetTypes, NetAsked
<1> QED
  BY <1>2, <1>6, <1>7, <1>8, <1>9 DEF NetInv

LEMMA NetMonitorSignalsKeeps == ASSUME NetInv, NEW i \in Net!Slots, Net!MonitorSignals(i) PROVE NetInv'
<1> USE DEF Net!MonitorSignals, Net!Softnet
<1>1. /\ line' = line /\ nics' = nics /\ netstep' = netstep /\ suid' = suid /\ netstep # "exited"
      /\ helper' = [helper EXCEPT ![i] = "told"] /\ helper[i] # "none"
      /\ UNCHANGED <<netat, upto, stopping, guest, failed, topology>>
  OBVIOUS
<1>2. NetNICs'
  BY <1>1, NICsFrame DEF NetInv, NetNICs
<1>3. /\ Net!Wanted' = Net!Wanted /\ Net!Slots' = Net!Slots /\ Net!Slots = 1 .. Len(Net!Wanted)
      /\ Len(Net!Wanted) \in Nat /\ Len(Net!Wanted) >= 1
  BY <1>1, NetSame, WantedNICs DEF NetInv, NetNICs
<1>4. netstep # "resolve" /\ helper \in Seq(Net!HelperStates)
  <2>1. netstep # "resolve"
    BY DEF NetInv, NetNICs
  <2> QED
    BY <2>1 DEF NetInv, NetTypes
<1>5. /\ helper' \in Seq(Net!HelperStates) /\ Len(helper') = Len(Net!Wanted)
      /\ \A j \in Net!Slots : helper'[j] = IF j = i THEN "told" ELSE helper[j]
  <2>1. "told" \in Net!HelperStates
    BY DEF Net!HelperStates
  <2> QED
    BY <1>1, <1>4, <2>1, HelperSet
<1>6. NetTypes'
  BY <1>1, <1>3, <1>4, <1>5 DEF NetInv, NetTypes
<1>7. NetHelpers'
  BY <1>1, <1>3, <1>4, <1>5 DEF NetInv, NetTypes, NetHelpers
<1>8. NetPlace'
  BY <1>1, <1>3, <1>4, <1>5 DEF NetInv, NetTypes, NetPlace, Unstarted, WaitedFor
<1>9. NetAsked'
  <2>1. DOMAIN helper = Net!Slots /\ DOMAIN helper' = Net!Slots
    BY <1>1, <1>3, <1>4, <1>5 DEF NetInv, NetTypes
  <2>2. Net!Privileged'
    BY <1>1, <1>5, <2>1, PrivilegedKept DEF NetInv, NetTypes
  <2> QED
    BY <1>1, <1>3, <2>2 DEF NetInv, NetTypes, NetAsked
<1> QED
  BY <1>2, <1>6, <1>7, <1>8, <1>9 DEF NetInv

LEMMA NetMonitorClosesKeeps == ASSUME NetInv, NEW i \in Net!Slots, Net!MonitorCloses(i) PROVE NetInv'
<1> USE DEF Net!MonitorCloses, Net!Softnet
<1>1. /\ line' = line /\ nics' = nics /\ netstep' = netstep /\ suid' = suid /\ netstep # "exited"
      /\ helper' = [helper EXCEPT ![i] = "finished"] /\ helper[i] # "none"
      /\ UNCHANGED <<netat, upto, stopping, guest, failed, topology>>
  OBVIOUS
<1>2. NetNICs'
  BY <1>1, NICsFrame DEF NetInv, NetNICs
<1>3. /\ Net!Wanted' = Net!Wanted /\ Net!Slots' = Net!Slots /\ Net!Slots = 1 .. Len(Net!Wanted)
      /\ Len(Net!Wanted) \in Nat /\ Len(Net!Wanted) >= 1
  BY <1>1, NetSame, WantedNICs DEF NetInv, NetNICs
<1>4. netstep # "resolve" /\ helper \in Seq(Net!HelperStates)
  <2>1. netstep # "resolve"
    BY DEF NetInv, NetNICs
  <2> QED
    BY <2>1 DEF NetInv, NetTypes
<1>5. /\ helper' \in Seq(Net!HelperStates) /\ Len(helper') = Len(Net!Wanted)
      /\ \A j \in Net!Slots : helper'[j] = IF j = i THEN "finished" ELSE helper[j]
  <2>1. "finished" \in Net!HelperStates
    BY DEF Net!HelperStates
  <2> QED
    BY <1>1, <1>4, <2>1, HelperSet
<1>6. NetTypes'
  BY <1>1, <1>3, <1>4, <1>5 DEF NetInv, NetTypes
<1>7. NetHelpers'
  BY <1>1, <1>3, <1>4, <1>5 DEF NetInv, NetTypes, NetHelpers
<1>8. NetPlace'
  BY <1>1, <1>3, <1>4, <1>5 DEF NetInv, NetTypes, NetPlace, Unstarted, WaitedFor
<1>9. NetAsked'
  <2>1. DOMAIN helper = Net!Slots /\ DOMAIN helper' = Net!Slots
    BY <1>1, <1>3, <1>4, <1>5 DEF NetInv, NetTypes
  <2>2. Net!Privileged'
    BY <1>1, <1>5, <2>1, PrivilegedKept DEF NetInv, NetTypes
  <2> QED
    BY <1>1, <1>3, <2>2 DEF NetInv, NetTypes, NetAsked
<1> QED
  BY <1>2, <1>6, <1>7, <1>8, <1>9 DEF NetInv

(* A topology that has not begun. *)
LEMMA NoNICs ==
    ASSUME NetNICs, line' = line, nics' = <<>>, netstep' \notin NetLate
    PROVE  NetNICs'
<1>1. /\ Net!Wanted' = Net!Wanted /\ Net!Slots' = Net!Slots
  BY NetSame
<1>2. Len(Net!Wanted) \in Nat /\ \A S : <<>> \in Seq(S) /\ Len(<<>>) = 0
  BY WantedNICs DEF NetNICs
<1>3. nics' \in Seq({NICOf(i) : i \in Net!Slots}') /\ Len(nics') = 0
  BY <1>2
<1> QED
  BY <1>1, <1>2, <1>3 DEF NetNICs

LEMMA NetResolveKeeps == ASSUME NetInv, Net!Resolve PROVE NetInv'
<1> USE DEF Net!Resolve
<1>1. /\ line' = line /\ nics' = <<>> /\ netstep' = "prepare" /\ suid' = suid
      /\ helper' = [i \in Net!Slots |-> "none"] /\ netat' = netat /\ upto' = upto
      /\ sema' \in BOOLEAN /\ stopping' \in BOOLEAN /\ failed' = failed /\ (failed => early' # {})
      /\ guest' \in {"none", "running", "stopped"} /\ topology' \in Nat
      /\ asked' \subseteq Net!Slots /\ early' \subseteq Net!Slots
  <2>1. sema' \in BOOLEAN /\ stopping' \in BOOLEAN
    BY DEF NetInv, NetTypes
  <2>2. failed \in BOOLEAN /\ failed' = failed /\ (failed => early' # {})
    BY DEF NetInv, NetTypes, NetAsked
  <2>3. /\ line' = line /\ nics' = <<>> /\ netstep' = "prepare" /\ suid' = suid
        /\ helper' = [i \in Net!Slots |-> "none"] /\ netat' = netat /\ upto' = upto
    BY DEF NetInv, NetNICs, NetTypes
  <2>4. /\ guest' \in {"none", "running", "stopped"} /\ topology' \in Nat
        /\ asked' \subseteq Net!Slots /\ early' \subseteq Net!Slots
    BY DEF NetInv, NetTypes
  <2> QED
    BY <2>1, <2>2, <2>3, <2>4
<1>2. NetNICs'
  <2>1. netstep' \notin NetLate
    BY <1>1 DEF NetLate
  <2> QED
    BY <1>1, <2>1, NoNICs DEF NetInv
<1>3. /\ Net!Wanted' = Net!Wanted /\ Net!Slots' = Net!Slots /\ Net!Slots = 1 .. Len(Net!Wanted)
      /\ Len(Net!Wanted) \in Nat /\ Len(Net!Wanted) >= 1
  BY <1>1, NetSame, WantedNICs DEF NetInv, NetNICs
<1>4. /\ helper' \in Seq(Net!HelperStates) /\ Len(helper') = Len(Net!Wanted)
      /\ DOMAIN helper' = Net!Slots /\ \A i \in Net!Slots : helper'[i] = "none"
  BY <1>1, NoHelpers DEF NetInv, NetNICs
<1>5. NetTypes'
  BY <1>1, <1>3, <1>4 DEF NetInv, NetTypes, NetLate
<1>6. NetHelpers'
  BY <1>1, <1>3, <1>4 DEF NetHelpers
<1>7. NetPlace'
  BY <1>1, <1>3, <1>4 DEF NetPlace, Unstarted
<1>8. NetAsked'
  <2>1. Net!Privileged'
    BY <1>4 DEF Net!Privileged
  <2> QED
    BY <1>1, <1>3, <2>1 DEF NetInv, NetAsked
<1> QED
  BY <1>2, <1>5, <1>6, <1>7, <1>8 DEF NetInv

LEMMA NetRevertsKeeps == ASSUME NetInv, Net!Reverts PROVE NetInv'
<1> USE DEF Net!Reverts
<1>1. /\ line' = line /\ nics' = <<>> /\ netstep' = "build" /\ suid' = suid
      /\ helper' = [i \in Net!Slots |-> "none"] /\ netat' = netat /\ upto' = upto
      /\ sema' \in BOOLEAN /\ stopping' \in BOOLEAN /\ failed' = failed /\ (failed => early' # {})
      /\ guest' \in {"none", "running", "stopped"} /\ topology' \in Nat
      /\ asked' \subseteq Net!Slots /\ early' \subseteq Net!Slots
  <2>1. sema' \in BOOLEAN /\ stopping' \in BOOLEAN
    BY DEF NetInv, NetTypes
  <2>2. failed \in BOOLEAN /\ failed' = failed /\ (failed => early' # {})
    BY DEF NetInv, NetTypes, NetAsked
  <2>3. /\ line' = line /\ nics' = <<>> /\ netstep' = "build" /\ suid' = suid
        /\ helper' = [i \in Net!Slots |-> "none"] /\ netat' = netat /\ upto' = upto
    BY DEF NetInv, NetNICs, NetTypes
  <2>4. /\ guest' \in {"none", "running", "stopped"} /\ topology' \in Nat
        /\ asked' \subseteq Net!Slots /\ early' \subseteq Net!Slots
    BY DEF NetInv, NetTypes
  <2> QED
    BY <2>1, <2>2, <2>3, <2>4
<1>2. NetNICs'
  <2>1. netstep' \notin NetLate
    BY <1>1 DEF NetLate
  <2> QED
    BY <1>1, <2>1, NoNICs DEF NetInv
<1>3. /\ Net!Wanted' = Net!Wanted /\ Net!Slots' = Net!Slots /\ Net!Slots = 1 .. Len(Net!Wanted)
      /\ Len(Net!Wanted) \in Nat /\ Len(Net!Wanted) >= 1
  BY <1>1, NetSame, WantedNICs DEF NetInv, NetNICs
<1>4. /\ helper' \in Seq(Net!HelperStates) /\ Len(helper') = Len(Net!Wanted)
      /\ DOMAIN helper' = Net!Slots /\ \A i \in Net!Slots : helper'[i] = "none"
  BY <1>1, NoHelpers DEF NetInv, NetNICs
<1>5. NetTypes'
  BY <1>1, <1>3, <1>4 DEF NetInv, NetTypes, NetLate
<1>6. NetHelpers'
  BY <1>1, <1>3, <1>4 DEF NetHelpers
<1>7. NetPlace'
  BY <1>1, <1>3, <1>4 DEF NetPlace, Unstarted
<1>8. NetAsked'
  <2>1. Net!Privileged'
    BY <1>4 DEF Net!Privileged
  <2> QED
    BY <1>1, <1>3, <2>1 DEF NetInv, NetAsked
<1> QED
  BY <1>2, <1>5, <1>6, <1>7, <1>8 DEF NetInv

LEMMA NetLaunchKeeps == ASSUME NetInv, Net!Launch PROVE NetInv'
<1> USE DEF Net!Launch
<1>2. NetNICs'
  <2>1. netstep' \notin NetLate
    BY DEF NetLate
  <2> QED
    BY <2>1, NoNICs DEF NetInv
<1>3. /\ Net!Wanted' = Net!Wanted /\ Net!Slots' = Net!Slots
      /\ Len(Net!Wanted) \in Nat /\ Len(Net!Wanted) >= 1
  BY NetSame, WantedNICs DEF NetInv, NetNICs
<1>5. NetTypes'
  <2>1. helper' \in Seq(Net!HelperStates)
    OBVIOUS
  <2>2. /\ sema' \in BOOLEAN /\ stopping' \in BOOLEAN /\ failed' \in BOOLEAN /\ suid' \in BOOLEAN
    BY DEF NetInv, NetTypes
  <2> QED
    BY <2>1, <2>2, <1>3 DEF NetTypes, NetLate
<1>6. NetHelpers'
  BY DEF NetHelpers
<1>7. NetPlace'
  BY DEF NetPlace
<1>8. NetAsked'
  <2>1. Net!Privileged'
    BY DEF Net!Privileged
  <2> QED
    BY <2>1 DEF NetAsked
<1> QED
  BY <1>2, <1>5, <1>6, <1>7, <1>8 DEF NetInv

LEMMA NetEngineRunsKeeps == ASSUME NetInv, Net!EngineRuns PROVE NetInv'
<1> USE DEF Net!EngineRuns, Net!Softnet
<1>1. /\ line' = line /\ nics' = nics /\ netstep = "engines" /\ netstep' = netstep /\ suid' = suid
      /\ Len(nics) = Len(Net!Wanted) /\ netat' = netat + 1 /\ netat <= Len(nics)
      /\ UNCHANGED <<upto, asked, early, sema, stopping, guest, failed, topology>>
  BY DEF NetInv, NetNICs, NetLate
<1>2. NetNICs'
  BY <1>1, NICsFrame DEF NetInv
<1>3. /\ Net!Wanted' = Net!Wanted /\ Net!Slots' = Net!Slots /\ Net!Slots = 1 .. Len(Net!Wanted)
      /\ Len(Net!Wanted) \in Nat /\ Len(Net!Wanted) >= 1
  BY <1>1, NetSame, WantedNICs DEF NetInv, NetNICs
<1>4. netat \in Net!Slots
  BY <1>1, <1>3 DEF NetInv, NetTypes
<1>5. /\ helper' \in Seq(Net!HelperStates) /\ Len(helper') = Len(Net!Wanted)
      /\ \A j \in Net!Slots : helper'[j] = helper[j] \/ (j = netat /\ helper'[j] = "running" /\ nics[j].mode = "softnet")
  <2>1. CASE helper' = helper
    BY <1>1, <2>1 DEF NetInv, NetTypes
  <2>2. CASE nics[netat].mode = "softnet" /\ helper' = [helper EXCEPT ![netat] = "running"]
    <3>1. "running" \in Net!HelperStates
      BY DEF Net!HelperStates
    <3>2. netstep \notin {"resolve", "exited"}
      BY <1>1
    <3>3. /\ helper' \in Seq(Net!HelperStates) /\ Len(helper') = Len(Net!Wanted)
          /\ \A j \in Net!Slots : helper'[j] = IF j = netat THEN "running" ELSE helper[j]
      BY <1>4, <2>2, <3>1, <3>2, HelperSet
    <3> QED
      BY <2>2, <3>3
  <2> QED
    BY <2>1, <2>2
<1>6. \A i \in DOMAIN nics : i \in Net!Slots /\ nics[i].mode = Net!Wanted[i].mode
  BY BuiltNICs DEF NetInv
<1>7. nics[netat].mode = Net!Wanted[netat].mode
  <2>1. DOMAIN nics = 1 .. Len(nics)
    BY BuiltNICs DEF NetInv
  <2> QED
    BY <1>1, <1>3, <1>4, <1>6, <2>1
<1>8. NetTypes'
  BY <1>1, <1>3, <1>5 DEF NetInv, NetTypes
<1>9. NetHelpers'
  BY <1>1, <1>3, <1>4, <1>5, <1>7 DEF NetInv, NetHelpers
<1>10. NetPlace'
  BY <1>1, <1>3, <1>4, <1>5 DEF NetInv, NetTypes, NetPlace, Unstarted
<1>11. NetAsked'
  <2>0. DOMAIN helper = Net!Slots /\ DOMAIN helper' = Net!Slots
    BY <1>1, <1>3, <1>5 DEF NetInv, NetTypes
  <2>1. Net!Privileged'
    BY <1>1, <1>3, <1>5, <1>7, <2>0 DEF NetInv, NetAsked, Net!Privileged
  <2> QED
    BY <1>1, <1>3, <2>1 DEF NetInv, NetAsked
<1> QED
  BY <1>2, <1>8, <1>9, <1>10, <1>11 DEF NetInv

LEMMA NetBuildNICKeeps == ASSUME NetInv, Net!BuildNIC PROVE NetInv'
<1> DEFINE i == Len(nics) + 1
           x == IF Net!Wanted[i].mode = "softnet" THEN "made" ELSE helper[i]
<1> USE DEF Net!BuildNIC
<1>1. /\ line' = line /\ nics' = Append(nics, NICOf(i)) /\ netstep = "build" /\ netstep' = netstep /\ suid' = suid
      /\ Len(nics) < Len(Net!Wanted) /\ helper' = [helper EXCEPT ![i] = x]
      /\ UNCHANGED <<netat, upto, asked, early, sema, stopping, guest, failed, topology>>
  BY DEF NICOf
<1>2. /\ Net!Wanted' = Net!Wanted /\ Net!Slots' = Net!Slots /\ Net!Slots = 1 .. Len(Net!Wanted)
      /\ Len(Net!Wanted) \in Nat /\ Len(Net!Wanted) >= 1
      /\ \A j : (NICOf(j))' = NICOf(j)
  BY <1>1, NetSame, WantedNICs DEF NetInv, NetNICs
<1>3. /\ DOMAIN nics = 1 .. Len(nics) /\ Len(nics) \in Nat
  BY BuiltNICs DEF NetInv
<1>4. i \in Net!Slots
  BY <1>1, <1>2, <1>3
<1>5. /\ nics' \in Seq({NICOf(j) : j \in Net!Slots}) /\ Len(nics') = Len(nics) + 1
      /\ \A j \in 1 .. Len(nics) + 1 : nics'[j] = NICOf(j)
  <2> DEFINE S == {NICOf(j) : j \in Net!Slots}
             n == NICOf(i)
  <2>1. n \in S
    BY <1>4
  <2>2. nics \in Seq(S) /\ \A j \in 1 .. Len(nics) : nics[j] = NICOf(j)
    BY DEF NetInv, NetNICs
  <2>4. nics' = Append(nics, n)
    BY <1>1
  <2>5. /\ nics' \in Seq(S) /\ Len(nics') = Len(nics) + 1
        /\ nics'[Len(nics) + 1] = n /\ \A j \in 1 .. Len(nics) : nics'[j] = nics[j]
    <3> HIDE DEF S, n
    <3> QED
      BY <2>1, <2>2, <2>4
  <2> QED
    BY <2>2, <2>5, <1>3
<1>6. NetNICs'
  <2>1. {NICOf(j) : j \in Net!Slots}' = {NICOf(j) : j \in Net!Slots}
    BY <1>2
  <2>2. netstep' \notin NetLate /\ netstep' \notin {"resolve", "prepare"}
    BY <1>1 DEF NetLate
  <2> HIDE DEF i
  <2> QED
    BY <1>1, <1>2, <1>3, <1>5, <2>1, <2>2 DEF NetInv, NetNICs
<1>7. Len(helper) = Len(Net!Wanted) /\ helper \in Seq(Net!HelperStates) /\ DOMAIN helper = Net!Slots
  BY <1>1, <1>2 DEF NetInv, NetTypes
<1>8. /\ helper' \in Seq(Net!HelperStates) /\ Len(helper') = Len(Net!Wanted)
      /\ \A j \in Net!Slots : helper'[j] = helper[j] \/ (j = i /\ helper'[j] = "made" /\ Net!Wanted[j].mode = "softnet")
  <2>1. x \in Net!HelperStates
    BY <1>4, <1>7, ElementOfSeq, <1>2 DEF Net!HelperStates
  <2>2. netstep \notin {"resolve", "exited"}
    BY <1>1
  <2>3. /\ helper' \in Seq(Net!HelperStates) /\ Len(helper') = Len(Net!Wanted)
        /\ \A j \in Net!Slots : helper'[j] = IF j = i THEN x ELSE helper[j]
    <3> HIDE DEF x, i
    <3> QED
      BY <1>1, <1>4, <2>1, <2>2, HelperSet
  <2> QED
    BY <2>3
<1> HIDE DEF x
<1>9. NetTypes'
  BY <1>1, <1>2, <1>8 DEF NetInv, NetTypes
<1>10. NetHelpers'
  <2> SUFFICES ASSUME NEW j \in Net!Slots
               PROVE  /\ helper'[j] # "none" => j <= Len(nics') /\ Net!Wanted[j].mode = "softnet"
                      /\ helper'[j] \in {"ended", "told", "finished"} => j \in asked \cup early
                      /\ helper'[j] \in {"told", "finished"} => sema
    BY <1>1, <1>2 DEF NetHelpers
  <2>1. /\ helper[j] # "none" => j <= Len(nics) /\ Net!Wanted[j].mode = "softnet"
        /\ helper[j] \in {"ended", "told", "finished"} => j \in asked \cup early
        /\ helper[j] \in {"told", "finished"} => sema
    BY <1>1 DEF NetInv, NetHelpers
  <2>2. CASE helper'[j] = helper[j]
    BY <2>1, <2>2, <1>2, <1>3, <1>5
  <2>3. CASE j = i /\ helper'[j] = "made" /\ Net!Wanted[j].mode = "softnet"
    BY <2>3, <1>3, <1>5
  <2> QED
    BY <2>2, <2>3, <1>8
<1>11. NetPlace'
  BY <1>1, <1>2, <1>8 DEF NetInv, NetPlace, Unstarted
<1>12. NetAsked'
  <2>0. DOMAIN helper' = Net!Slots
    BY <1>2, <1>8
  <2>1. Net!Privileged'
    BY <1>1, <1>2, <1>7, <1>8, <2>0 DEF NetInv, NetAsked, Net!Privileged
  <2> QED
    BY <1>1, <1>2, <2>1 DEF NetInv, NetAsked
<1> QED
  BY <1>6, <1>9, <1>10, <1>11, <1>12 DEF NetInv

LEMMA NetStandsStill == ASSUME NetInv, UNCHANGED netvars PROVE NetInv'
<1> USE DEF netvars
<1>1. NetNICs'
  BY NICsFrame DEF NetInv, NetNICs
<1>2. /\ Net!Wanted' = Net!Wanted /\ Net!Slots' = Net!Slots
  BY NetSame
<1> QED
  BY <1>1, <1>2 DEF NetInv, NetTypes, NetHelpers, NetPlace, NetAsked, Unstarted, WaitedFor, Net!Privileged

LEMMA NetStep == ASSUME NetInv, [RunsNext]_runsvars PROVE NetInv'
<1>1. Net!Next \/ UNCHANGED netvars
  BY DEF RunsNext, runsvars
<1>2. CASE UNCHANGED netvars
  BY <1>2, NetStandsStill
<1>3. CASE Net!Next
  <2>1. CASE Net!Run
    BY <2>1, NetResolveKeeps, NetResolveFailsKeeps, NetPrepareKeeps, NetPrepareFailsKeeps, NetBuildNICKeeps, NetBuildFailsKeeps, NetBuiltKeeps, NetEngineRunsKeeps, NetEngineFailsKeeps, NetMachineStartsKeeps, NetMachineFailsKeeps, NetWakesKeeps, NetHaltsKeeps, NetHaltFailsKeeps, NetNoEngineKeeps, NetFoundFinishedKeeps, NetInterruptsKeeps, NetAwaitsMonitorKeeps, NetUndoneKeeps, NetStoppedKeeps, NetEndsKeeps, NetRevertsKeeps, NetLaunchKeeps DEF Net!Run
  <2>2. CASE \E i \in Net!Slots : Net!HelperEnds(i) \/ Net!MonitorSignals(i) \/ Net!MonitorCloses(i)
    BY <2>2, NetHelperEndsKeeps, NetMonitorSignalsKeeps, NetMonitorClosesKeeps
  <2> QED
    BY <1>3, <2>1, <2>2, NetGuestStopsKeeps, NetDisconnectedKeeps, NetCancelKeeps DEF Net!Next
<1> QED
  BY <1>1, <1>2, <1>3

LEMMA NetBegins == RunsInit => NetInv
<1> SUFFICES ASSUME Net!Init PROVE NetInv
  BY DEF RunsInit
<1> USE DEF Net!Init
<1>1. Len(Net!Wanted) \in Nat /\ Len(Net!Wanted) >= 1
  BY WantedNICs
<1>2. NetNICs
  <2>1. nics \in Seq({NICOf(i) : i \in Net!Slots}) /\ Len(nics) = 0
    OBVIOUS
  <2> QED
    BY <2>1, <1>1 DEF NetNICs, NetLate
<1>3. NetTypes
  <2>1. helper \in Seq(Net!HelperStates)
    OBVIOUS
  <2>2. /\ sema \in BOOLEAN /\ stopping \in BOOLEAN /\ failed \in BOOLEAN /\ suid \in BOOLEAN
    OBVIOUS
  <2> QED
    BY <2>1, <2>2, <1>1 DEF NetTypes, NetLate
<1>4. NetHelpers /\ NetPlace /\ NetAsked
  BY DEF NetHelpers, NetPlace, NetAsked, Net!Privileged
<1> QED
  BY <1>2, <1>3, <1>4 DEF NetInv

LEMMA NetImplies == NetInv => Net!NetSafe
<1> SUFFICES ASSUME NetInv PROVE Net!NetSafe
  OBVIOUS
<1>1. /\ DOMAIN nics = 1 .. Len(nics) /\ Len(nics) \in Nat /\ DOMAIN nics \subseteq Net!Slots
      /\ \A i \in DOMAIN nics : nics[i].mode = Net!Wanted[i].mode /\ nics[i].mac = Net!Address(i)
  BY BuiltNICs DEF NetInv
<1>2. /\ Net!Slots = 1 .. Len(Net!Wanted) /\ Len(Net!Wanted) \in Nat /\ Net!Primary \in Net!Slots
  BY WantedNICs DEF NetInv, NetNICs
<1>3. Net!TypeOK
  <2>1. helper \in [1 .. Len(helper) -> Net!HelperStates]
    BY DEF NetInv, NetTypes
  <2>2. {suid, sema, stopping, failed} \subseteq BOOLEAN
    BY DEF NetInv, NetTypes
  <2> QED
    BY <2>1, <2>2 DEF NetInv, NetNICs, NetTypes, Net!TypeOK, NetLate
<1>4. Net!NoneOutlives
  BY DEF NetInv, NetPlace, Net!NoneOutlives, WaitedFor
<1>5. Net!LossIsNoticed
  BY DEF NetInv, NetHelpers, Net!LossIsNoticed
<1>6. Net!FailedForCause /\ Net!Privileged
  BY DEF NetInv, NetAsked, Net!FailedForCause
<1>7. Net!AddressesApart
  <2>1. \A i, j \in DOMAIN nics : i # j /\ nics[i].mac = nics[j].mac => Net!Given(i) \/ Net!Given(j)
    BY <1>1, OwnAddresses DEF NetInv, NetNICs
  <2>2. netstep \in {"engines", "wait"} => \E i \in DOMAIN nics : nics[i].mac = <<Net!Machines>>
    <3> SUFFICES ASSUME netstep \in {"engines", "wait"} PROVE \E i \in DOMAIN nics : nics[i].mac = <<Net!Machines>>
      OBVIOUS
    <3>1. Len(nics) = Len(Net!Wanted)
      BY DEF NetInv, NetNICs, NetLate
    <3>2. Net!Primary \in DOMAIN nics
      BY <3>1, <1>1, <1>2
    <3> QED
      BY <3>2, <1>1, OwnAddresses DEF NetInv, NetNICs
  <2> QED
    BY <2>1, <2>2 DEF Net!AddressesApart
<1> QED
  BY <1>3, <1>4, <1>5, <1>6, <1>7 DEF Net!NetSafe

(* Whatever the command lines ask for: every helper of a run's network is    *)
(* waited for before the run goes on or ends, its loss is noticed, and no    *)
(* two NICs have one address (Topology.Run and Stop, resolveTopology).       *)
THEOREM NetworksAreSafe == RunsSpec => []Net!NetSafe
<1>1. RunsSpec => []NetInv
  BY NetBegins, NetStep, PTL DEF RunsSpec
<1> QED
  BY <1>1, NetImplies, PTL

-----------------------------------------------------------------------------
(* QemuRun                                                                 *)

EmuSts == {"none", "starting", "up", "ended", "closed", "reaped"}
EmuRecs == [st : EmuSts, auth : {"open", "locked", "set"}, boot : {"disk", "media"}]

EmuTypes ==
    /\ emustep \in [WindowsVMs -> Emu!Steps]
    /\ opts \in [WindowsVMs -> [password : BOOLEAN, iso : BOOLEAN]]
    /\ display \in [WindowsVMs -> Nat]
    /\ emu \in [WindowsVMs -> EmuRecs]
    /\ tpm \in [WindowsVMs -> BOOLEAN]
    /\ file \in [WindowsVMs -> Nat]
    /\ cancel \in [WindowsVMs -> BOOLEAN]
    /\ setup \in [WindowsVMs -> {"idle", "dial", "own", "other"}]
    /\ emuleft \in [vm : WindowsVMs \cup {Nobody}, st : {"none", "starting", "up"}, display : Nat]

(* Before its emulator, a run has neither that nor keys to type; the vTPM is *)
(* there before the emulator, and closed after it.                           *)
EmuSteps ==
    \A v \in WindowsVMs :
        /\ emustep[v] \in {"none", "find", "probe", "tpm", "exec"} => emu[v] = Emu!NoEmu /\ setup[v] = "idle"
        /\ emustep[v] \in {"none", "find", "probe", "tpm"} => ~tpm[v]
        /\ emustep[v] = "exec" => tpm[v]
        /\ emu[v].st \in {"starting", "up"} => tpm[v] /\ (opts[v].password => emu[v].auth # "open")
        /\ emu[v].st \in {"closed", "reaped"} => ~tpm[v]

(* An endpoint is of a run that waits, or of the one that was killed. *)
EmuPublished == {"wait", "stop", "kill", "killed"}
EmuFiles ==
    /\ \A v \in WindowsVMs :
          /\ emustep[v] \in EmuPublished => file[v] = display[v]
          /\ emustep[v] \notin EmuPublished /\ file[v] # 0 => emuleft.vm = v
    /\ emuleft.vm = Nobody => emuleft.st = "none"

(* No two listen on one display; who is connected elsewhere is so to one     *)
(* that listens.                                                             *)
EmuApart ==
    /\ \A u, v \in WindowsVMs : u # v /\ emu[u].st = "up" /\ emu[v].st = "up" => display[u] # display[v]
    /\ \A v \in WindowsVMs : emuleft.st = "up" /\ emu[v].st = "up" => emuleft.display # display[v]
EmuKeys ==
    \A v \in WindowsVMs : setup[v] = "other" =>
        \/ \E w \in WindowsVMs : w # v /\ emu[w].st = "up" /\ display[w] = display[v]
        \/ emuleft.st = "up" /\ emuleft.display = display[v]

EmuInv == EmuTypes /\ EmuSteps /\ EmuFiles /\ EmuApart /\ EmuKeys

LEMMA NoEmuIs == Emu!NoEmu \in EmuRecs /\ Emu!NoEmu.st = "none"
BY DEF Emu!NoEmu, EmuRecs, EmuSts

LEMMA EmuStSet ==
    ASSUME EmuTypes, NEW v \in WindowsVMs, NEW s \in EmuSts, emu' = [emu EXCEPT ![v].st = s]
    PROVE  /\ emu' \in [WindowsVMs -> EmuRecs]
           /\ \A u \in WindowsVMs : u # v => emu'[u] = emu[u]
           /\ \A u \in WindowsVMs : emu'[u].st = (IF u = v THEN s ELSE emu[u].st) /\ emu'[u].auth = emu[u].auth
<1> DEFINE r == [emu[v] EXCEPT !.st = s]
<1>1. emu[v] \in EmuRecs /\ emu \in [WindowsVMs -> EmuRecs]
  BY DEF EmuTypes
<1>2. r \in EmuRecs /\ r.st = s /\ r.auth = emu[v].auth
  BY <1>1 DEF EmuRecs
<1>3. emu' = [emu EXCEPT ![v] = r]
  OBVIOUS
<1> HIDE DEF r
<1>4. \A u \in WindowsVMs : emu'[u] = IF u = v THEN r ELSE emu[u]
  BY <1>1, <1>3
<1>5. emu' \in [WindowsVMs -> EmuRecs]
  BY <1>1, <1>2, <1>3
<1> QED
  BY <1>2, <1>4, <1>5

LEMMA ApartKept ==
    ASSUME EmuApart, emuleft' = emuleft,
           \A u \in WindowsVMs : emu'[u].st = "up" => emu[u].st = "up" /\ display'[u] = display[u]
    PROVE  EmuApart'
BY DEF EmuApart

LEMMA KeysKept ==
    ASSUME EmuKeys, emuleft' = emuleft,
           \A u \in WindowsVMs : setup'[u] = "other" => setup[u] = "other" /\ display'[u] = display[u],
           \A u, w \in WindowsVMs : setup'[u] = "other" /\ emu[w].st = "up" /\ display[w] = display[u] =>
               emu'[w].st = "up" /\ display'[w] = display[w]
    PROVE  EmuKeys'
<1> SUFFICES ASSUME NEW u \in WindowsVMs, setup'[u] = "other"
             PROVE  \/ \E w \in WindowsVMs : w # u /\ emu'[w].st = "up" /\ display'[w] = display'[u]
                    \/ emuleft'.st = "up" /\ emuleft'.display = display'[u]
  BY DEF EmuKeys
<1>1. setup[u] = "other" /\ display'[u] = display[u]
  OBVIOUS
<1>2. CASE emuleft.st = "up" /\ emuleft.display = display[u]
  BY <1>1, <1>2
<1>3. ASSUME NEW w \in WindowsVMs, w # u, emu[w].st = "up", display[w] = display[u] PROVE emu'[w].st = "up" /\ display'[w] = display[u]
  BY <1>3
<1> QED
  BY <1>1, <1>2, <1>3 DEF EmuKeys

(* Where a display's server ends, nobody goes on typing at it. *)
LEMMA CutsIs ==
    ASSUME EmuTypes, NEW d, Emu!Cuts(d)
    PROVE  /\ setup' \in [WindowsVMs -> {"idle", "dial", "own", "other"}]
           /\ \A u \in WindowsVMs : setup'[u] \in {setup[u], "idle"} /\ (setup'[u] = "other" => display[u] # d)
BY DEF EmuTypes, Emu!Cuts

LEMMA EmuEndsIs ==
    ASSUME EmuInv, NEW v \in WindowsVMs, Emu!EmuEnds(v)
    PROVE  /\ emu' \in [WindowsVMs -> EmuRecs]
           /\ setup' \in [WindowsVMs -> {"idle", "dial", "own", "other"}]
           /\ \A u \in WindowsVMs : u # v => emu'[u] = emu[u]
           /\ \A u \in WindowsVMs : emu'[u].auth = emu[u].auth
           /\ emu'[v].st = IF emu[v].st \in {"starting", "up"} THEN "ended" ELSE emu[v].st
           /\ \A u \in WindowsVMs : /\ setup'[u] \in {setup[u], "idle"}
                                    /\ setup'[u] = "other" /\ emu[v].st = "up" => display[u] # display[v]
<1>1. PICK s \in EmuSts : /\ emu' = [emu EXCEPT ![v].st = s]
                          /\ s = IF emu[v].st \in {"starting", "up"} THEN "ended" ELSE emu[v].st
  <2>1. emu[v].st \in EmuSts /\ "ended" \in EmuSts
    BY DEF EmuInv, EmuTypes, EmuRecs, EmuSts
  <2>2. CASE emu[v].st \in {"starting", "up"}
    BY <2>1, <2>2 DEF Emu!EmuEnds, Emu!Live
  <2>3. CASE emu[v].st \notin {"starting", "up"}
    BY <2>1, <2>3 DEF Emu!EmuEnds, Emu!Live
  <2> QED
    BY <2>2, <2>3
<1>2. s = IF emu[v].st \in {"starting", "up"} THEN "ended" ELSE emu[v].st
  BY <1>1
<1>3. /\ emu' \in [WindowsVMs -> EmuRecs]
      /\ \A u \in WindowsVMs : u # v => emu'[u] = emu[u]
      /\ \A u \in WindowsVMs : emu'[u].st = (IF u = v THEN s ELSE emu[u].st) /\ emu'[u].auth = emu[u].auth
  <2>1. EmuTypes
    BY DEF EmuInv
  <2>2. emu' = [emu EXCEPT ![v].st = s]
    BY <1>1
  <2> QED
    BY <2>1, <2>2, EmuStSet
<1>4. CASE emu[v].st = "up"
  <2>1. Emu!Cuts(display[v])
    BY <1>4 DEF Emu!EmuEnds
  <2>2. /\ setup' \in [WindowsVMs -> {"idle", "dial", "own", "other"}]
        /\ \A u \in WindowsVMs : setup'[u] \in {setup[u], "idle"} /\ (setup'[u] = "other" => display[u] # display[v])
    BY <2>1, CutsIs DEF EmuInv
  <2> QED
    BY <1>2, <1>3, <2>2
<1>5. CASE emu[v].st # "up"
  <2>1. setup' = setup
    BY <1>5 DEF Emu!EmuEnds
  <2> QED
    BY <1>2, <1>3, <1>5, <2>1 DEF EmuInv, EmuTypes
<1> QED
  BY <1>4, <1>5

LEMMA EmuDisplayFreeKeeps == ASSUME EmuInv, NEW v \in WindowsVMs, Emu!DisplayFree(v) PROVE EmuInv'
<1> USE NoEmuIs
<1>1. /\ emustep[v] \in {"find"} /\ emustep' = [emustep EXCEPT ![v] = "probe"]
      /\ UNCHANGED <<opts, display, emu, tpm, file, cancel, setup, emuleft>>
  BY DEF Emu!DisplayFree, Emu!Goto
<1>2. EmuTypes'
  BY <1>1, HostAssumption DEF EmuInv, EmuTypes, Emu!Steps
<1>3. EmuSteps'
  BY <1>1 DEF EmuInv, EmuTypes, EmuSteps
<1>4. EmuFiles'
  BY <1>1, HostAssumption DEF EmuInv, EmuTypes, EmuFiles, EmuPublished
<1>5. EmuApart'
  BY <1>1 DEF EmuInv, EmuTypes, EmuSteps, EmuApart
<1>6. EmuKeys'
  BY <1>1 DEF EmuInv, EmuTypes, EmuSteps, EmuFiles, EmuApart, EmuKeys
<1> QED
  BY <1>2, <1>3, <1>4, <1>5, <1>6 DEF EmuInv

LEMMA EmuDisplayFoundKeeps == ASSUME EmuInv, NEW v \in WindowsVMs, Emu!DisplayFound(v) PROVE EmuInv'
<1> USE NoEmuIs
<1>1. /\ emustep[v] \in {"probe"} /\ emustep' = [emustep EXCEPT ![v] = "tpm"]
      /\ UNCHANGED <<opts, display, emu, tpm, file, cancel, setup, emuleft>>
  BY DEF Emu!DisplayFound, Emu!Goto
<1>2. EmuTypes'
  BY <1>1, HostAssumption DEF EmuInv, EmuTypes, Emu!Steps
<1>3. EmuSteps'
  BY <1>1 DEF EmuInv, EmuTypes, EmuSteps
<1>4. EmuFiles'
  BY <1>1, HostAssumption DEF EmuInv, EmuTypes, EmuFiles, EmuPublished
<1>5. EmuApart'
  BY <1>1 DEF EmuInv, EmuTypes, EmuSteps, EmuApart
<1>6. EmuKeys'
  BY <1>1 DEF EmuInv, EmuTypes, EmuSteps, EmuFiles, EmuApart, EmuKeys
<1> QED
  BY <1>2, <1>3, <1>4, <1>5, <1>6 DEF EmuInv

LEMMA EmuDialledKeeps == ASSUME EmuInv, NEW v \in WindowsVMs, Emu!Dialled(v) PROVE EmuInv'
<1> USE NoEmuIs
<1>1. /\ emustep[v] \in {"dial"} /\ emustep' = [emustep EXCEPT ![v] = IF opts[v].password THEN "password" ELSE "publish"]
      /\ UNCHANGED <<opts, display, emu, tpm, file, cancel, setup, emuleft>>
  BY DEF Emu!Dialled, Emu!Goto
<1>2. EmuTypes'
  BY <1>1, HostAssumption DEF EmuInv, EmuTypes, Emu!Steps
<1>3. EmuSteps'
  BY <1>1 DEF EmuInv, EmuTypes, EmuSteps
<1>4. EmuFiles'
  BY <1>1, HostAssumption DEF EmuInv, EmuTypes, EmuFiles, EmuPublished
<1>5. EmuApart'
  BY <1>1 DEF EmuInv, EmuTypes, EmuSteps, EmuApart
<1>6. EmuKeys'
  BY <1>1 DEF EmuInv, EmuTypes, EmuSteps, EmuFiles, EmuApart, EmuKeys
<1> QED
  BY <1>2, <1>3, <1>4, <1>5, <1>6 DEF EmuInv

LEMMA EmuDialTimesOutKeeps == ASSUME EmuInv, NEW v \in WindowsVMs, Emu!DialTimesOut(v) PROVE EmuInv'
<1> USE NoEmuIs
<1>1. /\ emustep[v] \in {"dial"} /\ emustep' = [emustep EXCEPT ![v] = "publish"]
      /\ UNCHANGED <<opts, display, emu, tpm, file, cancel, setup, emuleft>>
  BY DEF Emu!DialTimesOut, Emu!Goto
<1>2. EmuTypes'
  BY <1>1, HostAssumption DEF EmuInv, EmuTypes, Emu!Steps
<1>3. EmuSteps'
  BY <1>1 DEF EmuInv, EmuTypes, EmuSteps
<1>4. EmuFiles'
  BY <1>1, HostAssumption DEF EmuInv, EmuTypes, EmuFiles, EmuPublished
<1>5. EmuApart'
  BY <1>1 DEF EmuInv, EmuTypes, EmuSteps, EmuApart
<1>6. EmuKeys'
  BY <1>1 DEF EmuInv, EmuTypes, EmuSteps, EmuFiles, EmuApart, EmuKeys
<1> QED
  BY <1>2, <1>3, <1>4, <1>5, <1>6 DEF EmuInv

LEMMA EmuWaitCancelledKeeps == ASSUME EmuInv, NEW v \in WindowsVMs, Emu!WaitCancelled(v) PROVE EmuInv'
<1> USE NoEmuIs
<1>1. /\ emustep[v] \in {"wait"} /\ emustep' = [emustep EXCEPT ![v] = "stop"]
      /\ UNCHANGED <<opts, display, emu, tpm, file, cancel, setup, emuleft>>
  BY DEF Emu!WaitCancelled, Emu!Goto
<1>2. EmuTypes'
  BY <1>1, HostAssumption DEF EmuInv, EmuTypes, Emu!Steps
<1>3. EmuSteps'
  BY <1>1 DEF EmuInv, EmuTypes, EmuSteps
<1>4. EmuFiles'
  BY <1>1, HostAssumption DEF EmuInv, EmuTypes, EmuFiles, EmuPublished
<1>5. EmuApart'
  BY <1>1 DEF EmuInv, EmuTypes, EmuSteps, EmuApart
<1>6. EmuKeys'
  BY <1>1 DEF EmuInv, EmuTypes, EmuSteps, EmuFiles, EmuApart, EmuKeys
<1> QED
  BY <1>2, <1>3, <1>4, <1>5, <1>6 DEF EmuInv

LEMMA EmuStopTimesOutKeeps == ASSUME EmuInv, NEW v \in WindowsVMs, Emu!StopTimesOut(v) PROVE EmuInv'
<1> USE NoEmuIs
<1>1. /\ emustep[v] \in {"stop"} /\ emustep' = [emustep EXCEPT ![v] = "kill"]
      /\ UNCHANGED <<opts, display, emu, tpm, file, cancel, setup, emuleft>>
  BY DEF Emu!StopTimesOut, Emu!Goto
<1>2. EmuTypes'
  BY <1>1, HostAssumption DEF EmuInv, EmuTypes, Emu!Steps
<1>3. EmuSteps'
  BY <1>1 DEF EmuInv, EmuTypes, EmuSteps
<1>4. EmuFiles'
  BY <1>1, HostAssumption DEF EmuInv, EmuTypes, EmuFiles, EmuPublished
<1>5. EmuApart'
  BY <1>1 DEF EmuInv, EmuTypes, EmuSteps, EmuApart
<1>6. EmuKeys'
  BY <1>1 DEF EmuInv, EmuTypes, EmuSteps, EmuFiles, EmuApart, EmuKeys
<1> QED
  BY <1>2, <1>3, <1>4, <1>5, <1>6 DEF EmuInv

LEMMA EmuInterruptKeeps == ASSUME EmuInv, NEW v \in WindowsVMs, Emu!Interrupt(v) PROVE EmuInv'
<1> USE NoEmuIs
<1>1. /\ cancel' = [cancel EXCEPT ![v] = TRUE] /\ cancel' \in [WindowsVMs -> BOOLEAN]
      /\ UNCHANGED <<emustep, opts, display, emu, tpm, file, setup, emuleft>>
  BY DEF Emu!Interrupt, EmuInv, EmuTypes
<1>2. EmuTypes'
  BY <1>1, HostAssumption DEF EmuInv, EmuTypes, Emu!Steps
<1>3. EmuSteps'
  BY <1>1 DEF EmuInv, EmuTypes, EmuSteps
<1>4. EmuFiles'
  BY <1>1, HostAssumption DEF EmuInv, EmuTypes, EmuFiles, EmuPublished
<1>5. EmuApart'
  BY <1>1 DEF EmuInv, EmuTypes, EmuSteps, EmuApart
<1>6. EmuKeys'
  BY <1>1 DEF EmuInv, EmuTypes, EmuSteps, EmuFiles, EmuApart, EmuKeys
<1> QED
  BY <1>2, <1>3, <1>4, <1>5, <1>6 DEF EmuInv

LEMMA EmuDisplayTakenKeeps == ASSUME EmuInv, NEW v \in WindowsVMs, Emu!DisplayTaken(v) PROVE EmuInv'
<1> USE NoEmuIs
<1>1. /\ emustep[v] = "find" /\ display' = [display EXCEPT ![v] = @ + 1] /\ emu[v] = Emu!NoEmu
      /\ UNCHANGED <<emustep, opts, emu, tpm, file, cancel, setup, emuleft>>
  BY DEF Emu!DisplayTaken, EmuInv, EmuSteps
<1>2. EmuTypes'
  BY <1>1, HostAssumption DEF EmuInv, EmuTypes, Emu!Steps
<1>3. EmuSteps'
  BY <1>1 DEF EmuInv, EmuTypes, EmuSteps
<1>4. EmuFiles'
  BY <1>1, HostAssumption DEF EmuInv, EmuTypes, EmuFiles, EmuPublished
<1>5. EmuApart'
  BY <1>1 DEF EmuInv, EmuTypes, EmuSteps, EmuApart
<1>6. EmuKeys'
  BY <1>1 DEF EmuInv, EmuTypes, EmuSteps, EmuFiles, EmuApart, EmuKeys
<1> QED
  BY <1>2, <1>3, <1>4, <1>5, <1>6 DEF EmuInv

LEMMA EmuRunWindowsKeeps == ASSUME EmuInv, NEW v \in WindowsVMs, Emu!RunWindows(v) PROVE EmuInv'
<1> USE NoEmuIs
<1>1. /\ emustep[v] = "none" /\ emustep' = [emustep EXCEPT ![v] = "find"] /\ emu[v] = Emu!NoEmu
      /\ display' = [display EXCEPT ![v] = 1]
      /\ opts' \in [WindowsVMs -> [password : BOOLEAN, iso : BOOLEAN]]
      /\ \A u \in WindowsVMs : u # v => opts'[u] = opts[u]
      /\ UNCHANGED <<emu, tpm, file, cancel, setup, emuleft>>
  <2>1. PICK o \in RunOptions[v] : opts' = [opts EXCEPT ![v] = o]
    BY DEF Emu!RunWindows
  <2>2. o \in [password : BOOLEAN, iso : BOOLEAN]
    BY HostAssumption
  <2> QED
    BY <2>1, <2>2 DEF Emu!RunWindows, Emu!Goto, EmuInv, EmuSteps, EmuTypes
<1>2. EmuTypes'
  BY <1>1, HostAssumption DEF EmuInv, EmuTypes, Emu!Steps
<1>3. EmuSteps'
  BY <1>1 DEF EmuInv, EmuTypes, EmuSteps
<1>4. EmuFiles'
  BY <1>1, HostAssumption DEF EmuInv, EmuTypes, EmuFiles, EmuPublished
<1>5. EmuApart'
  BY <1>1 DEF EmuInv, EmuTypes, EmuSteps, EmuApart
<1>6. EmuKeys'
  BY <1>1 DEF EmuInv, EmuTypes, EmuSteps, EmuFiles, EmuApart, EmuKeys
<1> QED
  BY <1>2, <1>3, <1>4, <1>5, <1>6 DEF EmuInv

LEMMA EmuStartTPMKeeps == ASSUME EmuInv, NEW v \in WindowsVMs, Emu!StartTPM(v) PROVE EmuInv'
<1> USE NoEmuIs
<1>1. /\ emustep[v] = "tpm" /\ emustep' = [emustep EXCEPT ![v] = "exec"]
      /\ tpm' \in [WindowsVMs -> BOOLEAN] /\ tpm'[v] /\ \A u \in WindowsVMs : u # v => tpm'[u] = tpm[u]
      /\ emu[v] = Emu!NoEmu
      /\ UNCHANGED <<opts, display, emu, file, cancel, setup, emuleft>>
  BY DEF Emu!StartTPM, Emu!Goto, EmuInv, EmuTypes, EmuSteps
<1>2. EmuTypes'
  BY <1>1, HostAssumption DEF EmuInv, EmuTypes, Emu!Steps
<1>3. EmuSteps'
  BY <1>1 DEF EmuInv, EmuTypes, EmuSteps
<1>4. EmuFiles'
  BY <1>1, HostAssumption DEF EmuInv, EmuTypes, EmuFiles, EmuPublished
<1>5. EmuApart'
  BY <1>1 DEF EmuInv, EmuTypes, EmuSteps, EmuApart
<1>6. EmuKeys'
  BY <1>1 DEF EmuInv, EmuTypes, EmuSteps, EmuFiles, EmuApart, EmuKeys
<1> QED
  BY <1>2, <1>3, <1>4, <1>5, <1>6 DEF EmuInv

LEMMA EmuExecKeeps == ASSUME EmuInv, NEW v \in WindowsVMs, Emu!Exec(v) PROVE EmuInv'
<1> USE NoEmuIs
<1>1. /\ emustep[v] = "exec" /\ emustep' = [emustep EXCEPT ![v] = "dial"] /\ emu[v] = Emu!NoEmu
      /\ emu' \in [WindowsVMs -> EmuRecs] /\ emu'[v].st = "starting" /\ (opts[v].password => emu'[v].auth = "locked")
      /\ \A u \in WindowsVMs : u # v => emu'[u] = emu[u]
      /\ UNCHANGED <<opts, display, tpm, file, cancel, setup, emuleft>>
  <2> DEFINE r == Emu!BuildArgs(opts[v])
  <2>1. r \in EmuRecs /\ r.st = "starting" /\ (opts[v].password => r.auth = "locked")
    BY DEF Emu!BuildArgs, EmuRecs, EmuSts
  <2>2. emu' = [emu EXCEPT ![v] = r] /\ emu \in [WindowsVMs -> EmuRecs]
    BY DEF Emu!Exec, EmuInv, EmuTypes
  <2>3. emu' \in [WindowsVMs -> EmuRecs] /\ emu'[v] = r /\ \A u \in WindowsVMs : u # v => emu'[u] = emu[u]
    <3> HIDE DEF r
    <3> QED
      BY <2>1, <2>2
  <2>4. /\ emustep[v] = "exec" /\ emustep' = [emustep EXCEPT ![v] = "dial"] /\ emu[v] = Emu!NoEmu
        /\ UNCHANGED <<opts, display, tpm, file, cancel, setup, emuleft>>
    BY DEF Emu!Exec, Emu!Goto, EmuInv, EmuSteps
  <2> HIDE DEF r
  <2> QED
    BY <2>1, <2>3, <2>4
<1>2. EmuTypes'
  BY <1>1, HostAssumption DEF EmuInv, EmuTypes, Emu!Steps
<1>3. EmuSteps'
  BY <1>1 DEF EmuInv, EmuTypes, EmuSteps
<1>4. EmuFiles'
  BY <1>1, HostAssumption DEF EmuInv, EmuTypes, EmuFiles, EmuPublished
<1>5. EmuApart'
  <2>1. \A u \in WindowsVMs : emu'[u].st = "up" => emu[u].st = "up" /\ display'[u] = display[u]
    <3> SUFFICES ASSUME NEW u \in WindowsVMs, emu'[u].st = "up" PROVE emu[u].st = "up" /\ display'[u] = display[u]
      OBVIOUS
    <3>1. CASE u = v
      BY <1>1, <3>1 DEF EmuInv, EmuTypes
    <3>2. CASE u # v
      BY <1>1, <3>2 DEF EmuInv, EmuTypes
    <3> QED
      BY <3>1, <3>2
  <2> QED
    BY <1>1, <2>1, ApartKept DEF EmuInv
<1>6. EmuKeys'
  <2>1. \A u \in WindowsVMs : setup'[u] = "other" => setup[u] = "other" /\ display'[u] = display[u]
    BY <1>1 DEF EmuInv, EmuTypes
  <2>2. ASSUME NEW u \in WindowsVMs, NEW w \in WindowsVMs, setup'[u] = "other", emu[w].st = "up", display[w] = display[u]
        PROVE  emu'[w].st = "up" /\ display'[w] = display[w]
    <3>1. w # v
      BY <1>1, <2>2 DEF EmuInv, EmuTypes
    <3> QED
      BY <1>1, <2>2, <3>1 DEF EmuInv, EmuTypes
  <2> QED
    BY <1>1, <2>1, <2>2, KeysKept DEF EmuInv
<1> QED
  BY <1>2, <1>3, <1>4, <1>5, <1>6 DEF EmuInv

LEMMA EmuSetVNCPasswordKeeps == ASSUME EmuInv, NEW v \in WindowsVMs, Emu!SetVNCPassword(v) PROVE EmuInv'
<1> USE NoEmuIs
<1>1. /\ emustep[v] = "password" /\ emustep' = [emustep EXCEPT ![v] = "publish"]
      /\ emu' \in [WindowsVMs -> EmuRecs]
      /\ emu'[v].st = emu[v].st /\ emu'[v].auth = "set"
      /\ \A u \in WindowsVMs : u # v => emu'[u] = emu[u]
      /\ UNCHANGED <<opts, display, tpm, file, cancel, setup, emuleft>>
  <2> DEFINE r == [emu[v] EXCEPT !.auth = "set"]
  <2>1. emu[v] \in EmuRecs /\ emu \in [WindowsVMs -> EmuRecs]
    BY DEF EmuInv, EmuTypes
  <2>2. r \in EmuRecs /\ r.st = emu[v].st /\ r.auth = "set"
    BY <2>1 DEF EmuRecs
  <2>3. emu' = [emu EXCEPT ![v] = r]
    BY DEF Emu!SetVNCPassword
  <2>4. emu' \in [WindowsVMs -> EmuRecs] /\ emu'[v] = r /\ \A u \in WindowsVMs : u # v => emu'[u] = emu[u]
    <3> HIDE DEF r
    <3> QED
      BY <2>1, <2>2, <2>3
  <2> HIDE DEF r
  <2> QED
    BY <2>2, <2>4 DEF Emu!SetVNCPassword, Emu!Goto
<1>2. EmuTypes'
  BY <1>1, HostAssumption DEF EmuInv, EmuTypes, Emu!Steps
<1>3. EmuSteps'
  BY <1>1 DEF EmuInv, EmuTypes, EmuSteps
<1>4. EmuFiles'
  BY <1>1, HostAssumption DEF EmuInv, EmuTypes, EmuFiles, EmuPublished
<1>5. EmuApart'
  BY SMTT(30), <1>1 DEF EmuInv, EmuTypes, EmuSteps, EmuApart
<1>6. EmuKeys'
  BY <1>1 DEF EmuInv, EmuTypes, EmuSteps, EmuFiles, EmuApart, EmuKeys
<1> QED
  BY <1>2, <1>3, <1>4, <1>5, <1>6 DEF EmuInv

LEMMA EmuPublishKeeps == ASSUME EmuInv, NEW v \in WindowsVMs, Emu!Publish(v) PROVE EmuInv'
<1> USE NoEmuIs
<1>1. /\ emustep[v] = "publish" /\ emustep' = [emustep EXCEPT ![v] = "wait"]
      /\ file' = [file EXCEPT ![v] = display[v]]
      /\ setup' \in [WindowsVMs -> {"idle", "dial", "own", "other"}] /\ setup'[v] # "other"
      /\ \A u \in WindowsVMs : u # v => setup'[u] = setup[u]
      /\ UNCHANGED <<opts, display, emu, tpm, cancel, emuleft>>
  BY DEF Emu!Publish, Emu!Goto, EmuInv, EmuTypes
<1>2. EmuTypes'
  BY <1>1, HostAssumption DEF EmuInv, EmuTypes, Emu!Steps
<1>3. EmuSteps'
  BY <1>1 DEF EmuInv, EmuTypes, EmuSteps
<1>4. EmuFiles'
  BY <1>1, HostAssumption DEF EmuInv, EmuTypes, EmuFiles, EmuPublished
<1>5. EmuApart'
  BY <1>1 DEF EmuInv, EmuTypes, EmuSteps, EmuApart
<1>6. EmuKeys'
  BY <1>1 DEF EmuInv, EmuTypes, EmuSteps, EmuFiles, EmuApart, EmuKeys
<1> QED
  BY <1>2, <1>3, <1>4, <1>5, <1>6 DEF EmuInv

LEMMA EmuPasswordFailsKeeps == ASSUME EmuInv, NEW v \in WindowsVMs, Emu!PasswordFails(v) PROVE EmuInv'
<1> USE NoEmuIs
<1>1. /\ emustep[v] = "password" /\ emustep' = [emustep EXCEPT ![v] = "discard"]
      /\ emu' \in [WindowsVMs -> EmuRecs]
      /\ setup' \in [WindowsVMs -> {"idle", "dial", "own", "other"}]
      /\ \A u \in WindowsVMs : u # v => emu'[u] = emu[u]
      /\ \A u \in WindowsVMs : emu'[u].auth = emu[u].auth
      /\ emu'[v].st = (IF emu[v].st \in {"starting", "up"} THEN "ended" ELSE emu[v].st)
      /\ \A u \in WindowsVMs : /\ setup'[u] \in {setup[u], "idle"}
                               /\ setup'[u] = "other" /\ emu[v].st = "up" => display[u] # display[v]
      /\ UNCHANGED <<opts, display, tpm, file, cancel, emuleft>>
  <2>1. Emu!EmuEnds(v)
    BY DEF Emu!PasswordFails
  <2>2. emustep[v] = "password" /\ emustep' = [emustep EXCEPT ![v] = "discard"]
    BY DEF Emu!PasswordFails, Emu!Goto, EmuInv, EmuSteps, Emu!Live
  <2> QED
    BY <2>1, <2>2, EmuEndsIs DEF Emu!PasswordFails
<1>2. EmuTypes'
  BY <1>1, HostAssumption DEF EmuInv, EmuTypes, Emu!Steps
<1>3. EmuSteps'
  BY <1>1 DEF EmuInv, EmuTypes, EmuSteps
<1>4. EmuFiles'
  BY <1>1, HostAssumption DEF EmuInv, EmuTypes, EmuFiles, EmuPublished
<1>5. EmuApart'
  <2>1. \A u \in WindowsVMs : emu'[u].st = "up" => emu[u].st = "up" /\ display'[u] = display[u]
    <3> SUFFICES ASSUME NEW u \in WindowsVMs, emu'[u].st = "up" PROVE emu[u].st = "up" /\ display'[u] = display[u]
      OBVIOUS
    <3>1. CASE u = v
      BY <1>1, <3>1 DEF EmuInv, EmuTypes
    <3>2. CASE u # v
      BY <1>1, <3>2 DEF EmuInv, EmuTypes
    <3> QED
      BY <3>1, <3>2
  <2> QED
    BY <1>1, <2>1, ApartKept DEF EmuInv
<1>6. EmuKeys'
  <2>1. \A u \in WindowsVMs : setup'[u] = "other" => setup[u] = "other" /\ display'[u] = display[u]
    BY <1>1 DEF EmuInv, EmuTypes
  <2>2. ASSUME NEW u \in WindowsVMs, NEW w \in WindowsVMs, setup'[u] = "other", emu[w].st = "up", display[w] = display[u]
        PROVE  emu'[w].st = "up" /\ display'[w] = display[w]
    <3>1. w # v
      BY <1>1, <2>2 DEF EmuInv, EmuTypes
    <3> QED
      BY <1>1, <2>2, <3>1 DEF EmuInv, EmuTypes
  <2> QED
    BY <1>1, <2>1, <2>2, KeysKept DEF EmuInv
<1> QED
  BY <1>2, <1>3, <1>4, <1>5, <1>6 DEF EmuInv

LEMMA EmuKillKeeps == ASSUME EmuInv, NEW v \in WindowsVMs, Emu!Kill(v) PROVE EmuInv'
<1> USE NoEmuIs
<1>1. /\ emustep[v] = "kill" /\ emustep' = [emustep EXCEPT ![v] = "killed"]
      /\ emu' \in [WindowsVMs -> EmuRecs]
      /\ setup' \in [WindowsVMs -> {"idle", "dial", "own", "other"}]
      /\ \A u \in WindowsVMs : u # v => emu'[u] = emu[u]
      /\ \A u \in WindowsVMs : emu'[u].auth = emu[u].auth
      /\ emu'[v].st = (IF emu[v].st \in {"starting", "up"} THEN "ended" ELSE emu[v].st)
      /\ \A u \in WindowsVMs : /\ setup'[u] \in {setup[u], "idle"}
                               /\ setup'[u] = "other" /\ emu[v].st = "up" => display[u] # display[v]
      /\ UNCHANGED <<opts, display, tpm, file, cancel, emuleft>>
  <2>1. Emu!EmuEnds(v)
    BY DEF Emu!Kill
  <2>2. emustep[v] = "kill" /\ emustep' = [emustep EXCEPT ![v] = "killed"]
    BY DEF Emu!Kill, Emu!Goto, EmuInv, EmuSteps, Emu!Live
  <2> QED
    BY <2>1, <2>2, EmuEndsIs DEF Emu!Kill
<1>2. EmuTypes'
  BY <1>1, HostAssumption DEF EmuInv, EmuTypes, Emu!Steps
<1>3. EmuSteps'
  BY <1>1 DEF EmuInv, EmuTypes, EmuSteps
<1>4. EmuFiles'
  BY <1>1, HostAssumption DEF EmuInv, EmuTypes, EmuFiles, EmuPublished
<1>5. EmuApart'
  <2>1. \A u \in WindowsVMs : emu'[u].st = "up" => emu[u].st = "up" /\ display'[u] = display[u]
    <3> SUFFICES ASSUME NEW u \in WindowsVMs, emu'[u].st = "up" PROVE emu[u].st = "up" /\ display'[u] = display[u]
      OBVIOUS
    <3>1. CASE u = v
      BY <1>1, <3>1 DEF EmuInv, EmuTypes
    <3>2. CASE u # v
      BY <1>1, <3>2 DEF EmuInv, EmuTypes
    <3> QED
      BY <3>1, <3>2
  <2> QED
    BY <1>1, <2>1, ApartKept DEF EmuInv
<1>6. EmuKeys'
  <2>1. \A u \in WindowsVMs : setup'[u] = "other" => setup[u] = "other" /\ display'[u] = display[u]
    BY <1>1 DEF EmuInv, EmuTypes
  <2>2. ASSUME NEW u \in WindowsVMs, NEW w \in WindowsVMs, setup'[u] = "other", emu[w].st = "up", display[w] = display[u]
        PROVE  emu'[w].st = "up" /\ display'[w] = display[w]
    <3>1. w # v
      BY <1>1, <2>2 DEF EmuInv, EmuTypes
    <3> QED
      BY <1>1, <2>2, <3>1 DEF EmuInv, EmuTypes
  <2> QED
    BY <1>1, <2>1, <2>2, KeysKept DEF EmuInv
<1> QED
  BY <1>2, <1>3, <1>4, <1>5, <1>6 DEF EmuInv

LEMMA EmuEmulatorEndsKeeps == ASSUME EmuInv, NEW v \in WindowsVMs, Emu!EmulatorEnds(v) PROVE EmuInv'
<1> USE NoEmuIs
<1>1. /\ emu[v].st \in {"starting", "up"} /\ emustep' = emustep
      /\ emu' \in [WindowsVMs -> EmuRecs]
      /\ setup' \in [WindowsVMs -> {"idle", "dial", "own", "other"}]
      /\ \A u \in WindowsVMs : u # v => emu'[u] = emu[u]
      /\ \A u \in WindowsVMs : emu'[u].auth = emu[u].auth
      /\ emu'[v].st = (IF emu[v].st \in {"starting", "up"} THEN "ended" ELSE emu[v].st)
      /\ \A u \in WindowsVMs : /\ setup'[u] \in {setup[u], "idle"}
                               /\ setup'[u] = "other" /\ emu[v].st = "up" => display[u] # display[v]
      /\ UNCHANGED <<opts, display, tpm, file, cancel, emuleft>>
  <2>1. Emu!EmuEnds(v)
    BY DEF Emu!EmulatorEnds
  <2>2. emu[v].st \in {"starting", "up"} /\ emustep' = emustep
    BY DEF Emu!EmulatorEnds, Emu!Goto, EmuInv, EmuSteps, Emu!Live
  <2> QED
    BY <2>1, <2>2, EmuEndsIs DEF Emu!EmulatorEnds
<1>2. EmuTypes'
  BY <1>1, HostAssumption DEF EmuInv, EmuTypes, Emu!Steps
<1>3. EmuSteps'
  BY <1>1 DEF EmuInv, EmuTypes, EmuSteps
<1>4. EmuFiles'
  BY <1>1, HostAssumption DEF EmuInv, EmuTypes, EmuFiles, EmuPublished
<1>5. EmuApart'
  <2>1. \A u \in WindowsVMs : emu'[u].st = "up" => emu[u].st = "up" /\ display'[u] = display[u]
    <3> SUFFICES ASSUME NEW u \in WindowsVMs, emu'[u].st = "up" PROVE emu[u].st = "up" /\ display'[u] = display[u]
      OBVIOUS
    <3>1. CASE u = v
      BY <1>1, <3>1 DEF EmuInv, EmuTypes
    <3>2. CASE u # v
      BY <1>1, <3>2 DEF EmuInv, EmuTypes
    <3> QED
      BY <3>1, <3>2
  <2> QED
    BY <1>1, <2>1, ApartKept DEF EmuInv
<1>6. EmuKeys'
  <2>1. \A u \in WindowsVMs : setup'[u] = "other" => setup[u] = "other" /\ display'[u] = display[u]
    BY <1>1 DEF EmuInv, EmuTypes
  <2>2. ASSUME NEW u \in WindowsVMs, NEW w \in WindowsVMs, setup'[u] = "other", emu[w].st = "up", display[w] = display[u]
        PROVE  emu'[w].st = "up" /\ display'[w] = display[w]
    <3>1. w # v
      BY <1>1, <2>2 DEF EmuInv, EmuTypes
    <3> QED
      BY <1>1, <2>2, <3>1 DEF EmuInv, EmuTypes
  <2> QED
    BY <1>1, <2>1, <2>2, KeysKept DEF EmuInv
<1> QED
  BY <1>2, <1>3, <1>4, <1>5, <1>6 DEF EmuInv

LEMMA EmuBindsKeeps == ASSUME EmuInv, NEW v \in WindowsVMs, Emu!Binds(v) PROVE EmuInv'
<1> USE NoEmuIs
<1>1. /\ emu[v].st = "starting" /\ emu' \in [WindowsVMs -> EmuRecs]
      /\ emustep[v] \notin {"none", "find", "probe", "tpm", "exec"}
      /\ tpm' = tpm
      /\ \A u \in WindowsVMs : u # v => emu'[u] = emu[u]
      /\ emu'[v].st = "up" /\ emu'[v].auth = emu[v].auth
      /\ \A u \in WindowsVMs : u # v /\ emu[u].st = "up" => display[u] # display[v]
      /\ emuleft.st = "up" => emuleft.display # display[v]
      /\ UNCHANGED <<emustep, opts, display, file, cancel, setup, emuleft>>
  <2>1. "up" \in EmuSts /\ emu' = [emu EXCEPT ![v].st = "up"]
    BY DEF EmuSts, Emu!Binds
  <2>2. /\ emu' \in [WindowsVMs -> EmuRecs]
        /\ \A u \in WindowsVMs : u # v => emu'[u] = emu[u]
        /\ \A u \in WindowsVMs : emu'[u].st = (IF u = v THEN "up" ELSE emu[u].st) /\ emu'[u].auth = emu[u].auth
    BY <2>1, EmuStSet DEF EmuInv
  <2>3. emu[v].st = "starting" /\ tpm' = tpm
    BY DEF EmuInv, EmuTypes, Emu!Binds
  <2>4. emustep[v] \notin {"none", "find", "probe", "tpm", "exec"}
    BY <2>3, NoEmuIs DEF EmuInv, EmuSteps
  <2>5. /\ \A u \in WindowsVMs : u # v /\ emu[u].st = "up" => display[u] # display[v]
        /\ emuleft.st = "up" => emuleft.display # display[v]
    BY DEF Emu!Binds, Emu!Taken, Emu!Serving
  <2> QED
    BY <2>2, <2>3, <2>4, <2>5 DEF Emu!Binds
<1>2. EmuTypes'
  BY <1>1, HostAssumption DEF EmuInv, EmuTypes, Emu!Steps
<1>3. EmuSteps'
  BY <1>1 DEF EmuInv, EmuTypes, EmuSteps
<1>4. EmuFiles'
  BY <1>1, HostAssumption DEF EmuInv, EmuTypes, EmuFiles, EmuPublished
<1>4a. \A u \in WindowsVMs : emu'[u].st = "up" <=> u = v \/ emu[u].st = "up"
  <2> SUFFICES ASSUME NEW u \in WindowsVMs PROVE emu'[u].st = "up" <=> u = v \/ emu[u].st = "up"
    OBVIOUS
  <2>1. CASE u = v
    BY <1>1, <2>1
  <2>2. CASE u # v
    BY <1>1, <2>2
  <2> QED
    BY <2>1, <2>2
<1>5. EmuApart'
  BY <1>1, <1>4a DEF EmuInv, EmuApart
<1>6. EmuKeys'
  BY <1>1, <1>4a, KeysKept DEF EmuInv
<1> QED
  BY <1>2, <1>3, <1>4, <1>5, <1>6 DEF EmuInv

LEMMA EmuReapClosesKeeps == ASSUME EmuInv, NEW v \in WindowsVMs, Emu!ReapCloses(v) PROVE EmuInv'
<1> USE NoEmuIs
<1>1. /\ emu[v].st = "ended" /\ emu' \in [WindowsVMs -> EmuRecs]
      /\ emustep[v] \notin {"none", "find", "probe", "tpm", "exec"}
      /\ tpm' \in [WindowsVMs -> BOOLEAN] /\ ~tpm'[v] /\ \A u \in WindowsVMs : u # v => tpm'[u] = tpm[u]
      /\ \A u \in WindowsVMs : u # v => emu'[u] = emu[u]
      /\ emu'[v].st = "closed" /\ emu'[v].auth = emu[v].auth
      /\ UNCHANGED <<emustep, opts, display, file, cancel, setup, emuleft>>
  <2>1. "closed" \in EmuSts /\ emu' = [emu EXCEPT ![v].st = "closed"]
    BY DEF EmuSts, Emu!ReapCloses
  <2>2. /\ emu' \in [WindowsVMs -> EmuRecs]
        /\ \A u \in WindowsVMs : u # v => emu'[u] = emu[u]
        /\ \A u \in WindowsVMs : emu'[u].st = (IF u = v THEN "closed" ELSE emu[u].st) /\ emu'[u].auth = emu[u].auth
    BY <2>1, EmuStSet DEF EmuInv
  <2>3. emu[v].st = "ended" /\ tpm' \in [WindowsVMs -> BOOLEAN] /\ ~tpm'[v] /\ \A u \in WindowsVMs : u # v => tpm'[u] = tpm[u]
    BY DEF EmuInv, EmuTypes, Emu!ReapCloses
  <2>4. emustep[v] \notin {"none", "find", "probe", "tpm", "exec"}
    BY <2>3, NoEmuIs DEF EmuInv, EmuSteps
  <2> QED
    BY <2>2, <2>3, <2>4 DEF Emu!ReapCloses
<1>2. EmuTypes'
  BY <1>1, HostAssumption DEF EmuInv, EmuTypes, Emu!Steps
<1>3. EmuSteps'
  BY <1>1 DEF EmuInv, EmuTypes, EmuSteps
<1>4. EmuFiles'
  BY <1>1, HostAssumption DEF EmuInv, EmuTypes, EmuFiles, EmuPublished
<1>5. EmuApart'
  <2>1. \A u \in WindowsVMs : emu'[u].st = "up" => emu[u].st = "up" /\ display'[u] = display[u]
    <3> SUFFICES ASSUME NEW u \in WindowsVMs, emu'[u].st = "up" PROVE emu[u].st = "up" /\ display'[u] = display[u]
      OBVIOUS
    <3>1. CASE u = v
      BY <1>1, <3>1 DEF EmuInv, EmuTypes
    <3>2. CASE u # v
      BY <1>1, <3>2 DEF EmuInv, EmuTypes
    <3> QED
      BY <3>1, <3>2
  <2> QED
    BY <1>1, <2>1, ApartKept DEF EmuInv
<1>6. EmuKeys'
  <2>1. \A u \in WindowsVMs : setup'[u] = "other" => setup[u] = "other" /\ display'[u] = display[u]
    BY <1>1 DEF EmuInv, EmuTypes
  <2>2. ASSUME NEW u \in WindowsVMs, NEW w \in WindowsVMs, setup'[u] = "other", emu[w].st = "up", display[w] = display[u]
        PROVE  emu'[w].st = "up" /\ display'[w] = display[w]
    <3>1. w # v
      BY <1>1, <2>2 DEF EmuInv, EmuTypes
    <3> QED
      BY <1>1, <2>2, <3>1 DEF EmuInv, EmuTypes
  <2> QED
    BY <1>1, <2>1, <2>2, KeysKept DEF EmuInv
<1> QED
  BY <1>2, <1>3, <1>4, <1>5, <1>6 DEF EmuInv

LEMMA EmuReapTellsKeeps == ASSUME EmuInv, NEW v \in WindowsVMs, Emu!ReapTells(v) PROVE EmuInv'
<1> USE NoEmuIs
<1>1. /\ emu[v].st = "closed" /\ emu' \in [WindowsVMs -> EmuRecs]
      /\ emustep[v] \notin {"none", "find", "probe", "tpm", "exec"}
      /\ tpm' = tpm
      /\ \A u \in WindowsVMs : u # v => emu'[u] = emu[u]
      /\ emu'[v].st = "reaped" /\ emu'[v].auth = emu[v].auth
      /\ UNCHANGED <<emustep, opts, display, file, cancel, setup, emuleft>>
  <2>1. "reaped" \in EmuSts /\ emu' = [emu EXCEPT ![v].st = "reaped"]
    BY DEF EmuSts, Emu!ReapTells
  <2>2. /\ emu' \in [WindowsVMs -> EmuRecs]
        /\ \A u \in WindowsVMs : u # v => emu'[u] = emu[u]
        /\ \A u \in WindowsVMs : emu'[u].st = (IF u = v THEN "reaped" ELSE emu[u].st) /\ emu'[u].auth = emu[u].auth
    BY <2>1, EmuStSet DEF EmuInv
  <2>3. emu[v].st = "closed" /\ tpm' = tpm
    BY DEF EmuInv, EmuTypes, Emu!ReapTells
  <2>4. emustep[v] \notin {"none", "find", "probe", "tpm", "exec"}
    BY <2>3, NoEmuIs DEF EmuInv, EmuSteps
  <2> QED
    BY <2>2, <2>3, <2>4 DEF Emu!ReapTells
<1>2. EmuTypes'
  BY <1>1, HostAssumption DEF EmuInv, EmuTypes, Emu!Steps
<1>3. EmuSteps'
  BY <1>1 DEF EmuInv, EmuTypes, EmuSteps
<1>4. EmuFiles'
  BY <1>1, HostAssumption DEF EmuInv, EmuTypes, EmuFiles, EmuPublished
<1>5. EmuApart'
  <2>1. \A u \in WindowsVMs : emu'[u].st = "up" => emu[u].st = "up" /\ display'[u] = display[u]
    <3> SUFFICES ASSUME NEW u \in WindowsVMs, emu'[u].st = "up" PROVE emu[u].st = "up" /\ display'[u] = display[u]
      OBVIOUS
    <3>1. CASE u = v
      BY <1>1, <3>1 DEF EmuInv, EmuTypes
    <3>2. CASE u # v
      BY <1>1, <3>2 DEF EmuInv, EmuTypes
    <3> QED
      BY <3>1, <3>2
  <2> QED
    BY <1>1, <2>1, ApartKept DEF EmuInv
<1>6. EmuKeys'
  <2>1. \A u \in WindowsVMs : setup'[u] = "other" => setup[u] = "other" /\ display'[u] = display[u]
    BY <1>1 DEF EmuInv, EmuTypes
  <2>2. ASSUME NEW u \in WindowsVMs, NEW w \in WindowsVMs, setup'[u] = "other", emu[w].st = "up", display[w] = display[u]
        PROVE  emu'[w].st = "up" /\ display'[w] = display[w]
    <3>1. w # v
      BY <1>1, <2>2 DEF EmuInv, EmuTypes
    <3> QED
      BY <1>1, <2>2, <3>1 DEF EmuInv, EmuTypes
  <2> QED
    BY <1>1, <2>1, <2>2, KeysKept DEF EmuInv
<1> QED
  BY <1>2, <1>3, <1>4, <1>5, <1>6 DEF EmuInv

LEMMA EmuLeftBindsKeeps == ASSUME EmuInv, Emu!LeftBinds PROVE EmuInv'
<1> USE NoEmuIs
<1>1. /\ emuleft.st = "starting" /\ emuleft'.st = "up" /\ emuleft'.vm = emuleft.vm /\ emuleft'.display = emuleft.display
      /\ emuleft' \in [vm : WindowsVMs \cup {Nobody}, st : {"none", "starting", "up"}, display : Nat]
      /\ \A u \in WindowsVMs : emu[u].st = "up" => display[u] # emuleft.display
      /\ UNCHANGED <<emustep, opts, display, emu, tpm, file, cancel, setup>>
  BY DEF Emu!LeftBinds, Emu!Taken, Emu!Serving, EmuInv, EmuTypes
<1>2. EmuTypes'
  BY <1>1, HostAssumption DEF EmuInv, EmuTypes, Emu!Steps
<1>3. EmuSteps'
  BY <1>1 DEF EmuInv, EmuTypes, EmuSteps
<1>4. EmuFiles'
  BY <1>1, HostAssumption DEF EmuInv, EmuTypes, EmuFiles, EmuPublished
<1>5. EmuApart'
  BY <1>1 DEF EmuInv, EmuTypes, EmuSteps, EmuApart
<1>6. EmuKeys'
  BY <1>1 DEF EmuInv, EmuTypes, EmuSteps, EmuFiles, EmuApart, EmuKeys
<1> QED
  BY <1>2, <1>3, <1>4, <1>5, <1>6 DEF EmuInv

LEMMA EmuLeftEndsKeeps == ASSUME EmuInv, Emu!LeftEnds PROVE EmuInv'
<1> USE NoEmuIs
<1>1. /\ emuleft'.st = "none" /\ emuleft'.vm = emuleft.vm
      /\ emuleft' \in [vm : WindowsVMs \cup {Nobody}, st : {"none", "starting", "up"}, display : Nat]
      /\ setup' \in [WindowsVMs -> {"idle", "dial", "own", "other"}]
      /\ \A u \in WindowsVMs : /\ setup'[u] \in {setup[u], "idle"}
                               /\ setup'[u] = "other" /\ emuleft.st = "up" => display[u] # emuleft.display
      /\ UNCHANGED <<emustep, opts, display, emu, tpm, file, cancel>>
  <2>1. /\ emuleft'.st = "none" /\ emuleft'.vm = emuleft.vm
        /\ emuleft' \in [vm : WindowsVMs \cup {Nobody}, st : {"none", "starting", "up"}, display : Nat]
        /\ UNCHANGED <<emustep, opts, display, emu, tpm, file, cancel>>
    BY DEF Emu!LeftEnds, EmuInv, EmuTypes
  <2>2. CASE emuleft.st = "up"
    <3>1. Emu!Cuts(emuleft.display)
      BY <2>2 DEF Emu!LeftEnds
    <3> QED
      BY <2>1, <3>1, CutsIs DEF EmuInv
  <2>3. CASE emuleft.st # "up"
    BY <2>1, <2>3 DEF Emu!LeftEnds, EmuInv, EmuTypes
  <2> QED
    BY <2>2, <2>3
<1>2. EmuTypes'
  BY <1>1, HostAssumption DEF EmuInv, EmuTypes, Emu!Steps
<1>3. EmuSteps'
  BY <1>1 DEF EmuInv, EmuTypes, EmuSteps
<1>4. EmuFiles'
  BY <1>1, HostAssumption DEF EmuInv, EmuTypes, EmuFiles, EmuPublished
<1>5. EmuApart'
  BY <1>1 DEF EmuInv, EmuTypes, EmuSteps, EmuApart
<1>6. EmuKeys'
  BY <1>1 DEF EmuInv, EmuTypes, EmuSteps, EmuFiles, EmuApart, EmuKeys
<1> QED
  BY <1>2, <1>3, <1>4, <1>5, <1>6 DEF EmuInv

LEMMA EmuSetupConnectsKeeps == ASSUME EmuInv, NEW v \in WindowsVMs, Emu!SetupConnects(v) PROVE EmuInv'
<1> USE NoEmuIs
<1>1. /\ setup[v] = "dial" /\ setup' \in [WindowsVMs -> {"idle", "dial", "own", "other"}]
      /\ emustep[v] \notin {"none", "find", "probe", "tpm", "exec"}
      /\ \A u \in WindowsVMs : u # v => setup'[u] = setup[u]
      /\ setup'[v] = "other" =>
            \/ \E w \in WindowsVMs : w # v /\ emu[w].st = "up" /\ display[w] = display[v]
            \/ emuleft.st = "up" /\ emuleft.display = display[v]
      /\ UNCHANGED <<emustep, opts, display, emu, tpm, file, cancel, emuleft>>
  <2>1. setup[v] = "dial" /\ UNCHANGED <<emustep, opts, display, emu, tpm, file, cancel, emuleft>>
    BY DEF Emu!SetupConnects
  <2>2. emustep[v] \notin {"none", "find", "probe", "tpm", "exec"}
    BY <2>1 DEF EmuInv, EmuSteps
  <2> QED
    BY <2>1, <2>2 DEF Emu!SetupConnects, Emu!Serving, EmuInv, EmuTypes
<1>2. EmuTypes'
  BY <1>1, HostAssumption DEF EmuInv, EmuTypes, Emu!Steps
<1>3. EmuSteps'
  BY <1>1 DEF EmuInv, EmuTypes, EmuSteps
<1>4. EmuFiles'
  BY <1>1, HostAssumption DEF EmuInv, EmuTypes, EmuFiles, EmuPublished
<1>5. EmuApart'
  BY <1>1 DEF EmuInv, EmuTypes, EmuSteps, EmuApart
<1>6. EmuKeys'
  BY <1>1 DEF EmuInv, EmuTypes, EmuSteps, EmuFiles, EmuApart, EmuKeys
<1> QED
  BY <1>2, <1>3, <1>4, <1>5, <1>6 DEF EmuInv

LEMMA EmuSetupEndsKeeps == ASSUME EmuInv, NEW v \in WindowsVMs, Emu!SetupEnds(v) PROVE EmuInv'
<1> USE NoEmuIs
<1>1. /\ setup' \in [WindowsVMs -> {"idle", "dial", "own", "other"}] /\ setup'[v] = "idle"
      /\ \A u \in WindowsVMs : u # v => setup'[u] = setup[u]
      /\ UNCHANGED <<emustep, opts, display, emu, tpm, file, cancel, emuleft>>
  BY DEF Emu!SetupEnds, EmuInv, EmuTypes
<1>2. EmuTypes'
  BY <1>1, HostAssumption DEF EmuInv, EmuTypes, Emu!Steps
<1>3. EmuSteps'
  BY <1>1 DEF EmuInv, EmuTypes, EmuSteps
<1>4. EmuFiles'
  BY <1>1, HostAssumption DEF EmuInv, EmuTypes, EmuFiles, EmuPublished
<1>5. EmuApart'
  BY <1>1 DEF EmuInv, EmuTypes, EmuSteps, EmuApart
<1>6. EmuKeys'
  BY <1>1 DEF EmuInv, EmuTypes, EmuSteps, EmuFiles, EmuApart, EmuKeys
<1> QED
  BY <1>2, <1>3, <1>4, <1>5, <1>6 DEF EmuInv

(* A process that has ended, and what it does not leave. *)
EmuGone(v) ==
    /\ emustep' = [emustep EXCEPT ![v] = "none"]
    /\ opts' \in [WindowsVMs -> [password : BOOLEAN, iso : BOOLEAN]]
    /\ \A u \in WindowsVMs : u # v => opts'[u] = opts[u]
    /\ display' = [display EXCEPT ![v] = 0]
    /\ emu' = [emu EXCEPT ![v] = Emu!NoEmu]
    /\ cancel' \in [WindowsVMs -> BOOLEAN]
    /\ setup' = [setup EXCEPT ![v] = "idle"]

LEMMA ExitsIs == ASSUME EmuInv, NEW v \in WindowsVMs, Emu!Exits(v) PROVE EmuGone(v)
<1>1. Emu!NoOpts \in [password : BOOLEAN, iso : BOOLEAN]
  BY DEF Emu!NoOpts
<1>2. /\ opts' \in [WindowsVMs -> [password : BOOLEAN, iso : BOOLEAN]]
      /\ \A u \in WindowsVMs : u # v => opts'[u] = opts[u]
  BY <1>1 DEF Emu!Exits, EmuInv, EmuTypes
<1>3. cancel' \in [WindowsVMs -> BOOLEAN]
  BY DEF Emu!Exits, EmuInv, EmuTypes
<1> QED
  BY <1>2, <1>3 DEF Emu!Exits, Emu!Goto, EmuGone

LEMMA EmuStartFailsKeeps == ASSUME EmuInv, NEW v \in WindowsVMs, Emu!StartFails(v) PROVE EmuInv'
<1> USE NoEmuIs
<1>1. /\ EmuGone(v) /\ tpm' = tpm /\ ~tpm[v]
      /\ file' = file /\ emustep[v] \notin EmuPublished
      /\ emu[v].st \notin {"starting", "up"} /\ emuleft' = emuleft
  <2>1. EmuGone(v)
    BY ExitsIs DEF Emu!StartFails, Emu!Ends
  <2>2. file' = file /\ emustep[v] \notin EmuPublished
    BY DEF Emu!StartFails, EmuPublished
  <2>3. emu[v].st \notin {"starting", "up"} /\ emuleft' = emuleft
    BY NoEmuIs DEF Emu!StartFails, Emu!Ends, EmuInv, EmuSteps
  <2>4. tpm' = tpm /\ ~tpm[v]
    BY DEF Emu!StartFails, EmuInv, EmuTypes, EmuSteps
  <2> QED
    BY <2>1, <2>2, <2>3, <2>4
<1>2. EmuTypes'
  BY <1>1, HostAssumption DEF EmuGone, EmuInv, EmuTypes, Emu!Steps
<1>3. EmuSteps'
  BY <1>1 DEF EmuGone, EmuInv, EmuTypes, EmuSteps
<1>4. EmuFiles'
  BY <1>1, HostAssumption DEF EmuGone, EmuInv, EmuTypes, EmuFiles, EmuPublished
<1>5. EmuApart'
  <2>1. \A u \in WindowsVMs : emu'[u].st = "up" => emu[u].st = "up" /\ display'[u] = display[u]
    <3> SUFFICES ASSUME NEW u \in WindowsVMs, emu'[u].st = "up" PROVE emu[u].st = "up" /\ display'[u] = display[u]
      OBVIOUS
    <3>1. CASE u = v
      BY <1>1, <3>1 DEF EmuGone, EmuInv, EmuTypes
    <3>2. CASE u # v
      BY <1>1, <3>2 DEF EmuGone, EmuInv, EmuTypes
    <3> QED
      BY <3>1, <3>2
  <2> QED
    BY <1>1, <2>1, ApartKept DEF EmuInv
<1>6. EmuKeys'
  <2>1. \A u \in WindowsVMs : setup'[u] = "other" => setup[u] = "other" /\ display'[u] = display[u]
    BY <1>1 DEF EmuGone, EmuInv, EmuTypes
  <2>2. ASSUME NEW u \in WindowsVMs, NEW w \in WindowsVMs, setup'[u] = "other", emu[w].st = "up", display[w] = display[u]
        PROVE  emu'[w].st = "up" /\ display'[w] = display[w]
    <3>1. w # v
      BY <1>1, <2>2 DEF EmuGone, EmuInv, EmuTypes
    <3> QED
      BY <1>1, <2>2, <3>1 DEF EmuGone, EmuInv, EmuTypes
  <2> QED
    BY <1>1, <2>1, <2>2, KeysKept DEF EmuInv
<1> QED
  BY <1>2, <1>3, <1>4, <1>5, <1>6 DEF EmuInv

LEMMA EmuExecFailsKeeps == ASSUME EmuInv, NEW v \in WindowsVMs, Emu!ExecFails(v) PROVE EmuInv'
<1> USE NoEmuIs
<1>1. /\ EmuGone(v) /\ tpm' \in [WindowsVMs -> BOOLEAN] /\ ~tpm'[v] /\ \A u \in WindowsVMs : u # v => tpm'[u] = tpm[u]
      /\ file' = file /\ emustep[v] \notin EmuPublished
      /\ emu[v].st \notin {"starting", "up"} /\ emuleft' = emuleft
  <2>1. EmuGone(v)
    BY ExitsIs DEF Emu!ExecFails, Emu!Ends
  <2>2. file' = file /\ emustep[v] \notin EmuPublished
    BY DEF Emu!ExecFails, EmuPublished
  <2>3. emu[v].st \notin {"starting", "up"} /\ emuleft' = emuleft
    BY NoEmuIs DEF Emu!ExecFails, Emu!Ends, EmuInv, EmuSteps
  <2>4. tpm' \in [WindowsVMs -> BOOLEAN] /\ ~tpm'[v] /\ \A u \in WindowsVMs : u # v => tpm'[u] = tpm[u]
    BY DEF Emu!ExecFails, EmuInv, EmuTypes, EmuSteps
  <2> QED
    BY <2>1, <2>2, <2>3, <2>4
<1>2. EmuTypes'
  BY <1>1, HostAssumption DEF EmuGone, EmuInv, EmuTypes, Emu!Steps
<1>3. EmuSteps'
  BY <1>1 DEF EmuGone, EmuInv, EmuTypes, EmuSteps
<1>4. EmuFiles'
  BY <1>1, HostAssumption DEF EmuGone, EmuInv, EmuTypes, EmuFiles, EmuPublished
<1>5. EmuApart'
  <2>1. \A u \in WindowsVMs : emu'[u].st = "up" => emu[u].st = "up" /\ display'[u] = display[u]
    <3> SUFFICES ASSUME NEW u \in WindowsVMs, emu'[u].st = "up" PROVE emu[u].st = "up" /\ display'[u] = display[u]
      OBVIOUS
    <3>1. CASE u = v
      BY <1>1, <3>1 DEF EmuGone, EmuInv, EmuTypes
    <3>2. CASE u # v
      BY <1>1, <3>2 DEF EmuGone, EmuInv, EmuTypes
    <3> QED
      BY <3>1, <3>2
  <2> QED
    BY <1>1, <2>1, ApartKept DEF EmuInv
<1>6. EmuKeys'
  <2>1. \A u \in WindowsVMs : setup'[u] = "other" => setup[u] = "other" /\ display'[u] = display[u]
    BY <1>1 DEF EmuGone, EmuInv, EmuTypes
  <2>2. ASSUME NEW u \in WindowsVMs, NEW w \in WindowsVMs, setup'[u] = "other", emu[w].st = "up", display[w] = display[u]
        PROVE  emu'[w].st = "up" /\ display'[w] = display[w]
    <3>1. w # v
      BY <1>1, <2>2 DEF EmuGone, EmuInv, EmuTypes
    <3> QED
      BY <1>1, <2>2, <3>1 DEF EmuGone, EmuInv, EmuTypes
  <2> QED
    BY <1>1, <2>1, <2>2, KeysKept DEF EmuInv
<1> QED
  BY <1>2, <1>3, <1>4, <1>5, <1>6 DEF EmuInv

LEMMA EmuDiscardedKeeps == ASSUME EmuInv, NEW v \in WindowsVMs, Emu!Discarded(v) PROVE EmuInv'
<1> USE NoEmuIs
<1>1. /\ EmuGone(v) /\ tpm' = tpm /\ ~tpm[v]
      /\ file' = file /\ emustep[v] \notin EmuPublished
      /\ emu[v].st \notin {"starting", "up"} /\ emuleft' = emuleft
  <2>1. EmuGone(v)
    BY ExitsIs DEF Emu!Discarded, Emu!Ends
  <2>2. file' = file /\ emustep[v] \notin EmuPublished
    BY DEF Emu!Discarded, EmuPublished
  <2>3. emu[v].st \notin {"starting", "up"} /\ emuleft' = emuleft
    BY NoEmuIs DEF Emu!Discarded, Emu!Ends, EmuInv, EmuSteps
  <2>4. tpm' = tpm /\ ~tpm[v]
    BY DEF Emu!Discarded, EmuInv, EmuTypes, EmuSteps
  <2> QED
    BY <2>1, <2>2, <2>3, <2>4
<1>2. EmuTypes'
  BY <1>1, HostAssumption DEF EmuGone, EmuInv, EmuTypes, Emu!Steps
<1>3. EmuSteps'
  BY <1>1 DEF EmuGone, EmuInv, EmuTypes, EmuSteps
<1>4. EmuFiles'
  BY <1>1, HostAssumption DEF EmuGone, EmuInv, EmuTypes, EmuFiles, EmuPublished
<1>5. EmuApart'
  <2>1. \A u \in WindowsVMs : emu'[u].st = "up" => emu[u].st = "up" /\ display'[u] = display[u]
    <3> SUFFICES ASSUME NEW u \in WindowsVMs, emu'[u].st = "up" PROVE emu[u].st = "up" /\ display'[u] = display[u]
      OBVIOUS
    <3>1. CASE u = v
      BY <1>1, <3>1 DEF EmuGone, EmuInv, EmuTypes
    <3>2. CASE u # v
      BY <1>1, <3>2 DEF EmuGone, EmuInv, EmuTypes
    <3> QED
      BY <3>1, <3>2
  <2> QED
    BY <1>1, <2>1, ApartKept DEF EmuInv
<1>6. EmuKeys'
  <2>1. \A u \in WindowsVMs : setup'[u] = "other" => setup[u] = "other" /\ display'[u] = display[u]
    BY <1>1 DEF EmuGone, EmuInv, EmuTypes
  <2>2. ASSUME NEW u \in WindowsVMs, NEW w \in WindowsVMs, setup'[u] = "other", emu[w].st = "up", display[w] = display[u]
        PROVE  emu'[w].st = "up" /\ display'[w] = display[w]
    <3>1. w # v
      BY <1>1, <2>2 DEF EmuGone, EmuInv, EmuTypes
    <3> QED
      BY <1>1, <2>2, <3>1 DEF EmuGone, EmuInv, EmuTypes
  <2> QED
    BY <1>1, <2>1, <2>2, KeysKept DEF EmuInv
<1> QED
  BY <1>2, <1>3, <1>4, <1>5, <1>6 DEF EmuInv

LEMMA EmuWaitEndsKeeps == ASSUME EmuInv, NEW v \in WindowsVMs, Emu!WaitEnds(v) PROVE EmuInv'
<1> USE NoEmuIs
<1>1. /\ EmuGone(v) /\ tpm' = tpm /\ ~tpm[v]
      /\ file' = [file EXCEPT ![v] = 0]
      /\ emu[v].st \notin {"starting", "up"} /\ emuleft' = emuleft
  <2>1. EmuGone(v)
    BY ExitsIs DEF Emu!WaitEnds, Emu!Ends
  <2>2. file' = [file EXCEPT ![v] = 0]
    BY DEF Emu!WaitEnds, EmuPublished
  <2>3. emu[v].st \notin {"starting", "up"} /\ emuleft' = emuleft
    BY NoEmuIs DEF Emu!WaitEnds, Emu!Ends, EmuInv, EmuSteps
  <2>4. tpm' = tpm /\ ~tpm[v]
    BY DEF Emu!WaitEnds, EmuInv, EmuTypes, EmuSteps
  <2> QED
    BY <2>1, <2>2, <2>3, <2>4
<1>2. EmuTypes'
  BY <1>1, HostAssumption DEF EmuGone, EmuInv, EmuTypes, Emu!Steps
<1>3. EmuSteps'
  BY <1>1 DEF EmuGone, EmuInv, EmuTypes, EmuSteps
<1>4. EmuFiles'
  BY <1>1, HostAssumption DEF EmuGone, EmuInv, EmuTypes, EmuFiles, EmuPublished
<1>5. EmuApart'
  <2>1. \A u \in WindowsVMs : emu'[u].st = "up" => emu[u].st = "up" /\ display'[u] = display[u]
    <3> SUFFICES ASSUME NEW u \in WindowsVMs, emu'[u].st = "up" PROVE emu[u].st = "up" /\ display'[u] = display[u]
      OBVIOUS
    <3>1. CASE u = v
      BY <1>1, <3>1 DEF EmuGone, EmuInv, EmuTypes
    <3>2. CASE u # v
      BY <1>1, <3>2 DEF EmuGone, EmuInv, EmuTypes
    <3> QED
      BY <3>1, <3>2
  <2> QED
    BY <1>1, <2>1, ApartKept DEF EmuInv
<1>6. EmuKeys'
  <2>1. \A u \in WindowsVMs : setup'[u] = "other" => setup[u] = "other" /\ display'[u] = display[u]
    BY <1>1 DEF EmuGone, EmuInv, EmuTypes
  <2>2. ASSUME NEW u \in WindowsVMs, NEW w \in WindowsVMs, setup'[u] = "other", emu[w].st = "up", display[w] = display[u]
        PROVE  emu'[w].st = "up" /\ display'[w] = display[w]
    <3>1. w # v
      BY <1>1, <2>2 DEF EmuGone, EmuInv, EmuTypes
    <3> QED
      BY <1>1, <2>2, <3>1 DEF EmuGone, EmuInv, EmuTypes
  <2> QED
    BY <1>1, <2>1, <2>2, KeysKept DEF EmuInv
<1> QED
  BY <1>2, <1>3, <1>4, <1>5, <1>6 DEF EmuInv

LEMMA EmuStopEndsKeeps == ASSUME EmuInv, NEW v \in WindowsVMs, Emu!StopEnds(v) PROVE EmuInv'
<1> USE NoEmuIs
<1>1. /\ EmuGone(v) /\ tpm' = tpm /\ ~tpm[v]
      /\ file' = [file EXCEPT ![v] = 0]
      /\ emu[v].st \notin {"starting", "up"} /\ emuleft' = emuleft
  <2>1. EmuGone(v)
    BY ExitsIs DEF Emu!StopEnds, Emu!Ends
  <2>2. file' = [file EXCEPT ![v] = 0]
    BY DEF Emu!StopEnds, EmuPublished
  <2>3. emu[v].st \notin {"starting", "up"} /\ emuleft' = emuleft
    BY NoEmuIs DEF Emu!StopEnds, Emu!Ends, EmuInv, EmuSteps
  <2>4. tpm' = tpm /\ ~tpm[v]
    BY DEF Emu!StopEnds, EmuInv, EmuTypes, EmuSteps
  <2> QED
    BY <2>1, <2>2, <2>3, <2>4
<1>2. EmuTypes'
  BY <1>1, HostAssumption DEF EmuGone, EmuInv, EmuTypes, Emu!Steps
<1>3. EmuSteps'
  BY <1>1 DEF EmuGone, EmuInv, EmuTypes, EmuSteps
<1>4. EmuFiles'
  BY <1>1, HostAssumption DEF EmuGone, EmuInv, EmuTypes, EmuFiles, EmuPublished
<1>5. EmuApart'
  <2>1. \A u \in WindowsVMs : emu'[u].st = "up" => emu[u].st = "up" /\ display'[u] = display[u]
    <3> SUFFICES ASSUME NEW u \in WindowsVMs, emu'[u].st = "up" PROVE emu[u].st = "up" /\ display'[u] = display[u]
      OBVIOUS
    <3>1. CASE u = v
      BY <1>1, <3>1 DEF EmuGone, EmuInv, EmuTypes
    <3>2. CASE u # v
      BY <1>1, <3>2 DEF EmuGone, EmuInv, EmuTypes
    <3> QED
      BY <3>1, <3>2
  <2> QED
    BY <1>1, <2>1, ApartKept DEF EmuInv
<1>6. EmuKeys'
  <2>1. \A u \in WindowsVMs : setup'[u] = "other" => setup[u] = "other" /\ display'[u] = display[u]
    BY <1>1 DEF EmuGone, EmuInv, EmuTypes
  <2>2. ASSUME NEW u \in WindowsVMs, NEW w \in WindowsVMs, setup'[u] = "other", emu[w].st = "up", display[w] = display[u]
        PROVE  emu'[w].st = "up" /\ display'[w] = display[w]
    <3>1. w # v
      BY <1>1, <2>2 DEF EmuGone, EmuInv, EmuTypes
    <3> QED
      BY <1>1, <2>2, <3>1 DEF EmuGone, EmuInv, EmuTypes
  <2> QED
    BY <1>1, <2>1, <2>2, KeysKept DEF EmuInv
<1> QED
  BY <1>2, <1>3, <1>4, <1>5, <1>6 DEF EmuInv

LEMMA EmuKillEndsKeeps == ASSUME EmuInv, NEW v \in WindowsVMs, Emu!KillEnds(v) PROVE EmuInv'
<1> USE NoEmuIs
<1>1. /\ EmuGone(v) /\ tpm' = tpm /\ ~tpm[v]
      /\ file' = [file EXCEPT ![v] = 0]
      /\ emu[v].st \notin {"starting", "up"} /\ emuleft' = emuleft
  <2>1. EmuGone(v)
    BY ExitsIs DEF Emu!KillEnds, Emu!Ends
  <2>2. file' = [file EXCEPT ![v] = 0]
    BY DEF Emu!KillEnds, EmuPublished
  <2>3. emu[v].st \notin {"starting", "up"} /\ emuleft' = emuleft
    BY NoEmuIs DEF Emu!KillEnds, Emu!Ends, EmuInv, EmuSteps
  <2>4. tpm' = tpm /\ ~tpm[v]
    BY DEF Emu!KillEnds, EmuInv, EmuTypes, EmuSteps
  <2> QED
    BY <2>1, <2>2, <2>3, <2>4
<1>2. EmuTypes'
  BY <1>1, HostAssumption DEF EmuGone, EmuInv, EmuTypes, Emu!Steps
<1>3. EmuSteps'
  BY <1>1 DEF EmuGone, EmuInv, EmuTypes, EmuSteps
<1>4. EmuFiles'
  BY <1>1, HostAssumption DEF EmuGone, EmuInv, EmuTypes, EmuFiles, EmuPublished
<1>5. EmuApart'
  <2>1. \A u \in WindowsVMs : emu'[u].st = "up" => emu[u].st = "up" /\ display'[u] = display[u]
    <3> SUFFICES ASSUME NEW u \in WindowsVMs, emu'[u].st = "up" PROVE emu[u].st = "up" /\ display'[u] = display[u]
      OBVIOUS
    <3>1. CASE u = v
      BY <1>1, <3>1 DEF EmuGone, EmuInv, EmuTypes
    <3>2. CASE u # v
      BY <1>1, <3>2 DEF EmuGone, EmuInv, EmuTypes
    <3> QED
      BY <3>1, <3>2
  <2> QED
    BY <1>1, <2>1, ApartKept DEF EmuInv
<1>6. EmuKeys'
  <2>1. \A u \in WindowsVMs : setup'[u] = "other" => setup[u] = "other" /\ display'[u] = display[u]
    BY <1>1 DEF EmuGone, EmuInv, EmuTypes
  <2>2. ASSUME NEW u \in WindowsVMs, NEW w \in WindowsVMs, setup'[u] = "other", emu[w].st = "up", display[w] = display[u]
        PROVE  emu'[w].st = "up" /\ display'[w] = display[w]
    <3>1. w # v
      BY <1>1, <2>2 DEF EmuGone, EmuInv, EmuTypes
    <3> QED
      BY <1>1, <2>2, <3>1 DEF EmuGone, EmuInv, EmuTypes
  <2> QED
    BY <1>1, <2>1, <2>2, KeysKept DEF EmuInv
<1> QED
  BY <1>2, <1>3, <1>4, <1>5, <1>6 DEF EmuInv

LEMMA EmuKilledKeeps == ASSUME EmuInv, NEW v \in WindowsVMs, Emu!Killed(v) PROVE EmuInv'
<1> USE NoEmuIs
<1>1. /\ EmuGone(v) /\ tpm' \in [WindowsVMs -> BOOLEAN] /\ ~tpm'[v] /\ \A u \in WindowsVMs : u # v => tpm'[u] = tpm[u]
      /\ file' = file /\ emuleft.vm = Nobody /\ emuleft.st = "none"
      /\ emuleft' \in [vm : WindowsVMs \cup {Nobody}, st : {"none", "starting", "up"}, display : Nat]
      /\ emuleft'.vm = v /\ (emuleft'.st = "up" => emu[v].st = "up") /\ (emu[v].st = "up" => emuleft'.st = "up" /\ emuleft'.display = display[v])
  <2>1. EmuGone(v)
    BY ExitsIs DEF Emu!Killed
  <2>2. file' = file /\ emuleft.vm = Nobody /\ emuleft.st = "none"
    BY DEF Emu!Killed, EmuInv, EmuFiles
  <2>3. tpm' \in [WindowsVMs -> BOOLEAN] /\ ~tpm'[v] /\ \A u \in WindowsVMs : u # v => tpm'[u] = tpm[u]
    BY DEF Emu!Killed, EmuInv, EmuTypes
  <2>4. CASE Emu!Live(v)
    <3>1. emuleft' = [vm |-> v, st |-> emu[v].st, display |-> display[v]]
      BY <2>4 DEF Emu!Killed
    <3>2. emu[v].st \in {"starting", "up"} /\ display[v] \in Nat
      BY <2>4 DEF Emu!Live, EmuInv, EmuTypes
    <3> QED
      BY <2>1, <2>2, <2>3, <3>1, <3>2
  <2>5. CASE ~Emu!Live(v)
    <3>1. emuleft' = [vm |-> v, st |-> "none", display |-> 0] /\ emu[v].st # "up"
      BY <2>5 DEF Emu!Killed, Emu!Live
    <3> QED
      BY <2>1, <2>2, <2>3, <3>1
  <2> QED
    BY <2>4, <2>5
<1>2. EmuTypes'
  BY <1>1, HostAssumption DEF EmuGone, EmuInv, EmuTypes, Emu!Steps
<1>3. EmuSteps'
  BY <1>1 DEF EmuGone, EmuInv, EmuTypes, EmuSteps
<1>4. EmuFiles'
  BY <1>1, HostAssumption DEF EmuGone, EmuInv, EmuTypes, EmuFiles, EmuPublished
<1>5. EmuApart'
  BY <1>1 DEF EmuGone, EmuInv, EmuTypes, EmuSteps, EmuApart
<1>6. EmuKeys'
  BY SMTT(30), <1>1 DEF EmuInv, EmuTypes, EmuSteps, EmuFiles, EmuApart, EmuKeys, EmuGone
<1> QED
  BY <1>2, <1>3, <1>4, <1>5, <1>6 DEF EmuInv

LEMMA EmuStep == ASSUME EmuInv, [RunsNext]_runsvars PROVE EmuInv'
<1>1. Emu!Next \/ UNCHANGED emuvars
  BY DEF RunsNext, runsvars
<1>2. CASE UNCHANGED emuvars
  BY <1>2 DEF emuvars, EmuInv, EmuTypes, EmuSteps, EmuFiles, EmuApart, EmuKeys
<1>3. CASE Emu!LeftBinds \/ Emu!LeftEnds
  BY <1>3, EmuLeftBindsKeeps, EmuLeftEndsKeeps
<1>4. ASSUME NEW v \in WindowsVMs,
             \/ Emu!Start(v) \/ Emu!Finish(v)
             \/ Emu!Binds(v) \/ Emu!EmulatorEnds(v) \/ Emu!ReapCloses(v) \/ Emu!ReapTells(v)
             \/ Emu!SetupConnects(v) \/ Emu!SetupEnds(v)
      PROVE  EmuInv'
  <2>1. CASE Emu!Start(v)
    BY <2>1, EmuRunWindowsKeeps, EmuDisplayTakenKeeps, EmuDisplayFreeKeeps, EmuDisplayFoundKeeps, EmuStartTPMKeeps, EmuStartFailsKeeps, EmuExecKeeps, EmuExecFailsKeeps, EmuDialledKeeps, EmuDialTimesOutKeeps, EmuSetVNCPasswordKeeps, EmuPasswordFailsKeeps, EmuDiscardedKeeps, EmuPublishKeeps DEF Emu!Start
  <2>2. CASE Emu!Finish(v)
    BY <2>2, EmuWaitEndsKeeps, EmuWaitCancelledKeeps, EmuStopEndsKeeps, EmuStopTimesOutKeeps, EmuKillKeeps, EmuKillEndsKeeps, EmuKilledKeeps, EmuInterruptKeeps DEF Emu!Finish
  <2> QED
    BY <1>4, <2>1, <2>2, EmuBindsKeeps, EmuEmulatorEndsKeeps, EmuReapClosesKeeps, EmuReapTellsKeeps, EmuSetupConnectsKeeps, EmuSetupEndsKeeps
<1> QED
  BY <1>1, <1>2, <1>3, <1>4 DEF Emu!Next

LEMMA EmuBegins == RunsInit => EmuInv
<1> SUFFICES ASSUME Emu!Init PROVE EmuInv
  BY DEF RunsInit
<1> USE DEF Emu!Init
<1>1. Emu!NoOpts \in [password : BOOLEAN, iso : BOOLEAN]
  BY DEF Emu!NoOpts
<1>2. emuleft \in [vm : WindowsVMs \cup {Nobody}, st : {"none", "starting", "up"}, display : Nat] /\ emuleft.st = "none"
  BY DEF Emu!NothingLeft
<1>3. tpm \in [WindowsVMs -> BOOLEAN] /\ cancel \in [WindowsVMs -> BOOLEAN] /\ \A v \in WindowsVMs : ~tpm[v]
  OBVIOUS
<1>4. EmuTypes
  BY <1>1, <1>2, <1>3, NoEmuIs DEF EmuTypes, Emu!Steps
<1>5. EmuSteps
  BY <1>3, NoEmuIs DEF EmuSteps
<1>6. EmuFiles /\ EmuApart /\ EmuKeys
  BY <1>2, NoEmuIs DEF EmuFiles, EmuApart, EmuKeys, EmuPublished
<1> QED
  BY <1>4, <1>5, <1>6 DEF EmuInv

LEMMA EmuImplies == EmuInv => Emu!EmuSafe
<1> SUFFICES ASSUME EmuInv PROVE Emu!EmuSafe
  OBVIOUS
<1>1. Emu!TypeOK
  BY DEF EmuInv, EmuTypes, EmuRecs, EmuSts, Emu!TypeOK
<1>2. Emu!RunsLeaveNothing
  BY DEF EmuInv, EmuSteps, EmuFiles, EmuPublished, Emu!RunsLeaveNothing
<1>3. Emu!TPMOutlivesGuest
  BY DEF EmuInv, EmuSteps, Emu!TPMOutlivesGuest, Emu!Live
<1>4. Emu!KeysGoHome
  <2> SUFFICES ASSUME NEW v \in WindowsVMs
               PROVE  /\ setup[v] = "other" => emu[v].st # "up"
                      /\ emustep[v] \in {"wait", "stop"} /\ emu[v].st = "up" => Emu!Serving(file[v]) = {v}
    BY DEF Emu!KeysGoHome
  <2>1. setup[v] = "other" => emu[v].st # "up"
    BY DEF EmuInv, EmuKeys, EmuApart
  <2>2. ASSUME emustep[v] \in {"wait", "stop"}, emu[v].st = "up" PROVE Emu!Serving(file[v]) = {v}
    <3>1. file[v] = display[v]
      BY <2>2 DEF EmuInv, EmuFiles, EmuPublished
    <3> QED
      BY <2>2, <3>1 DEF EmuInv, EmuApart, Emu!Serving
  <2> QED
    BY <2>1, <2>2
<1>5. Emu!PasswordKept
  BY DEF EmuInv, EmuSteps, Emu!PasswordKept, Emu!Live
<1> QED
  BY <1>1, <1>2, <1>3, <1>4, <1>5 DEF Emu!EmuSafe

(* However many Windows VMs run: a run leaves no emulator, vTPM or endpoint  *)
(* behind, and its keys and its password are its own machine's (runWindows,  *)
(* Start, reap, findFreeVNCDisplay).                                         *)
THEOREM EmulatorsAreSafe == RunsSpec => []Emu!EmuSafe
<1>1. RunsSpec => []EmuInv
  BY EmuBegins, EmuStep, PTL DEF RunsSpec
<1> QED
  BY <1>1, EmuImplies, PTL

-----------------------------------------------------------------------------
(* ApiServer                                                               *)

ApiAts == Api!WithTemp \cup {"idle", "read", "command", "running", "shell"}
ApiBodies == {"nothing", "some", "whole"}
ApiStatuses == Api!ErrorStatus \cup {"none", "cut", "200", "202", "code"}
ApiJobs == [image : Images, st : {"running", "succeeded", "failed"}]
ApiTickets == [run : Nat, id : Nat, image : Images \cup {"none"}]
ApiReplies == [run : Nat, id : Nat, image : Images \cup {"none"}, st : {"none", "running", "succeeded", "failed"}]
ApiShells == [remote : {"none", "up", "ok", "code", "lost"}, wrote : Nat, got : Nat, here : BOOLEAN]

ApiTypes ==
    /\ asks \in [Callers -> SUBSET Api!Kinds]
    /\ server \in [st : {"down", "up", "closing"}, run : Nat]
    /\ apiat \in [Callers -> ApiAts]
    /\ kind \in [Callers -> Api!Kinds]
    /\ arg \in [Callers -> Started]
    /\ body \in [Callers -> ApiBodies]
    /\ ans \in [Callers -> ApiStatuses]
    /\ temps \subseteq [of : Callers, run : Nat]
    /\ imports \subseteq {"whole"}
    /\ jobs \in Seq(ApiJobs)
    /\ ticket \in [Callers -> ApiTickets]
    /\ reply \in [Callers -> ApiReplies]
    /\ machine \in [Started -> BOOLEAN]
    /\ apichild \in [Started -> Nat]
    /\ shell \in [Callers -> ApiShells]

(* No handler works where no server does, and what is temporary is of this   *)
(* server's handlers or of an earlier server.                                *)
ApiTemps ==
    /\ \A c \in Callers : apiat[c] # "idle" => server.st # "down"
    /\ \A t \in temps : t.run <= server.run
    /\ \A t \in temps : server.st # "down" /\ t.run = server.run => apiat[t.of] \in Api!WithTemp
    /\ \A c \in Callers : apiat[c] \in Api!WithTemp => Api!Temp(c) \in temps

(* Where a handler is, its request is one for it, and unanswered. *)
ApiPlaces ==
    \A c \in Callers :
        /\ apiat[c] \notin {"idle", "clean"} => ans[c] = "none"
        /\ apiat[c] = "command" => kind[c] = "command"
        /\ apiat[c] \in {"part", "import"} => kind[c] = "upload"
        /\ apiat[c] \in {"export", "stream"} => kind[c] = "download"
        /\ apiat[c] = "running" => kind[c] = "run"
        /\ apiat[c] = "shell" => kind[c] = "shell"
        /\ apiat[c] = "import" => body[c] = "whole"
        /\ kind[c] = "upload" /\ apiat[c] = "clean" /\ ans[c] = "200" => body[c] = "whole"

(* Tickets and replies are of this server's pulls or of an earlier server's. *)
ApiPulls ==
    \A c \in Callers :
        /\ ticket[c].run <= server.run /\ reply[c].run <= server.run
        /\ ticket[c].run = server.run /\ ticket[c].id # 0 /\ server.st # "down" =>
              ticket[c].id \in DOMAIN jobs /\ jobs[ticket[c].id].image = ticket[c].image
        /\ reply[c].run = server.run /\ reply[c].id # 0 /\ server.st # "down" =>
              /\ reply[c].id \in DOMAIN jobs /\ jobs[reply[c].id].image = reply[c].image
              /\ reply[c].st # "running" => jobs[reply[c].id].st = reply[c].st
        /\ reply[c].run = ticket[c].run /\ reply[c].id = ticket[c].id => reply[c].image = ticket[c].image

ApiInv == ApiTypes /\ ApiTemps /\ ApiPlaces /\ ApiPulls /\ Api!StatusLast

(* An answer ends the handler, or leaves it its removal. *)
LEMMA AnswerIs ==
    ASSUME ApiInv, NEW c \in Callers, NEW s \in ApiStatuses, Api!Answer(c, s), apiat[c] # "idle"
    PROVE  /\ ans' = [ans EXCEPT ![c] = s]
           /\ apiat' = [apiat EXCEPT ![c] = IF apiat[c] \in Api!WithTemp THEN "clean" ELSE "idle"]
<1>1. Api!Temp(c).of = c /\ Api!Temp(c).run = server.run
  BY DEF Api!Temp
<1>2. Api!Temp(c) \in temps <=> apiat[c] \in Api!WithTemp
  BY <1>1 DEF ApiInv, ApiTemps
<1> QED
  BY <1>2 DEF Api!Answer, Api!Goto

(* Temporary files, when no file comes or goes and no handler comes to one   *)
(* or from one.                                                              *)
LEMMA TempsKept ==
    ASSUME ApiTypes, ApiTemps, server' = server, temps' = temps,
           \A c \in Callers : apiat'[c] # "idle" => apiat[c] # "idle" \/ server.st # "down",
           \A c \in Callers : apiat'[c] \in Api!WithTemp <=> apiat[c] \in Api!WithTemp
    PROVE  ApiTemps'
<1>1. \A c \in Callers : (Api!Temp(c))' = Api!Temp(c)
  BY DEF Api!Temp
<1>2. \A t \in temps : t.of \in Callers
  BY DEF ApiTypes
<1> QED
  BY <1>1, <1>2 DEF ApiTemps

LEMMA PullsKept ==
    ASSUME ApiPulls, server' = server, UNCHANGED <<jobs, ticket, reply>>
    PROVE  ApiPulls'
BY DEF ApiPulls

LEMMA AnsweredKeeps ==
    ASSUME ApiInv, NEW c \in Callers, NEW s \in ApiStatuses \ {"none"}, Api!Answer(c, s),
           apiat[c] \notin {"idle", "clean"},
           s = "200" => kind[c] # "upload",
           kind[c] = "shell" /\ s \in {"200", "code"} =>
               shell[c].got = shell[c].wrote /\ (s = "code" <=> shell[c].remote = "code"),
           UNCHANGED <<asks, server, kind, arg, body, temps, imports, jobs, ticket, reply, machine, apichild, shell>>
    PROVE  ApiInv'
<1>1. /\ ans' = [ans EXCEPT ![c] = s]
      /\ apiat' = [apiat EXCEPT ![c] = IF apiat[c] \in Api!WithTemp THEN "clean" ELSE "idle"]
  BY AnswerIs
<1>2. ApiTypes'
  BY <1>1 DEF ApiInv, ApiTypes, ApiAts, Api!WithTemp
<1>3. ApiTemps'
  <2>1. \A d \in Callers : apiat'[d] # "idle" => apiat[d] # "idle"
    BY <1>1 DEF ApiInv, ApiTypes
  <2>2. \A d \in Callers : apiat'[d] \in Api!WithTemp <=> apiat[d] \in Api!WithTemp
    BY <1>1 DEF ApiInv, ApiTypes, Api!WithTemp
  <2> QED
    BY <2>1, <2>2, TempsKept DEF ApiInv
<1>4. ApiPlaces'
  BY <1>1 DEF ApiInv, ApiTypes, ApiPlaces
<1>5. ApiPulls'
  BY PullsKept DEF ApiInv
<1>6. (Api!StatusLast)'
  BY <1>1 DEF ApiInv, ApiTypes, Api!StatusLast
<1> QED
  BY <1>2, <1>3, <1>4, <1>5, <1>6 DEF ApiInv

LEMMA ApiRefuseKeeps == ASSUME ApiInv, NEW c \in Callers, Api!Refuse(c) PROVE ApiInv'
<1>1. PICK s \in {"400", "404"} : Api!Answer(c, s)
  BY DEF Api!Refuse, Api!ErrorStatus
<1>2. s \in ApiStatuses \ {"none"}
  BY DEF ApiStatuses, Api!ErrorStatus
<1>3. apiat[c] \notin {"idle", "clean"} /\ (s = "200" => kind[c] # "upload") /\ (s \in {"200", "code"} => kind[c] # "shell")
  BY DEF Api!Refuse, ApiInv, ApiPlaces
<1>4. UNCHANGED <<asks, server, kind, arg, body, temps, imports, jobs, ticket, reply, machine, apichild, shell>>
  BY DEF Api!Refuse, Api!Files, Api!Pulls, Api!Guests
<1> QED
  BY <1>1, <1>2, <1>3, <1>4, AnsweredKeeps

LEMMA ApiCommandEndsKeeps == ASSUME ApiInv, NEW c \in Callers, Api!CommandEnds(c) PROVE ApiInv'
<1>1. PICK s \in {"404", "400", "500", "200"} : Api!Answer(c, s)
  BY DEF Api!CommandEnds, Api!ErrorStatus
<1>2. s \in ApiStatuses \ {"none"}
  BY DEF ApiStatuses, Api!ErrorStatus
<1>3. apiat[c] \notin {"idle", "clean"} /\ (s = "200" => kind[c] # "upload") /\ (s \in {"200", "code"} => kind[c] # "shell")
  BY DEF Api!CommandEnds, ApiInv, ApiPlaces
<1>4. UNCHANGED <<asks, server, kind, arg, body, temps, imports, jobs, ticket, reply, machine, apichild, shell>>
  BY DEF Api!CommandEnds, Api!Files, Api!Pulls, Api!Guests
<1> QED
  BY <1>1, <1>2, <1>3, <1>4, AnsweredKeeps

LEMMA ApiPartCutKeeps == ASSUME ApiInv, NEW c \in Callers, Api!PartCut(c) PROVE ApiInv'
<1>1. PICK s \in {"400", "500"} : Api!Answer(c, s)
  BY DEF Api!PartCut, Api!ErrorStatus
<1>2. s \in ApiStatuses \ {"none"}
  BY DEF ApiStatuses, Api!ErrorStatus
<1>3. apiat[c] \notin {"idle", "clean"} /\ (s = "200" => kind[c] # "upload") /\ (s \in {"200", "code"} => kind[c] # "shell")
  BY DEF Api!PartCut, ApiInv, ApiPlaces
<1>4. UNCHANGED <<asks, server, kind, arg, body, temps, imports, jobs, ticket, reply, machine, apichild, shell>>
  BY DEF Api!PartCut, Api!Files, Api!Pulls, Api!Guests
<1> QED
  BY <1>1, <1>2, <1>3, <1>4, AnsweredKeeps

LEMMA ApiImportFailsKeeps == ASSUME ApiInv, NEW c \in Callers, Api!ImportFails(c) PROVE ApiInv'
<1>1. PICK s \in {"404", "400", "500"} : Api!Answer(c, s)
  BY DEF Api!ImportFails, Api!ErrorStatus
<1>2. s \in ApiStatuses \ {"none"}
  BY DEF ApiStatuses, Api!ErrorStatus
<1>3. apiat[c] \notin {"idle", "clean"} /\ (s = "200" => kind[c] # "upload") /\ (s \in {"200", "code"} => kind[c] # "shell")
  BY DEF Api!ImportFails, ApiInv, ApiPlaces
<1>4. UNCHANGED <<asks, server, kind, arg, body, temps, imports, jobs, ticket, reply, machine, apichild, shell>>
  BY DEF Api!ImportFails, Api!Files, Api!Pulls, Api!Guests
<1> QED
  BY <1>1, <1>2, <1>3, <1>4, AnsweredKeeps

LEMMA ApiExportFailsKeeps == ASSUME ApiInv, NEW c \in Callers, Api!ExportFails(c) PROVE ApiInv'
<1>1. PICK s \in {"404", "400", "500"} : Api!Answer(c, s)
  BY DEF Api!ExportFails, Api!ErrorStatus
<1>2. s \in ApiStatuses \ {"none"}
  BY DEF ApiStatuses, Api!ErrorStatus
<1>3. apiat[c] \notin {"idle", "clean"} /\ (s = "200" => kind[c] # "upload") /\ (s \in {"200", "code"} => kind[c] # "shell")
  BY DEF Api!ExportFails, ApiInv, ApiPlaces
<1>4. UNCHANGED <<asks, server, kind, arg, body, temps, imports, jobs, ticket, reply, machine, apichild, shell>>
  BY DEF Api!ExportFails, Api!Files, Api!Pulls, Api!Guests
<1> QED
  BY <1>1, <1>2, <1>3, <1>4, AnsweredKeeps

LEMMA ApiStreamEndsKeeps == ASSUME ApiInv, NEW c \in Callers, Api!StreamEnds(c) PROVE ApiInv'
<1>1. PICK s \in {"200", "cut"} : Api!Answer(c, s)
  BY DEF Api!StreamEnds, Api!ErrorStatus
<1>2. s \in ApiStatuses \ {"none"}
  BY DEF ApiStatuses, Api!ErrorStatus
<1>3. apiat[c] \notin {"idle", "clean"} /\ (s = "200" => kind[c] # "upload") /\ (s \in {"200", "code"} => kind[c] # "shell")
  BY DEF Api!StreamEnds, ApiInv, ApiPlaces
<1>4. UNCHANGED <<asks, server, kind, arg, body, temps, imports, jobs, ticket, reply, machine, apichild, shell>>
  BY DEF Api!StreamEnds, Api!Files, Api!Pulls, Api!Guests
<1> QED
  BY <1>1, <1>2, <1>3, <1>4, AnsweredKeeps

LEMMA ApiSeenRunningKeeps == ASSUME ApiInv, NEW c \in Callers, Api!SeenRunning(c) PROVE ApiInv'
<1>1. PICK s \in {"200"} : Api!Answer(c, s)
  BY DEF Api!SeenRunning, Api!ErrorStatus
<1>2. s \in ApiStatuses \ {"none"}
  BY DEF ApiStatuses, Api!ErrorStatus
<1>3. apiat[c] \notin {"idle", "clean"} /\ (s = "200" => kind[c] # "upload") /\ (s \in {"200", "code"} => kind[c] # "shell")
  BY DEF Api!SeenRunning, ApiInv, ApiPlaces
<1>4. UNCHANGED <<asks, server, kind, arg, body, temps, imports, jobs, ticket, reply, machine, apichild, shell>>
  BY DEF Api!SeenRunning, Api!Files, Api!Pulls, Api!Guests
<1> QED
  BY <1>1, <1>2, <1>3, <1>4, AnsweredKeeps

LEMMA ApiNotSeenRunningKeeps == ASSUME ApiInv, NEW c \in Callers, Api!NotSeenRunning(c) PROVE ApiInv'
<1>1. PICK s \in {"404", "400", "500"} : Api!Answer(c, s)
  BY DEF Api!NotSeenRunning, Api!ErrorStatus
<1>2. s \in ApiStatuses \ {"none"}
  BY DEF ApiStatuses, Api!ErrorStatus
<1>3. apiat[c] \notin {"idle", "clean"} /\ (s = "200" => kind[c] # "upload") /\ (s \in {"200", "code"} => kind[c] # "shell")
  BY DEF Api!NotSeenRunning, ApiInv, ApiPlaces
<1>4. UNCHANGED <<asks, server, kind, arg, body, temps, imports, jobs, ticket, reply, machine, apichild, shell>>
  BY DEF Api!NotSeenRunning, Api!Files, Api!Pulls, Api!Guests
<1> QED
  BY <1>1, <1>2, <1>3, <1>4, AnsweredKeeps

LEMMA ApiWaitEndsKeeps == ASSUME ApiInv, NEW c \in Callers, Api!WaitEnds(c) PROVE ApiInv'
<1>1. PICK s \in {"200", "cut", "code"} : Api!Answer(c, s) /\ s = Api!StatusFrame(c)
  BY DEF Api!WaitEnds, Api!StatusFrame
<1>2. s \in ApiStatuses \ {"none"}
  BY DEF ApiStatuses
<1>3. apiat[c] = "shell"
  BY DEF Api!WaitEnds
<1>4. UNCHANGED <<asks, server, kind, arg, body, temps, imports, jobs, ticket, reply, machine, apichild, shell>>
  BY DEF Api!WaitEnds, Api!Files, Api!Pulls, Api!Guests
<1>5. shell[c].here => shell[c].got = shell[c].wrote
  BY DEF Api!WaitEnds
<1>6. s \in {"200", "code"} => shell[c].got = shell[c].wrote /\ (s = "code" <=> shell[c].remote = "code")
  BY <1>1, <1>5 DEF Api!StatusFrame
<1>7. kind[c] # "upload"
  BY <1>3 DEF ApiInv, ApiPlaces
<1> QED
  BY <1>1, <1>2, <1>3, <1>4, <1>6, <1>7, AnsweredKeeps

LEMMA ApiCommandKeeps == ASSUME ApiInv, NEW c \in Callers, Api!Command(c) PROVE ApiInv'
<1>1. /\ apiat[c] = "read" /\ kind[c] = "command" /\ apiat' = [apiat EXCEPT ![c] = "command"]
      /\ UNCHANGED <<asks, server, kind, arg, body, ans, temps, imports, jobs, ticket, reply, machine, apichild, shell>>
  BY DEF Api!Command, Api!Goto, Api!Files, Api!Pulls, Api!Guests, ApiInv, ApiTypes
<1>2. ApiTypes'
  BY <1>1 DEF ApiInv, ApiTypes, ApiAts, Api!WithTemp
<1>3. ApiTemps'
  <2>1. \A d \in Callers : apiat'[d] # "idle" => apiat[d] # "idle"
    BY <1>1 DEF ApiInv, ApiTypes
  <2>2. \A d \in Callers : apiat'[d] \in Api!WithTemp <=> apiat[d] \in Api!WithTemp
    BY <1>1 DEF ApiInv, ApiTypes, Api!WithTemp
  <2> QED
    BY <1>1, <2>1, <2>2, TempsKept DEF ApiInv
<1>4. ApiPlaces'
  BY <1>1 DEF ApiInv, ApiTypes, ApiPlaces
<1>5. ApiPulls'
  BY <1>1, PullsKept DEF ApiInv
<1>6. (Api!StatusLast)'
  BY <1>1 DEF ApiInv, ApiTypes, ApiPlaces, Api!StatusLast
<1> QED
  BY <1>2, <1>3, <1>4, <1>5, <1>6 DEF ApiInv

LEMMA ApiExportEndsKeeps == ASSUME ApiInv, NEW c \in Callers, Api!ExportEnds(c) PROVE ApiInv'
<1>1. /\ apiat[c] = "export" /\ apiat' = [apiat EXCEPT ![c] = "stream"]
      /\ UNCHANGED <<asks, server, kind, arg, body, ans, temps, imports, jobs, ticket, reply, machine, apichild, shell>>
  BY DEF Api!ExportEnds, Api!Goto, Api!Files, Api!Pulls, Api!Guests, ApiInv, ApiTypes
<1>2. ApiTypes'
  BY <1>1 DEF ApiInv, ApiTypes, ApiAts, Api!WithTemp
<1>3. ApiTemps'
  <2>1. \A d \in Callers : apiat'[d] # "idle" => apiat[d] # "idle"
    BY <1>1 DEF ApiInv, ApiTypes
  <2>2. \A d \in Callers : apiat'[d] \in Api!WithTemp <=> apiat[d] \in Api!WithTemp
    BY <1>1 DEF ApiInv, ApiTypes, Api!WithTemp
  <2> QED
    BY <1>1, <2>1, <2>2, TempsKept DEF ApiInv
<1>4. ApiPlaces'
  BY <1>1 DEF ApiInv, ApiTypes, ApiPlaces
<1>5. ApiPulls'
  BY <1>1, PullsKept DEF ApiInv
<1>6. (Api!StatusLast)'
  BY <1>1 DEF ApiInv, ApiTypes, ApiPlaces, Api!StatusLast
<1> QED
  BY <1>2, <1>3, <1>4, <1>5, <1>6 DEF ApiInv

LEMMA ApiPartBeginsKeeps == ASSUME ApiInv, NEW c \in Callers, Api!PartBegins(c) PROVE ApiInv'
<1>1. /\ apiat[c] = "part" /\ body[c] = "nothing" /\ body' = [body EXCEPT ![c] = "some"]
      /\ UNCHANGED <<asks, server, apiat, kind, arg, ans, temps, imports, jobs, ticket, reply, machine, apichild, shell>>
  BY DEF Api!PartBegins, Api!Goto, Api!Files, Api!Pulls, Api!Guests, ApiInv, ApiTypes
<1>2. ApiTypes'
  BY <1>1 DEF ApiInv, ApiTypes, ApiBodies
<1>3. ApiTemps'
  BY <1>1, TempsKept DEF ApiInv, ApiTypes, ApiAts, Api!WithTemp
<1>4. ApiPlaces'
  BY <1>1 DEF ApiInv, ApiTypes, ApiPlaces
<1>5. ApiPulls'
  BY <1>1, PullsKept DEF ApiInv
<1>6. (Api!StatusLast)'
  BY <1>1 DEF ApiInv, ApiTypes, ApiPlaces, Api!StatusLast
<1> QED
  BY <1>2, <1>3, <1>4, <1>5, <1>6 DEF ApiInv

LEMMA ApiPartEndsKeeps == ASSUME ApiInv, NEW c \in Callers, Api!PartEnds(c) PROVE ApiInv'
<1>1. /\ apiat[c] = "part" /\ body' = [body EXCEPT ![c] = "whole"] /\ apiat' = [apiat EXCEPT ![c] = "import"]
      /\ UNCHANGED <<asks, server, kind, arg, ans, temps, imports, jobs, ticket, reply, machine, apichild, shell>>
  BY DEF Api!PartEnds, Api!Goto, Api!Files, Api!Pulls, Api!Guests, ApiInv, ApiTypes
<1>2. ApiTypes'
  BY <1>1 DEF ApiInv, ApiTypes, ApiBodies, ApiAts, Api!WithTemp
<1>3. ApiTemps'
  <2>1. \A d \in Callers : apiat'[d] # "idle" => apiat[d] # "idle"
    BY <1>1 DEF ApiInv, ApiTypes
  <2>2. \A d \in Callers : apiat'[d] \in Api!WithTemp <=> apiat[d] \in Api!WithTemp
    BY <1>1 DEF ApiInv, ApiTypes, Api!WithTemp
  <2> QED
    BY <1>1, <2>1, <2>2, TempsKept DEF ApiInv
<1>4. ApiPlaces'
  BY <1>1 DEF ApiInv, ApiTypes, ApiPlaces
<1>5. ApiPulls'
  BY <1>1, PullsKept DEF ApiInv
<1>6. (Api!StatusLast)'
  BY <1>1 DEF ApiInv, ApiTypes, ApiPlaces, Api!StatusLast
<1> QED
  BY <1>2, <1>3, <1>4, <1>5, <1>6 DEF ApiInv

LEMMA ApiOpenShellKeeps == ASSUME ApiInv, NEW c \in Callers, Api!OpenShell(c) PROVE ApiInv'
<1>1. /\ apiat[c] = "read" /\ kind[c] = "shell" /\ apiat' = [apiat EXCEPT ![c] = "shell"]
      /\ shell' \in [Callers -> ApiShells] /\ \A d \in Callers : d # c => shell'[d] = shell[d]
      /\ UNCHANGED <<asks, server, kind, arg, body, ans, temps, imports, jobs, ticket, reply, machine, apichild>>
  <2> DEFINE r == [remote |-> "up", wrote |-> 0, got |-> 0, here |-> TRUE]
  <2>1. r \in ApiShells
    BY DEF ApiShells
  <2>2. shell' = [shell EXCEPT ![c] = r]
    BY DEF Api!OpenShell
  <2> HIDE DEF r
  <2>3. shell' \in [Callers -> ApiShells] /\ \A d \in Callers : d # c => shell'[d] = shell[d]
    BY <2>1, <2>2 DEF ApiInv, ApiTypes
  <2> QED
    BY <2>3 DEF Api!OpenShell, Api!Goto, Api!Files, Api!Pulls, Api!Guests
<1>2. ApiTypes'
  BY <1>1 DEF ApiInv, ApiTypes, ApiAts, Api!WithTemp
<1>3. ApiTemps'
  <2>1. \A d \in Callers : apiat'[d] # "idle" => apiat[d] # "idle"
    BY <1>1 DEF ApiInv, ApiTypes
  <2>2. \A d \in Callers : apiat'[d] \in Api!WithTemp <=> apiat[d] \in Api!WithTemp
    BY <1>1 DEF ApiInv, ApiTypes, Api!WithTemp
  <2> QED
    BY <1>1, <2>1, <2>2, TempsKept DEF ApiInv
<1>4. ApiPlaces'
  BY <1>1 DEF ApiInv, ApiTypes, ApiPlaces
<1>5. ApiPulls'
  BY <1>1, PullsKept DEF ApiInv
<1>6. (Api!StatusLast)'
  BY ZenonT(40), <1>1 DEF ApiInv, ApiTypes, ApiPlaces, Api!StatusLast
<1> QED
  BY <1>2, <1>3, <1>4, <1>5, <1>6 DEF ApiInv

LEMMA ApiSpawnDetachedRunKeeps == ASSUME ApiInv, NEW c \in Callers, Api!SpawnDetachedRun(c) PROVE ApiInv'
<1>1. /\ apiat[c] = "read" /\ kind[c] = "run" /\ apiat' = [apiat EXCEPT ![c] = "running"]
      /\ apichild' \in [Started -> Nat]
      /\ UNCHANGED <<asks, server, kind, arg, body, ans, temps, imports, jobs, ticket, reply, machine, shell>>
  BY DEF Api!SpawnDetachedRun, Api!Goto, Api!Files, Api!Pulls, Api!Guests, ApiInv, ApiTypes
<1>2. ApiTypes'
  BY <1>1 DEF ApiInv, ApiTypes, ApiAts, Api!WithTemp
<1>3. ApiTemps'
  <2>1. \A d \in Callers : apiat'[d] # "idle" => apiat[d] # "idle"
    BY <1>1 DEF ApiInv, ApiTypes
  <2>2. \A d \in Callers : apiat'[d] \in Api!WithTemp <=> apiat[d] \in Api!WithTemp
    BY <1>1 DEF ApiInv, ApiTypes, Api!WithTemp
  <2> QED
    BY <1>1, <2>1, <2>2, TempsKept DEF ApiInv
<1>4. ApiPlaces'
  BY <1>1 DEF ApiInv, ApiTypes, ApiPlaces
<1>5. ApiPulls'
  BY <1>1, PullsKept DEF ApiInv
<1>6. (Api!StatusLast)'
  BY <1>1 DEF ApiInv, ApiTypes, ApiPlaces, Api!StatusLast
<1> QED
  BY <1>2, <1>3, <1>4, <1>5, <1>6 DEF ApiInv

LEMMA ApiWritesKeeps == ASSUME ApiInv, NEW c \in Callers, Api!Writes(c) PROVE ApiInv'
<1>1. /\ apiat[c] = "shell" /\ shell' \in [Callers -> ApiShells] /\ \A d \in Callers : d # c => shell'[d] = shell[d]
      /\ UNCHANGED <<asks, server, apiat, kind, arg, body, ans, temps, imports, jobs, ticket, reply, machine, apichild>>
  <2>0. shell[c] \in ApiShells /\ shell[c].wrote + 1 \in Nat
    BY DEF ApiInv, ApiTypes, ApiShells
  <2> DEFINE r == [shell[c] EXCEPT !.wrote = shell[c].wrote + 1]
  <2>1. r \in ApiShells
    BY <2>0 DEF ApiShells
  <2>2. shell' = [shell EXCEPT ![c] = r]
    BY DEF Api!Writes
  <2> HIDE DEF r
  <2>3. shell' \in [Callers -> ApiShells] /\ \A d \in Callers : d # c => shell'[d] = shell[d]
    BY <2>1, <2>2 DEF ApiInv, ApiTypes
  <2> QED
    BY <2>3 DEF Api!Writes, Api!Files, Api!Pulls, Api!Guests
<1>2. ApiTypes'
  BY <1>1 DEF ApiInv, ApiTypes, ApiAts, Api!WithTemp
<1>3. ApiTemps'
  BY <1>1, TempsKept DEF ApiInv, ApiTypes, ApiAts, Api!WithTemp
<1>4. ApiPlaces'
  BY <1>1 DEF ApiInv, ApiTypes, ApiPlaces
<1>5. ApiPulls'
  BY <1>1, PullsKept DEF ApiInv
<1>6. (Api!StatusLast)'
  BY ZenonT(40), <1>1 DEF ApiInv, ApiTypes, ApiPlaces, Api!StatusLast
<1> QED
  BY <1>2, <1>3, <1>4, <1>5, <1>6 DEF ApiInv

LEMMA ApiFrameKeeps == ASSUME ApiInv, NEW c \in Callers, Api!Frame(c) PROVE ApiInv'
<1>1. /\ apiat[c] = "shell" /\ shell' \in [Callers -> ApiShells] /\ \A d \in Callers : d # c => shell'[d] = shell[d]
      /\ UNCHANGED <<asks, server, apiat, kind, arg, body, ans, temps, imports, jobs, ticket, reply, machine, apichild>>
  <2>0. shell[c] \in ApiShells /\ shell[c].got + 1 \in Nat
    BY DEF ApiInv, ApiTypes, ApiShells
  <2> DEFINE r == [shell[c] EXCEPT !.got = shell[c].got + 1]
  <2>1. r \in ApiShells
    BY <2>0 DEF ApiShells
  <2>2. shell' = [shell EXCEPT ![c] = r]
    BY DEF Api!Frame
  <2> HIDE DEF r
  <2>3. shell' \in [Callers -> ApiShells] /\ \A d \in Callers : d # c => shell'[d] = shell[d]
    BY <2>1, <2>2 DEF ApiInv, ApiTypes
  <2> QED
    BY <2>3 DEF Api!Frame, Api!Files, Api!Pulls, Api!Guests
<1>2. ApiTypes'
  BY <1>1 DEF ApiInv, ApiTypes, ApiAts, Api!WithTemp
<1>3. ApiTemps'
  BY <1>1, TempsKept DEF ApiInv, ApiTypes, ApiAts, Api!WithTemp
<1>4. ApiPlaces'
  BY <1>1 DEF ApiInv, ApiTypes, ApiPlaces
<1>5. ApiPulls'
  BY <1>1, PullsKept DEF ApiInv
<1>6. (Api!StatusLast)'
  BY ZenonT(40), <1>1 DEF ApiInv, ApiTypes, ApiPlaces, Api!StatusLast
<1> QED
  BY <1>2, <1>3, <1>4, <1>5, <1>6 DEF ApiInv

LEMMA ApiClientLeavesKeeps == ASSUME ApiInv, NEW c \in Callers, Api!ClientLeaves(c) PROVE ApiInv'
<1>1. /\ apiat[c] = "shell" /\ shell' \in [Callers -> ApiShells] /\ \A d \in Callers : d # c => shell'[d] = shell[d]
      /\ UNCHANGED <<asks, server, apiat, kind, arg, body, ans, temps, imports, jobs, ticket, reply, machine, apichild>>
  <2> DEFINE r == [shell[c] EXCEPT !.here = FALSE]
  <2>1. r \in ApiShells
    BY ZenonT(40) DEF ApiInv, ApiTypes, ApiShells
  <2>2. shell' = [shell EXCEPT ![c] = r]
    BY DEF Api!ClientLeaves
  <2> HIDE DEF r
  <2>3. shell' \in [Callers -> ApiShells] /\ \A d \in Callers : d # c => shell'[d] = shell[d]
    BY <2>1, <2>2 DEF ApiInv, ApiTypes
  <2> QED
    BY <2>3 DEF Api!ClientLeaves, Api!Files, Api!Pulls, Api!Guests
<1>2. ApiTypes'
  BY <1>1 DEF ApiInv, ApiTypes, ApiAts, Api!WithTemp
<1>3. ApiTemps'
  BY <1>1, TempsKept DEF ApiInv, ApiTypes, ApiAts, Api!WithTemp
<1>4. ApiPlaces'
  BY <1>1 DEF ApiInv, ApiTypes, ApiPlaces
<1>5. ApiPulls'
  BY <1>1, PullsKept DEF ApiInv
<1>6. (Api!StatusLast)'
  BY ZenonT(40), <1>1 DEF ApiInv, ApiTypes, ApiPlaces, Api!StatusLast
<1> QED
  BY <1>2, <1>3, <1>4, <1>5, <1>6 DEF ApiInv

LEMMA ApiRemoteExitsKeeps == ASSUME ApiInv, NEW c \in Callers, Api!RemoteExits(c) PROVE ApiInv'
<1>1. /\ apiat[c] = "shell" /\ shell' \in [Callers -> ApiShells] /\ \A d \in Callers : d # c => shell'[d] = shell[d]
      /\ UNCHANGED <<asks, server, apiat, kind, arg, body, ans, temps, imports, jobs, ticket, reply, machine, apichild>>
  <2>0. PICK s \in {"ok", "code", "lost"} : shell' = [shell EXCEPT ![c].remote = s]
    BY DEF Api!RemoteExits
  <2> DEFINE r == [shell[c] EXCEPT !.remote = s]
  <2>1. r \in ApiShells
    BY ZenonT(40) DEF ApiInv, ApiTypes, ApiShells
  <2>2. shell' = [shell EXCEPT ![c] = r]
    BY <2>0 DEF Api!RemoteExits
  <2> HIDE DEF r
  <2>3. shell' \in [Callers -> ApiShells] /\ \A d \in Callers : d # c => shell'[d] = shell[d]
    BY <2>1, <2>2 DEF ApiInv, ApiTypes
  <2> QED
    BY <2>3 DEF Api!RemoteExits, Api!Files, Api!Pulls, Api!Guests
<1>2. ApiTypes'
  BY <1>1 DEF ApiInv, ApiTypes, ApiAts, Api!WithTemp
<1>3. ApiTemps'
  BY <1>1, TempsKept DEF ApiInv, ApiTypes, ApiAts, Api!WithTemp
<1>4. ApiPlaces'
  BY <1>1 DEF ApiInv, ApiTypes, ApiPlaces
<1>5. ApiPulls'
  BY <1>1, PullsKept DEF ApiInv
<1>6. (Api!StatusLast)'
  BY ZenonT(40), <1>1 DEF ApiInv, ApiTypes, ApiPlaces, Api!StatusLast
<1> QED
  BY <1>2, <1>3, <1>4, <1>5, <1>6 DEF ApiInv

LEMMA ApiChildRunsKeeps == ASSUME ApiInv, NEW v \in Started, Api!ChildRuns(v) PROVE ApiInv'
<1>1. /\ machine' \in [Started -> BOOLEAN] /\ apichild' \in [Started -> Nat]
      /\ UNCHANGED <<asks, server, apiat, kind, arg, body, ans, temps, imports, jobs, ticket, reply, shell>>
  <2>1. machine' \in [Started -> BOOLEAN]
    BY DEF Api!ChildRuns, ApiInv, ApiTypes
  <2>2. apichild' \in [Started -> Nat]
    BY DEF Api!ChildRuns, ApiInv, ApiTypes
  <2> QED
    BY <2>1, <2>2 DEF Api!ChildRuns, Api!Files, Api!Pulls, Api!Guests
<1>2. ApiTypes'
  BY <1>1 DEF ApiInv, ApiTypes, ApiAts, Api!WithTemp
<1>3. ApiTemps'
  BY <1>1, TempsKept DEF ApiInv, ApiTypes, ApiAts, Api!WithTemp
<1>4. ApiPlaces'
  BY <1>1 DEF ApiInv, ApiTypes, ApiPlaces
<1>5. ApiPulls'
  BY <1>1, PullsKept DEF ApiInv
<1>6. (Api!StatusLast)'
  BY <1>1 DEF ApiInv, ApiTypes, ApiPlaces, Api!StatusLast
<1> QED
  BY <1>2, <1>3, <1>4, <1>5, <1>6 DEF ApiInv

LEMMA ApiChildFailsKeeps == ASSUME ApiInv, NEW v \in Started, Api!ChildFails(v) PROVE ApiInv'
<1>1. /\ apichild' \in [Started -> Nat]
      /\ UNCHANGED <<asks, server, apiat, kind, arg, body, ans, temps, imports, jobs, ticket, reply, machine, shell>>
  BY DEF Api!ChildFails, Api!Goto, Api!Files, Api!Pulls, Api!Guests, ApiInv, ApiTypes
<1>2. ApiTypes'
  BY <1>1 DEF ApiInv, ApiTypes, ApiAts, Api!WithTemp
<1>3. ApiTemps'
  BY <1>1, TempsKept DEF ApiInv, ApiTypes, ApiAts, Api!WithTemp
<1>4. ApiPlaces'
  BY <1>1 DEF ApiInv, ApiTypes, ApiPlaces
<1>5. ApiPulls'
  BY <1>1, PullsKept DEF ApiInv
<1>6. (Api!StatusLast)'
  BY <1>1 DEF ApiInv, ApiTypes, ApiPlaces, Api!StatusLast
<1> QED
  BY <1>2, <1>3, <1>4, <1>5, <1>6 DEF ApiInv

LEMMA ApiMachineEndsKeeps == ASSUME ApiInv, NEW v \in Started, Api!MachineEnds(v) PROVE ApiInv'
<1>1. /\ machine' \in [Started -> BOOLEAN]
      /\ UNCHANGED <<asks, server, apiat, kind, arg, body, ans, temps, imports, jobs, ticket, reply, apichild, shell>>
  BY DEF Api!MachineEnds, Api!Goto, Api!Files, Api!Pulls, Api!Guests, ApiInv, ApiTypes
<1>2. ApiTypes'
  BY <1>1 DEF ApiInv, ApiTypes, ApiAts, Api!WithTemp
<1>3. ApiTemps'
  BY <1>1, TempsKept DEF ApiInv, ApiTypes, ApiAts, Api!WithTemp
<1>4. ApiPlaces'
  BY <1>1 DEF ApiInv, ApiTypes, ApiPlaces
<1>5. ApiPulls'
  BY <1>1, PullsKept DEF ApiInv
<1>6. (Api!StatusLast)'
  BY <1>1 DEF ApiInv, ApiTypes, ApiPlaces, Api!StatusLast
<1> QED
  BY <1>2, <1>3, <1>4, <1>5, <1>6 DEF ApiInv

LEMMA ApiServeKeeps == ASSUME ApiInv, Api!Serve PROVE ApiInv'
<1>1. /\ server.st = "down" /\ server'.st = "up" /\ server'.run = server.run + 1
      /\ server' \in [st : {"down", "up", "closing"}, run : Nat]
      /\ UNCHANGED <<asks, apiat, kind, arg, body, ans, temps, imports, jobs, ticket, reply, machine, apichild, shell>>
  BY DEF Api!Serve, Api!Goto, Api!Files, Api!Pulls, Api!Guests, ApiInv, ApiTypes
<1>2. ApiTypes'
  BY <1>1 DEF ApiInv, ApiTypes, ApiAts, Api!WithTemp
<1>3. ApiTemps'
  <2>1. \A c \in Callers : apiat[c] = "idle"
    BY <1>1 DEF ApiInv, ApiTemps
  <2>2. \A t \in temps : t.run \in Nat /\ t.run <= server.run /\ server.run \in Nat
    BY DEF ApiInv, ApiTypes, ApiTemps
  <2> QED
    BY <1>1, <2>1, <2>2 DEF ApiTemps, Api!WithTemp
<1>4. ApiPlaces'
  BY <1>1 DEF ApiInv, ApiTypes, ApiPlaces
<1>5. ApiPulls'
  <2>1. \A c \in Callers : ticket[c].run \in Nat /\ reply[c].run \in Nat /\ server.run \in Nat
    BY DEF ApiInv, ApiTypes, ApiTickets, ApiReplies
  <2> QED
    BY <1>1, <2>1 DEF ApiInv, ApiPulls
<1>6. (Api!StatusLast)'
  BY <1>1 DEF ApiInv, ApiTypes, ApiPlaces, Api!StatusLast
<1> QED
  BY <1>2, <1>3, <1>4, <1>5, <1>6 DEF ApiInv

LEMMA ApiShutdownKeeps == ASSUME ApiInv, Api!Shutdown PROVE ApiInv'
<1>1. /\ server.st = "up" /\ server'.st = "closing" /\ server'.run = server.run
      /\ server' \in [st : {"down", "up", "closing"}, run : Nat]
      /\ UNCHANGED <<asks, apiat, kind, arg, body, ans, temps, imports, jobs, ticket, reply, machine, apichild, shell>>
  BY DEF Api!Shutdown, Api!Goto, Api!Files, Api!Pulls, Api!Guests, ApiInv, ApiTypes
<1>2. ApiTypes'
  BY <1>1 DEF ApiInv, ApiTypes, ApiAts, Api!WithTemp
<1>3. ApiTemps'
  <2>1. \A c \in Callers : (Api!Temp(c))' = Api!Temp(c)
    BY <1>1 DEF Api!Temp
  <2> QED
    BY <1>1, <2>1 DEF ApiInv, ApiTemps
<1>4. ApiPlaces'
  BY <1>1 DEF ApiInv, ApiTypes, ApiPlaces
<1>5. ApiPulls'
  BY <1>1 DEF ApiInv, ApiPulls
<1>6. (Api!StatusLast)'
  BY <1>1 DEF ApiInv, ApiTypes, ApiPlaces, Api!StatusLast
<1> QED
  BY <1>2, <1>3, <1>4, <1>5, <1>6 DEF ApiInv

LEMMA ApiExitKeeps == ASSUME ApiInv, Api!Exit PROVE ApiInv'
<1>1. /\ server.st # "down" /\ server'.st = "down" /\ server'.run = server.run
      /\ server' \in [st : {"down", "up", "closing"}, run : Nat]
      /\ ans' \in [Callers -> ApiStatuses] /\ \A c \in Callers : ans'[c] \in {ans[c], "cut"}
      /\ apiat' \in [Callers -> ApiAts] /\ \A c \in Callers : apiat'[c] = "idle"
      /\ body' \in [Callers -> ApiBodies] /\ jobs' \in Seq(ApiJobs)
      /\ UNCHANGED <<asks, kind, arg, temps, imports, ticket, reply, machine, apichild, shell>>
  <2>1. /\ ans' \in [Callers -> ApiStatuses] /\ \A c \in Callers : ans'[c] \in {ans[c], "cut"}
    BY DEF Api!Exit, ApiInv, ApiTypes, ApiStatuses
  <2>2. /\ apiat' \in [Callers -> ApiAts] /\ \A c \in Callers : apiat'[c] = "idle"
        /\ body' \in [Callers -> ApiBodies]
    BY DEF Api!Exit, ApiAts, ApiBodies
  <2>3. jobs' \in Seq(ApiJobs)
    BY DEF Api!Exit
  <2>4. /\ server.st # "down" /\ server'.st = "down" /\ server'.run = server.run
        /\ server' \in [st : {"down", "up", "closing"}, run : Nat]
    BY DEF Api!Exit, ApiInv, ApiTypes
  <2> QED
    BY <2>1, <2>2, <2>3, <2>4 DEF Api!Exit, Api!Files, Api!Pulls, Api!Guests
<1>2. ApiTypes'
  BY <1>1 DEF ApiInv, ApiTypes
<1>3. ApiTemps'
  BY <1>1 DEF ApiInv, ApiTemps, Api!WithTemp
<1>4. ApiPlaces'
  BY <1>1 DEF ApiInv, ApiTypes, ApiPlaces
<1>5. ApiPulls'
  BY <1>1 DEF ApiInv, ApiPulls
<1>6. (Api!StatusLast)'
  BY <1>1 DEF ApiInv, ApiTypes, ApiPlaces, Api!StatusLast
<1> QED
  BY <1>2, <1>3, <1>4, <1>5, <1>6 DEF ApiInv

LEMMA ApiRouteKeeps == ASSUME ApiInv, NEW c \in Callers, Api!Route(c) PROVE ApiInv'
<1>1. /\ server.st = "up" /\ apiat[c] = "idle" /\ apiat' = [apiat EXCEPT ![c] = "read"]
      /\ kind' \in [Callers -> Api!Kinds] /\ \A d \in Callers : d # c => kind'[d] = kind[d]
      /\ arg' \in [Callers -> Started]
      /\ ans' = [ans EXCEPT ![c] = "none"] /\ ans' \in [Callers -> ApiStatuses]
      /\ shell' \in [Callers -> ApiShells] /\ \A d \in Callers : d # c => shell'[d] = shell[d]
      /\ UNCHANGED <<asks, server, body, temps, imports, jobs, ticket, reply, machine, apichild>>
  <2>1. PICK k \in asks[c] : kind' = [kind EXCEPT ![c] = k]
    BY DEF Api!Route
  <2>2. k \in Api!Kinds
    BY DEF ApiInv, ApiTypes
  <2>3. kind' \in [Callers -> Api!Kinds] /\ \A d \in Callers : d # c => kind'[d] = kind[d]
    BY <2>1, <2>2 DEF ApiInv, ApiTypes
  <2>4. arg' \in [Callers -> Started]
    BY DEF Api!Route, ApiInv, ApiTypes
  <2>5. ans' = [ans EXCEPT ![c] = "none"] /\ ans' \in [Callers -> ApiStatuses]
    BY DEF Api!Route, ApiInv, ApiTypes, ApiStatuses
  <2>6. Api!NoShell \in ApiShells
    BY DEF Api!NoShell, ApiShells
  <2>7. shell' \in [Callers -> ApiShells] /\ \A d \in Callers : d # c => shell'[d] = shell[d]
    BY <2>6 DEF Api!Route, ApiInv, ApiTypes
  <2> QED
    BY <2>3, <2>4, <2>5, <2>7 DEF Api!Route, Api!Goto, Api!Files, Api!Pulls, Api!Guests
<1>2. ApiTypes'
  BY <1>1 DEF ApiInv, ApiTypes, ApiAts
<1>3. ApiTemps'
  <2>1. \A d \in Callers : apiat'[d] # "idle" => apiat[d] # "idle" \/ server.st # "down"
    BY <1>1 DEF ApiInv, ApiTypes
  <2>2. \A d \in Callers : apiat'[d] \in Api!WithTemp <=> apiat[d] \in Api!WithTemp
    BY <1>1 DEF ApiInv, ApiTypes, Api!WithTemp
  <2> QED
    BY <1>1, <2>1, <2>2, TempsKept DEF ApiInv
<1>4. ApiPlaces'
  BY <1>1 DEF ApiInv, ApiTypes, ApiPlaces
<1>5. ApiPulls'
  BY <1>1, PullsKept DEF ApiInv
<1>6. (Api!StatusLast)'
  BY <1>1 DEF ApiInv, ApiTypes, ApiPlaces, Api!StatusLast
<1> QED
  BY <1>2, <1>3, <1>4, <1>5, <1>6 DEF ApiInv

LEMMA ApiCreateTempKeeps == ASSUME ApiInv, NEW c \in Callers, Api!CreateTemp(c) PROVE ApiInv'
<1>1. /\ apiat[c] = "read" /\ temps' = temps \cup {Api!Temp(c)}
      /\ \/ kind[c] = "upload" /\ apiat' = [apiat EXCEPT ![c] = "part"]
         \/ kind[c] = "download" /\ apiat' = [apiat EXCEPT ![c] = "export"]
      /\ Api!Temp(c).of = c /\ Api!Temp(c).run = server.run /\ Api!Temp(c) \in [of : Callers, run : Nat]
      /\ \A d \in Callers : (Api!Temp(d))' = Api!Temp(d)
      /\ UNCHANGED <<asks, server, kind, arg, body, ans, imports, jobs, ticket, reply, machine, apichild, shell>>
  <2>1. Api!Temp(c).of = c /\ Api!Temp(c).run = server.run /\ Api!Temp(c) \in [of : Callers, run : Nat]
    BY DEF Api!Temp, ApiInv, ApiTypes
  <2>2. \A d \in Callers : (Api!Temp(d))' = Api!Temp(d)
    BY DEF Api!CreateTemp, Api!Temp
  <2> QED
    BY <2>1, <2>2 DEF Api!CreateTemp, Api!Goto, Api!Files, Api!Pulls, Api!Guests
<1>2. ApiTypes'
  BY <1>1 DEF ApiInv, ApiTypes, ApiAts, Api!WithTemp
<1>3. ApiTemps'
  <2>1. server.st # "down" /\ server.run \in Nat
    BY <1>1 DEF ApiInv, ApiTypes, ApiTemps
  <2>2. apiat'[c] \in Api!WithTemp /\ apiat[c] \notin Api!WithTemp /\ \A d \in Callers : d # c => apiat'[d] = apiat[d]
    BY <1>1 DEF ApiInv, ApiTypes, Api!WithTemp
  <2>3. \A t \in temps' : t.run <= server.run /\ (t.run = server.run => apiat'[t.of] \in Api!WithTemp)
    <3> SUFFICES ASSUME NEW t \in temps' PROVE t.run <= server.run /\ (t.run = server.run => apiat'[t.of] \in Api!WithTemp)
      OBVIOUS
    <3>1. CASE t = Api!Temp(c)
      BY <1>1, <2>1, <2>2, <3>1
    <3>2. CASE t \in temps
      <4>1. t.of \in Callers /\ t.run <= server.run /\ (t.run = server.run => apiat[t.of] \in Api!WithTemp)
        BY <2>1, <3>2 DEF ApiInv, ApiTypes, ApiTemps
      <4> QED
        BY <2>2, <4>1
    <3> QED
      BY <1>1, <3>1, <3>2
  <2> QED
    BY <1>1, <2>1, <2>2, <2>3 DEF ApiInv, ApiTemps
<1>4. ApiPlaces'
  BY <1>1 DEF ApiInv, ApiTypes, ApiPlaces
<1>5. ApiPulls'
  BY <1>1, PullsKept DEF ApiInv
<1>6. (Api!StatusLast)'
  BY <1>1 DEF ApiInv, ApiTypes, ApiPlaces, Api!StatusLast
<1> QED
  BY <1>2, <1>3, <1>4, <1>5, <1>6 DEF ApiInv

LEMMA ApiRemoveKeeps == ASSUME ApiInv, NEW c \in Callers, Api!Remove(c) PROVE ApiInv'
<1>1. /\ apiat[c] = "clean" /\ temps' = temps \ {Api!Temp(c)} /\ apiat' = [apiat EXCEPT ![c] = "idle"]
      /\ body' = [body EXCEPT ![c] = "nothing"]
      /\ Api!Temp(c).of = c /\ Api!Temp(c).run = server.run
      /\ \A d \in Callers : (Api!Temp(d))' = Api!Temp(d) /\ (Api!Temp(d) = Api!Temp(c) => d = c)
      /\ UNCHANGED <<asks, server, kind, arg, ans, imports, jobs, ticket, reply, machine, apichild, shell>>
  <2>1. Api!Temp(c).of = c /\ Api!Temp(c).run = server.run
    BY DEF Api!Temp
  <2>2. \A d \in Callers : (Api!Temp(d))' = Api!Temp(d) /\ (Api!Temp(d) = Api!Temp(c) => d = c)
    BY DEF Api!Remove, Api!Temp
  <2> QED
    BY <2>1, <2>2 DEF Api!Remove, Api!Goto, Api!Files, Api!Pulls, Api!Guests
<1>2. ApiTypes'
  BY <1>1 DEF ApiInv, ApiTypes, ApiAts, ApiBodies
<1>3. ApiTemps'
  <2>1. server.st # "down"
    BY <1>1 DEF ApiInv, ApiTemps
  <2>2. apiat'[c] = "idle" /\ \A d \in Callers : d # c => apiat'[d] = apiat[d]
    BY <1>1 DEF ApiInv, ApiTypes
  <2>3. \A t \in temps' : t.run <= server.run /\ (t.run = server.run => apiat'[t.of] \in Api!WithTemp)
    <3> SUFFICES ASSUME NEW t \in temps' PROVE t.run <= server.run /\ (t.run = server.run => apiat'[t.of] \in Api!WithTemp)
      OBVIOUS
    <3>1. t \in temps /\ t # Api!Temp(c) /\ t \in [of : Callers, run : Nat]
      BY <1>1 DEF ApiInv, ApiTypes
    <3>2. t.of \in Callers /\ t.run <= server.run /\ (t.run = server.run => apiat[t.of] \in Api!WithTemp)
      BY <2>1, <3>1 DEF ApiInv, ApiTypes, ApiTemps
    <3>3. t.run = server.run => t.of # c
      BY <3>1 DEF Api!Temp
    <3> QED
      BY <2>2, <3>2, <3>3
  <2> QED
    BY <1>1, <2>1, <2>2, <2>3 DEF ApiInv, ApiTemps, Api!WithTemp
<1>4. ApiPlaces'
  BY <1>1 DEF ApiInv, ApiTypes, ApiPlaces
<1>5. ApiPulls'
  BY <1>1, PullsKept DEF ApiInv
<1>6. (Api!StatusLast)'
  BY <1>1 DEF ApiInv, ApiTypes, ApiPlaces, Api!StatusLast
<1> QED
  BY <1>2, <1>3, <1>4, <1>5, <1>6 DEF ApiInv

LEMMA ApiImportEndsKeeps == ASSUME ApiInv, NEW c \in Callers, Api!ImportEnds(c) PROVE ApiInv'
<1>1. /\ apiat[c] = "import" /\ body[c] = "whole" /\ kind[c] = "upload" /\ imports' \subseteq {"whole"}
      /\ ans' = [ans EXCEPT ![c] = "200"] /\ ans' \in [Callers -> ApiStatuses]
      /\ apiat' = [apiat EXCEPT ![c] = "clean"]
      /\ UNCHANGED <<asks, server, kind, arg, body, temps, jobs, ticket, reply, machine, apichild, shell>>
  <2>1. apiat[c] = "import" /\ body[c] = "whole" /\ kind[c] = "upload" /\ imports' \subseteq {"whole"}
    BY DEF Api!ImportEnds, ApiInv, ApiTypes, ApiPlaces
  <2>2. "200" \in ApiStatuses /\ apiat[c] # "idle" /\ apiat[c] \in Api!WithTemp /\ Api!Answer(c, "200")
    BY <2>1 DEF ApiStatuses, Api!WithTemp, Api!ImportEnds
  <2>3. ans' = [ans EXCEPT ![c] = "200"] /\ apiat' = [apiat EXCEPT ![c] = "clean"]
    BY <2>2, AnswerIs
  <2>4. ans' \in [Callers -> ApiStatuses]
    BY <2>2, <2>3 DEF ApiInv, ApiTypes
  <2> QED
    BY <2>1, <2>3, <2>4 DEF Api!ImportEnds, Api!Files, Api!Pulls, Api!Guests
<1>2. ApiTypes'
  BY <1>1 DEF ApiInv, ApiTypes, ApiAts, Api!WithTemp
<1>3. ApiTemps'
  <2>1. \A d \in Callers : apiat'[d] # "idle" => apiat[d] # "idle"
    BY <1>1 DEF ApiInv, ApiTypes
  <2>2. \A d \in Callers : apiat'[d] \in Api!WithTemp <=> apiat[d] \in Api!WithTemp
    BY <1>1 DEF ApiInv, ApiTypes, Api!WithTemp
  <2> QED
    BY <1>1, <2>1, <2>2, TempsKept DEF ApiInv
<1>4. ApiPlaces'
  BY <1>1 DEF ApiInv, ApiTypes, ApiPlaces
<1>5. ApiPulls'
  BY <1>1, PullsKept DEF ApiInv
<1>6. (Api!StatusLast)'
  BY <1>1 DEF ApiInv, ApiTypes, ApiPlaces, Api!StatusLast
<1> QED
  BY <1>2, <1>3, <1>4, <1>5, <1>6 DEF ApiInv

LEMMA ApiStartPullKeeps == ASSUME ApiInv, NEW c \in Callers, Api!StartPull(c) PROVE ApiInv'
<1>1. /\ apiat[c] = "read" /\ kind[c] = "pull"
      /\ ans' = [ans EXCEPT ![c] = "202"] /\ ans' \in [Callers -> ApiStatuses]
      /\ apiat' = [apiat EXCEPT ![c] = "idle"]
      /\ jobs' \in Seq(ApiJobs) /\ DOMAIN jobs = 1 .. Len(jobs) /\ Len(jobs) \in Nat
      /\ DOMAIN jobs' = 1 .. (Len(jobs) + 1) /\ \A j \in DOMAIN jobs : jobs'[j] = jobs[j]
      /\ ticket' \in [Callers -> ApiTickets] /\ \A d \in Callers : d # c => ticket'[d] = ticket[d]
      /\ ticket'[c].run = server.run /\ ticket'[c].id = Len(jobs) + 1
      /\ ticket'[c].image = jobs'[Len(jobs) + 1].image
      /\ UNCHANGED <<asks, server, kind, arg, body, temps, imports, reply, machine, apichild, shell>>
  <2>1. PICK i \in Images :
          /\ jobs' = Append(jobs, [image |-> i, st |-> "running"])
          /\ ticket' = [ticket EXCEPT ![c] = [run |-> server.run, id |-> Len(jobs) + 1, image |-> i]]
    BY DEF Api!StartPull
  <2>2. "202" \in ApiStatuses /\ apiat[c] = "read" /\ Api!Answer(c, "202")
    BY DEF ApiStatuses, Api!StartPull
  <2>3. ans' = [ans EXCEPT ![c] = "202"] /\ apiat' = [apiat EXCEPT ![c] = "idle"]
    BY <2>2, AnswerIs DEF Api!WithTemp
  <2>4. ans' \in [Callers -> ApiStatuses]
    BY <2>2, <2>3 DEF ApiInv, ApiTypes
  <2> DEFINE r == [image |-> i, st |-> "running"]
             k == [run |-> server.run, id |-> Len(jobs) + 1, image |-> i]
  <2>5. jobs \in Seq(ApiJobs) /\ r \in ApiJobs /\ r.image = i
    BY DEF ApiInv, ApiTypes, ApiJobs
  <2>6. Len(jobs) \in Nat /\ DOMAIN jobs = 1 .. Len(jobs)
    BY <2>5
  <2>7. k \in ApiTickets /\ k.run = server.run /\ k.id = Len(jobs) + 1 /\ k.image = i
    BY <2>6 DEF ApiTickets, ApiInv, ApiTypes
  <2>8. jobs' = Append(jobs, r) /\ ticket' = [ticket EXCEPT ![c] = k]
    BY <2>1
  <2> HIDE DEF r, k
  <2>9. /\ jobs' \in Seq(ApiJobs) /\ DOMAIN jobs' = 1 .. (Len(jobs) + 1) /\ jobs'[Len(jobs) + 1] = r
        /\ \A j \in DOMAIN jobs : jobs'[j] = jobs[j]
    BY <2>5, <2>6, <2>8
  <2>10. ticket' \in [Callers -> ApiTickets] /\ ticket'[c] = k /\ \A d \in Callers : d # c => ticket'[d] = ticket[d]
    BY <2>7, <2>8 DEF ApiInv, ApiTypes
  <2>11. UNCHANGED <<asks, server, kind, arg, body, temps, imports, reply, machine, apichild, shell>> /\ kind[c] = "pull"
    BY DEF Api!StartPull, Api!Files, Api!Pulls, Api!Guests
  <2> QED
    BY <2>2, <2>3, <2>4, <2>5, <2>6, <2>7, <2>9, <2>10, <2>11
<1>2. ApiTypes'
  BY <1>1 DEF ApiInv, ApiTypes, ApiAts, Api!WithTemp
<1>3. ApiTemps'
  <2>1. \A d \in Callers : apiat'[d] # "idle" => apiat[d] # "idle"
    BY <1>1 DEF ApiInv, ApiTypes
  <2>2. \A d \in Callers : apiat'[d] \in Api!WithTemp <=> apiat[d] \in Api!WithTemp
    BY <1>1 DEF ApiInv, ApiTypes, Api!WithTemp
  <2> QED
    BY <1>1, <2>1, <2>2, TempsKept DEF ApiInv
<1>4. ApiPlaces'
  BY <1>1 DEF ApiInv, ApiTypes, ApiPlaces
<1>5. ApiPulls'
  <2>1. server.st # "down" /\ server.run \in Nat
    BY <1>1 DEF ApiInv, ApiTypes, ApiTemps
  <2> SUFFICES ASSUME NEW d \in Callers
               PROVE  /\ ticket'[d].run <= server.run /\ reply[d].run <= server.run
                      /\ ticket'[d].run = server.run /\ ticket'[d].id # 0 =>
                            ticket'[d].id \in DOMAIN jobs' /\ jobs'[ticket'[d].id].image = ticket'[d].image
                      /\ reply[d].run = server.run /\ reply[d].id # 0 =>
                            /\ reply[d].id \in DOMAIN jobs' /\ jobs'[reply[d].id].image = reply[d].image
                            /\ reply[d].st # "running" => jobs'[reply[d].id].st = reply[d].st
                      /\ reply[d].run = ticket'[d].run /\ reply[d].id = ticket'[d].id => reply[d].image = ticket'[d].image
    BY <1>1, <2>1 DEF ApiPulls
  <2>2. /\ ticket[d].run <= server.run /\ reply[d].run <= server.run
        /\ ticket[d].run = server.run /\ ticket[d].id # 0 =>
              ticket[d].id \in DOMAIN jobs /\ jobs[ticket[d].id].image = ticket[d].image
        /\ reply[d].run = server.run /\ reply[d].id # 0 =>
              /\ reply[d].id \in DOMAIN jobs /\ jobs[reply[d].id].image = reply[d].image
              /\ reply[d].st # "running" => jobs[reply[d].id].st = reply[d].st
        /\ reply[d].run = ticket[d].run /\ reply[d].id = ticket[d].id => reply[d].image = ticket[d].image
    BY <2>1 DEF ApiInv, ApiPulls
  <2>3. \A j \in DOMAIN jobs : j \in DOMAIN jobs' /\ jobs'[j] = jobs[j]
    BY <1>1
  <2>4. CASE d # c
    BY <1>1, <2>2, <2>3, <2>4
  <2>5. CASE d = c
    <3>1. Len(jobs) + 1 \in DOMAIN jobs' /\ Len(jobs) + 1 \notin DOMAIN jobs /\ Len(jobs) + 1 # 0
      BY <1>1
    <3> QED
      BY <1>1, <2>1, <2>2, <2>3, <2>5, <3>1
  <2> QED
    BY <2>4, <2>5
<1>6. (Api!StatusLast)'
  BY <1>1 DEF ApiInv, ApiTypes, ApiPlaces, Api!StatusLast
<1> QED
  BY <1>2, <1>3, <1>4, <1>5, <1>6 DEF ApiInv

LEMMA ApiGetPullKeeps == ASSUME ApiInv, NEW c \in Callers, Api!GetPull(c) PROVE ApiInv'
<1>1. /\ apiat[c] = "read" /\ kind[c] = "poll" /\ ticket[c].id \in DOMAIN jobs /\ ticket[c].id # 0
      /\ ans' = [ans EXCEPT ![c] = "200"] /\ ans' \in [Callers -> ApiStatuses]
      /\ apiat' = [apiat EXCEPT ![c] = "idle"]
      /\ reply' \in [Callers -> ApiReplies] /\ \A d \in Callers : d # c => reply'[d] = reply[d]
      /\ reply'[c].run = server.run /\ reply'[c].id = ticket[c].id
      /\ reply'[c].image = jobs[ticket[c].id].image /\ reply'[c].st = jobs[ticket[c].id].st
      /\ UNCHANGED <<asks, server, kind, arg, body, temps, imports, jobs, ticket, machine, apichild, shell>>
  <2>2. "200" \in ApiStatuses /\ apiat[c] = "read" /\ Api!Answer(c, "200")
    BY DEF ApiStatuses, Api!GetPull
  <2>3. ans' = [ans EXCEPT ![c] = "200"] /\ apiat' = [apiat EXCEPT ![c] = "idle"]
    BY <2>2, AnswerIs DEF Api!WithTemp
  <2>4. ans' \in [Callers -> ApiStatuses]
    BY <2>2, <2>3 DEF ApiInv, ApiTypes
  <2> DEFINE i == ticket[c].id
             k == [run |-> server.run, id |-> i, image |-> jobs[i].image, st |-> jobs[i].st]
  <2>5. i \in DOMAIN jobs /\ jobs \in Seq(ApiJobs) /\ i \in Nat
    BY DEF Api!GetPull, ApiInv, ApiTypes, ApiTickets
  <2>6. i # 0 /\ jobs[i] \in ApiJobs
    <3> HIDE DEF i
    <3> QED
      BY <2>5
  <2>7. k \in ApiReplies /\ k.run = server.run /\ k.id = i /\ k.image = jobs[i].image /\ k.st = jobs[i].st
    <3>1. jobs[i].image \in Images /\ jobs[i].st \in {"running", "succeeded", "failed"} /\ server.run \in Nat
      BY <2>6 DEF ApiJobs, ApiInv, ApiTypes
    <3> HIDE DEF i
    <3> QED
      BY <2>5, <3>1 DEF ApiReplies
  <2>8. reply' = [reply EXCEPT ![c] = k]
    BY DEF Api!GetPull
  <2> HIDE DEF k
  <2>9. reply' \in [Callers -> ApiReplies] /\ reply'[c] = k /\ \A d \in Callers : d # c => reply'[d] = reply[d]
    BY <2>7, <2>8 DEF ApiInv, ApiTypes
  <2>10. UNCHANGED <<asks, server, kind, arg, body, temps, imports, jobs, ticket, machine, apichild, shell>> /\ kind[c] = "poll"
    BY DEF Api!GetPull, Api!Files, Api!Pulls, Api!Guests
  <2> QED
    BY <2>2, <2>3, <2>4, <2>5, <2>6, <2>7, <2>9, <2>10
<1>2. ApiTypes'
  BY <1>1 DEF ApiInv, ApiTypes, ApiAts, Api!WithTemp
<1>3. ApiTemps'
  <2>1. \A d \in Callers : apiat'[d] # "idle" => apiat[d] # "idle"
    BY <1>1 DEF ApiInv, ApiTypes
  <2>2. \A d \in Callers : apiat'[d] \in Api!WithTemp <=> apiat[d] \in Api!WithTemp
    BY <1>1 DEF ApiInv, ApiTypes, Api!WithTemp
  <2> QED
    BY <1>1, <2>1, <2>2, TempsKept DEF ApiInv
<1>4. ApiPlaces'
  BY <1>1 DEF ApiInv, ApiTypes, ApiPlaces
<1>5. ApiPulls'
  <2>1. server.st # "down" /\ server.run \in Nat
    BY <1>1 DEF ApiInv, ApiTypes, ApiTemps
  <2> SUFFICES ASSUME NEW d \in Callers
               PROVE  /\ reply'[d].run <= server.run
                      /\ reply'[d].run = server.run /\ reply'[d].id # 0 =>
                            /\ reply'[d].id \in DOMAIN jobs /\ jobs[reply'[d].id].image = reply'[d].image
                            /\ reply'[d].st # "running" => jobs[reply'[d].id].st = reply'[d].st
                      /\ reply'[d].run = ticket[d].run /\ reply'[d].id = ticket[d].id => reply'[d].image = ticket[d].image
    BY <1>1, <2>1 DEF ApiInv, ApiPulls
  <2>2. CASE d # c
    BY <1>1, <2>1, <2>2 DEF ApiInv, ApiPulls
  <2>3. CASE d = c
    <3>1. ticket[c].run = server.run => jobs[ticket[c].id].image = ticket[c].image
      BY <1>1, <2>1 DEF ApiInv, ApiPulls
    <3> QED
      BY <1>1, <2>1, <2>3, <3>1
  <2> QED
    BY <2>2, <2>3
<1>6. (Api!StatusLast)'
  BY <1>1 DEF ApiInv, ApiTypes, ApiPlaces, Api!StatusLast
<1> QED
  BY <1>2, <1>3, <1>4, <1>5, <1>6 DEF ApiInv

LEMMA ApiJobEndsKeeps == ASSUME ApiInv, NEW j, Api!JobEnds(j) PROVE ApiInv'
<1>1. /\ jobs' \in Seq(ApiJobs) /\ DOMAIN jobs' = DOMAIN jobs /\ jobs[j].st = "running"
      /\ \A i \in DOMAIN jobs : jobs'[i].image = jobs[i].image /\ (i # j => jobs'[i] = jobs[i])
      /\ UNCHANGED <<asks, server, apiat, kind, arg, body, ans, temps, imports, ticket, reply, machine, apichild, shell>>
  <2>1. PICK s \in {"succeeded", "failed"} : jobs' = [jobs EXCEPT ![j].st = s]
    BY DEF Api!JobEnds
  <2> DEFINE r == [jobs[j] EXCEPT !.st = s]
  <2>2. jobs \in Seq(ApiJobs) /\ j \in DOMAIN jobs /\ jobs[j].st = "running"
    BY DEF Api!JobEnds, ApiInv, ApiTypes
  <2>3. jobs[j] \in ApiJobs /\ j \in 1 .. Len(jobs)
    BY <2>2
  <2>4. r \in ApiJobs /\ r.image = jobs[j].image
    BY <2>3 DEF ApiJobs
  <2>5. jobs' = [jobs EXCEPT ![j] = r]
    BY <2>1
  <2> HIDE DEF r
  <2>6. /\ jobs' \in Seq(ApiJobs) /\ DOMAIN jobs' = DOMAIN jobs
        /\ \A i \in DOMAIN jobs : jobs'[i] = IF i = j THEN r ELSE jobs[i]
    BY <2>2, <2>3, <2>4, <2>5, ExceptSeq
  <2>7. UNCHANGED <<asks, server, apiat, kind, arg, body, ans, temps, imports, ticket, reply, machine, apichild, shell>>
    BY DEF Api!JobEnds, Api!Files, Api!Pulls, Api!Guests
  <2> QED
    BY <2>2, <2>4, <2>6, <2>7
<1>2. ApiTypes'
  BY <1>1 DEF ApiInv, ApiTypes, ApiAts, Api!WithTemp
<1>3. ApiTemps'
  BY <1>1, TempsKept DEF ApiInv, ApiTypes, ApiAts, Api!WithTemp
<1>4. ApiPlaces'
  BY <1>1 DEF ApiInv, ApiTypes, ApiPlaces
<1>5. ApiPulls'
  BY <1>1 DEF ApiInv, ApiPulls
<1>6. (Api!StatusLast)'
  BY <1>1 DEF ApiInv, ApiTypes, ApiPlaces, Api!StatusLast
<1> QED
  BY <1>2, <1>3, <1>4, <1>5, <1>6 DEF ApiInv

LEMMA ApiStep == ASSUME ApiInv, [RunsNext]_runsvars PROVE ApiInv'
<1>1. Api!Next \/ UNCHANGED apivars
  BY DEF RunsNext, runsvars
<1>2. CASE UNCHANGED apivars
  <2>1. \A c \in Callers : (Api!Temp(c))' = Api!Temp(c)
    BY <1>2 DEF apivars, Api!Temp
  <2> QED
    BY <1>2, <2>1 DEF apivars, ApiInv, ApiTypes, ApiTemps, ApiPlaces, ApiPulls, Api!StatusLast
<1>3. CASE Api!Serve \/ Api!Shutdown \/ Api!Exit
  BY <1>3, ApiServeKeeps, ApiShutdownKeeps, ApiExitKeeps
<1>4. ASSUME NEW c \in Callers,
             \/ Api!Route(c) \/ Api!Refuse(c) \/ Api!Command(c) \/ Api!CommandEnds(c)
             \/ Api!Archive(c) \/ Api!StartPull(c) \/ Api!GetPull(c)
             \/ Api!SpawnDetachedRun(c) \/ Api!SeenRunning(c) \/ Api!NotSeenRunning(c)
             \/ Api!Session(c)
      PROVE  ApiInv'
  <2>1. CASE Api!Archive(c)
    BY <2>1, ApiCreateTempKeeps, ApiPartBeginsKeeps, ApiPartEndsKeeps, ApiPartCutKeeps, ApiImportEndsKeeps, ApiImportFailsKeeps, ApiExportEndsKeeps, ApiExportFailsKeeps, ApiStreamEndsKeeps, ApiRemoveKeeps DEF Api!Archive
  <2>2. CASE Api!Session(c)
    BY <2>2, ApiOpenShellKeeps, ApiWritesKeeps, ApiFrameKeeps, ApiClientLeavesKeeps, ApiRemoteExitsKeeps, ApiWaitEndsKeeps DEF Api!Session
  <2> QED
    BY <1>4, <2>1, <2>2, ApiRouteKeeps, ApiRefuseKeeps, ApiCommandKeeps, ApiCommandEndsKeeps, ApiStartPullKeeps, ApiGetPullKeeps, ApiSpawnDetachedRunKeeps, ApiSeenRunningKeeps, ApiNotSeenRunningKeeps
<1>5. ASSUME NEW j \in 1 .. LastJob, Api!JobEnds(j) PROVE ApiInv'
  BY <1>5, ApiJobEndsKeeps
<1>6. ASSUME NEW v \in Started, Api!ChildRuns(v) \/ Api!ChildFails(v) \/ Api!MachineEnds(v) PROVE ApiInv'
  BY <1>6, ApiChildRunsKeeps, ApiChildFailsKeeps, ApiMachineEndsKeeps
<1> QED
  BY <1>1, <1>2, <1>3, <1>4, <1>5, <1>6 DEF Api!Next

LEMMA ApiBegins == RunsInit => ApiInv
<1> SUFFICES ASSUME Api!Init PROVE ApiInv
  BY DEF RunsInit
<1> USE DEF Api!Init
<1>1. Api!NoTicket \in ApiTickets /\ Api!NoTicket.run = 0 /\ Api!NoTicket.id = 0 /\ Api!NoTicket.image = "none"
  BY DEF Api!NoTicket, ApiTickets
<1>2. Api!NoReply \in ApiReplies /\ Api!NoReply.run = 0 /\ Api!NoReply.id = 0 /\ Api!NoReply.image = "none"
  BY DEF Api!NoReply, ApiReplies
<1>3. Api!NoShell \in ApiShells
  BY DEF Api!NoShell, ApiShells
<1>4. ApiTypes
  <2>1. machine \in [Started -> BOOLEAN] /\ jobs \in Seq(ApiJobs)
    OBVIOUS
  <2>2. /\ server \in [st : {"down", "up", "closing"}, run : Nat]
        /\ asks \in [Callers -> SUBSET Api!Kinds] /\ arg \in [Callers -> Started]
    BY ServerAssumption
  <2>3. apiat \in [Callers -> ApiAts] /\ kind \in [Callers -> Api!Kinds] /\ body \in [Callers -> ApiBodies]
    BY DEF ApiAts, Api!Kinds, ApiBodies
  <2>4. ans \in [Callers -> ApiStatuses] /\ apichild \in [Started -> Nat]
    BY DEF ApiStatuses
  <2>5. ticket \in [Callers -> ApiTickets] /\ reply \in [Callers -> ApiReplies] /\ shell \in [Callers -> ApiShells]
    BY <1>1, <1>2, <1>3
  <2> QED
    BY <2>1, <2>2, <2>3, <2>4, <2>5 DEF ApiTypes
<1>5. ApiTemps /\ ApiPlaces
  BY DEF ApiTemps, ApiPlaces, Api!WithTemp
<1>6. ApiPulls
  BY <1>1, <1>2 DEF ApiPulls
<1>7. Api!StatusLast
  BY DEF Api!StatusLast
<1> QED
  BY <1>4, <1>5, <1>6, <1>7 DEF ApiInv

LEMMA ApiImplies == ApiInv => Api!ApiSafe
<1> SUFFICES ASSUME ApiInv PROVE Api!ApiSafe
  OBVIOUS
<1>1. Api!TypeOK
  BY DEF ApiInv, ApiTypes, ApiAts, ApiBodies, ApiStatuses, ApiJobs, ApiTickets, ApiReplies, ApiShells, Api!TypeOK
<1>2. Api!TempsOwned
  BY DEF ApiInv, ApiTemps, Api!TempsOwned
<1>3. Api!ImportsWhole
  BY DEF ApiInv, ApiTypes, ApiPlaces, Api!ImportsWhole
<1>4. Api!AnswersHold
  BY DEF ApiInv, ApiPulls, Api!AnswersHold
<1> QED
  BY <1>1, <1>2, <1>3, <1>4 DEF ApiInv, Api!ApiSafe

(* However many clients and servers: what is temporary is removed, archives  *)
(* are imported whole, and answers are about what was asked and follow it    *)
(* (handleImportUpload, pullJobs, serveSSHWebSocket).                        *)
THEOREM ServersAreSafe == RunsSpec => []Api!ApiSafe
<1>1. RunsSpec => []ApiInv
  BY ApiBegins, ApiStep, PTL DEF RunsSpec
<1> QED
  BY <1>1, ApiImplies, PTL

-----------------------------------------------------------------------------
(* Screen                                                                  *)

Keys == {"shift", "key", "button"}
Events == [key : Keys, down : BOOLEAN]

(* What a gesture presses it lets go later. *)
LetsGo(g) ==
    \A i \in 1 .. Len(g), k \in Keys :
        g[i] = Scr!Down(k) => \E j \in 1 .. Len(g) : j > i /\ g[j] = Scr!Up(k)

ScrGestures ==
    \A d \in Drivers : LetsGo(scrleft[d]) /\ (scrat[d] # "gesture" => scrleft[d] = <<>>)

(* What a driver has is of the screen as it is, or of one that has changed. *)
ScrFresh == \A d \in Drivers : ~moved[d] => fb[d] \in {shown, 0}

ScrInv == Scr!TypeOK /\ ScrFresh /\ Scr!ClicksHit /\ Scr!NothingStuck /\ ScrGestures

LEMMA EventOf ==
    /\ \A k \in Keys : /\ Scr!Down(k) \in Events /\ Scr!Down(k).key = k /\ Scr!Down(k).down
                        /\ Scr!Up(k) \in Events /\ Scr!Up(k).key = k /\ ~Scr!Up(k).down
BY Zenon DEF Scr!Down, Scr!Up, Events

LEMMA EventIs ==
    ASSUME NEW e \in Events
    PROVE  e.key \in Keys /\ (IF e.down THEN e = Scr!Down(e.key) ELSE e = Scr!Up(e.key))
<1>1. e = [key |-> e.key, down |-> e.down] /\ e.key \in Keys /\ e.down \in BOOLEAN
  BY DEF Events
<1>2. CASE e.down = TRUE
  BY <1>1, <1>2, Zenon DEF Scr!Down
<1>3. CASE e.down = FALSE
  BY <1>1, <1>3, Zenon DEF Scr!Up
<1> QED
  BY <1>1, <1>2, <1>3

LEMMA GesturesLetGo ==
    /\ LetsGo(<<>>) /\ <<>> \in Seq(Events)
    /\ LetsGo(Scr!Press) /\ Scr!Press \in Seq(Events)
    /\ LetsGo(Scr!Chord) /\ Scr!Chord \in Seq(Events)
<1>1. \A k, l \in Keys : Scr!Down(k) # Scr!Up(l) /\ (Scr!Down(k) = Scr!Down(l) => k = l)
  BY EventOf
<1>2. "shift" \in Keys /\ "key" \in Keys /\ "button" \in Keys
  BY DEF Keys
<1>3. \A k \in Keys : Scr!Down(k) \in Events /\ Scr!Up(k) \in Events
  BY EventOf
<1> HIDE DEF Keys
<1>4. LetsGo(Scr!Press) /\ Scr!Press \in Seq(Events)
  BY <1>1, <1>2, <1>3 DEF Scr!Press, LetsGo
<1>5. LetsGo(Scr!Chord) /\ Scr!Chord \in Seq(Events)
  BY <1>1, <1>2, <1>3 DEF Scr!Chord, LetsGo
<1> QED
  BY <1>4, <1>5 DEF LetsGo

LEMMA TailLetsGo ==
    ASSUME NEW g \in Seq(Events), g # <<>>, LetsGo(g)
    PROVE  /\ Tail(g) \in Seq(Events) /\ Head(g) \in Events /\ LetsGo(Tail(g))
           /\ \A k \in Keys : (\E i \in 1 .. Len(g) : g[i] = Scr!Up(k)) =>
                 Head(g) = Scr!Up(k) \/ \E i \in 1 .. Len(Tail(g)) : Tail(g)[i] = Scr!Up(k)
           /\ \A k \in Keys : Head(g) = Scr!Down(k) => \E i \in 1 .. Len(Tail(g)) : Tail(g)[i] = Scr!Up(k)
<1> HIDE DEF Keys, Events
<1>1. /\ Tail(g) \in Seq(Events) /\ Head(g) \in Events /\ Head(g) = g[1]
      /\ Len(Tail(g)) = Len(g) - 1 /\ Len(g) \in Nat /\ Len(g) >= 1
      /\ \A i \in 1 .. (Len(g) - 1) : Tail(g)[i] = g[i + 1]
  OBVIOUS
<1>2. \A j \in 1 .. Len(g) : j > 1 => j - 1 \in 1 .. Len(Tail(g)) /\ Tail(g)[j - 1] = g[j]
  BY <1>1
<1>3. \A i \in 1 .. Len(Tail(g)) : i + 1 \in 1 .. Len(g) /\ Tail(g)[i] = g[i + 1]
  BY <1>1
<1>4. LetsGo(Tail(g))
  <2> SUFFICES ASSUME NEW i \in 1 .. Len(Tail(g)), NEW k \in Keys, Tail(g)[i] = Scr!Down(k)
               PROVE  \E j \in 1 .. Len(Tail(g)) : j > i /\ Tail(g)[j] = Scr!Up(k)
    BY DEF LetsGo
  <2>1. PICK j \in 1 .. Len(g) : j > i + 1 /\ g[j] = Scr!Up(k)
    BY <1>3 DEF LetsGo
  <2>2. j - 1 > i /\ j > 1
    BY <2>1, <1>1
  <2> QED
    BY <2>1, <2>2, <1>2
<1>5. \A k \in Keys : (\E i \in 1 .. Len(g) : g[i] = Scr!Up(k)) =>
         Head(g) = Scr!Up(k) \/ \E i \in 1 .. Len(Tail(g)) : Tail(g)[i] = Scr!Up(k)
  <2> SUFFICES ASSUME NEW k \in Keys, NEW i \in 1 .. Len(g), g[i] = Scr!Up(k), Head(g) # Scr!Up(k)
               PROVE  \E j \in 1 .. Len(Tail(g)) : Tail(g)[j] = Scr!Up(k)
    OBVIOUS
  <2>1. i > 1
    BY <1>1
  <2> QED
    BY <2>1, <1>2
<1>6. \A k \in Keys : Head(g) = Scr!Down(k) => \E i \in 1 .. Len(Tail(g)) : Tail(g)[i] = Scr!Up(k)
  <2> SUFFICES ASSUME NEW k \in Keys, Head(g) = Scr!Down(k)
               PROVE  \E i \in 1 .. Len(Tail(g)) : Tail(g)[i] = Scr!Up(k)
    OBVIOUS
  <2>1. PICK j \in 1 .. Len(g) : j > 1 /\ g[j] = Scr!Up(k)
    BY <1>1 DEF LetsGo
  <2> QED
    BY <2>1, <1>2
<1> QED
  BY <1>1, <1>4, <1>5, <1>6

LEMMA StuckFrame ==
    ASSUME ScrInv, Scr!TypeOK', serving' = serving, down' \subseteq down,
           \A d \in Drivers : torn[d] => torn'[d],
           \A d \in Drivers : torn'[d] \/ scrleft'[d] = scrleft[d] \/ scrleft[d] = <<>>
    PROVE  Scr!NothingStuck'
<1> SUFFICES ASSUME NEW k \in down
             PROVE  /\ serving # Nobody
                    /\ torn'[serving] \/ \E i \in DOMAIN scrleft'[serving] : scrleft'[serving][i] = Scr!Up(k)
  BY DEF Scr!NothingStuck, Scr!Up
<1>1. serving # Nobody /\ (torn[serving] \/ \E i \in DOMAIN scrleft[serving] : scrleft[serving][i] = Scr!Up(k))
  BY DEF ScrInv, Scr!NothingStuck
<1>2. serving \in Drivers
  BY <1>1 DEF ScrInv, Scr!TypeOK
<1>3. scrleft[serving] = <<>> => ~\E i \in DOMAIN scrleft[serving] : scrleft[serving][i] = Scr!Up(k)
  OBVIOUS
<1> QED
  BY <1>1, <1>2, <1>3

LEMMA StuckDrop == ASSUME down' = {} PROVE Scr!NothingStuck'
BY DEF Scr!NothingStuck

-----------------------------------------------------------------------------
(* Types *)

LEMMA ScrChangesTypes == ASSUME ScrInv, Scr!Changes PROVE Scr!TypeOK'
BY HostAssumption DEF ScrInv, Scr!TypeOK, Scr!Changes, Scr!Set, Scr!Drop, Scr!Hangup, Scr!Connects, Scr!DoesNotConnect, Scr!Ends, Scr!Again, Scr!Black, Scr!Sees, Scr!Settled, Scr!Asked

LEMMA ScrLosesTypes == ASSUME ScrInv, Scr!Loses PROVE Scr!TypeOK'
BY HostAssumption DEF ScrInv, Scr!TypeOK, Scr!Loses, Scr!Set, Scr!Drop, Scr!Hangup, Scr!Connects, Scr!DoesNotConnect, Scr!Ends, Scr!Again, Scr!Black, Scr!Sees, Scr!Settled, Scr!Asked

LEMMA ScrDialTypes == ASSUME ScrInv, NEW d \in Drivers, Scr!Dial(d) PROVE Scr!TypeOK'
BY ZenonT(40), HostAssumption DEF ScrInv, Scr!TypeOK, Scr!Dial, Scr!Set, Scr!Drop, Scr!Hangup, Scr!Connects, Scr!DoesNotConnect, Scr!Ends, Scr!Again, Scr!Black, Scr!Sees, Scr!Settled, Scr!Asked

LEMMA ScrBeginTypes == ASSUME ScrInv, NEW d \in Drivers, Scr!Begin(d) PROVE Scr!TypeOK'
<1>0. scrleft \in [Drivers -> Seq(Events)]
  BY DEF ScrInv, Scr!TypeOK, Events, Keys
<1>1. scrleft' \in [Drivers -> Seq(Events)]
  BY <1>0, GesturesLetGo DEF Scr!Begin, Scr!Set
<1>2. down' \subseteq {"shift", "key", "button"}
  BY DEF ScrInv, Scr!TypeOK, Scr!Begin
<1>3. scrleft' \in [Drivers -> Seq([key : {"shift", "key", "button"}, down : BOOLEAN])]
  BY <1>1 DEF Events, Keys
<1> QED
  BY <1>2, <1>3, HostAssumption DEF ScrInv, Scr!TypeOK, Scr!Begin, Scr!Set, Scr!Drop, Scr!Hangup, Scr!Connects, Scr!DoesNotConnect, Scr!Ends, Scr!Again, Scr!Black, Scr!Sees, Scr!Settled, Scr!Asked

LEMMA ScrCloseTypes == ASSUME ScrInv, NEW d \in Drivers, Scr!Close(d) PROVE Scr!TypeOK'
BY HostAssumption DEF ScrInv, Scr!TypeOK, Scr!Close, Scr!Set, Scr!Drop, Scr!Hangup, Scr!Connects, Scr!DoesNotConnect, Scr!Ends, Scr!Again, Scr!Black, Scr!Sees, Scr!Settled, Scr!Asked

(* The end of what a driver does. *)
EndTyped ==
    /\ serving' \in Drivers \cup {Nobody}
    /\ fresh' \in BOOLEAN
    /\ down' \subseteq {"shift", "key", "button"}
    /\ conn' \in [Drivers -> {"open", "closed"}]
    /\ doing' \in [Drivers -> {"none", "wait", "click", "keys", "look"}]
    /\ scrat' \in [Drivers -> {"idle", "redial", "capture", "seen", "gesture"}]
    /\ tries' \in [Drivers -> Nat] /\ retry' \in [Drivers -> Nat]
    /\ last' \in [Drivers -> {0} \cup Places] /\ aim' \in [Drivers -> {0} \cup Places]
    /\ scrleft' \in [Drivers -> Seq([key : {"shift", "key", "button"}, down : BOOLEAN])]

LEMMA ScrEnds ==
    ASSUME ScrInv, NEW d \in Drivers, Scr!Ends(d, TRUE) \/ Scr!Ends(d, FALSE)
    PROVE  EndTyped /\ scrat'[d] = "idle" /\ \A e \in Drivers \ {d} : scrat'[e] = scrat[e] /\ doing'[e] = doing[e] /\ aim'[e] = aim[e]
<1> DEFINE T == [Drivers -> Seq([key : {"shift", "key", "button"}, down : BOOLEAN])]
<1>1. scrleft' \in T
  <2>1. scrleft \in T /\ <<>> \in Seq([key : {"shift", "key", "button"}, down : BOOLEAN])
    BY DEF ScrInv, Scr!TypeOK
  <2> QED
    BY <2>1 DEF Scr!Ends, Scr!Set
<1>2. /\ scrat' = [scrat EXCEPT ![d] = "idle"] /\ doing' = [doing EXCEPT ![d] = "none"]
      /\ tries' = [tries EXCEPT ![d] = 0] /\ retry' = [retry EXCEPT ![d] = 0] /\ last' = [last EXCEPT ![d] = 0]
      /\ aim' = [aim EXCEPT ![d] = 0]
  BY DEF Scr!Ends, Scr!Set
<1>3. \/ UNCHANGED <<serving, fresh, down, conn>>
      \/ /\ serving' \in {serving, Nobody} /\ fresh' = fresh /\ down' \in {down, {}}
         /\ conn' = [conn EXCEPT ![d] = "closed"]
  BY DEF Scr!Ends, Scr!Set, Scr!Hangup, Scr!Drop
<1> HIDE DEF T
<1> QED
  BY <1>1, <1>2, <1>3 DEF ScrInv, Scr!TypeOK, EndTyped, T

LEMMA ScrEndsTypes ==
    ASSUME ScrInv, NEW d \in Drivers, Scr!Ends(d, TRUE) \/ Scr!Ends(d, FALSE),
           UNCHANGED <<role, shown, fb, moved>>, torn' \in [Drivers -> BOOLEAN]
    PROVE  Scr!TypeOK' /\ ScrFresh' /\ Scr!ClicksHit'
BY ScrEnds DEF EndTyped, ScrInv, Scr!TypeOK, ScrFresh, Scr!ClicksHit

LEMMA ScrCancelTypes == ASSUME ScrInv, NEW d \in Drivers, Scr!Cancel(d) PROVE Scr!TypeOK' /\ ScrFresh' /\ Scr!ClicksHit'
BY ScrEndsTypes DEF Scr!Cancel, ScrInv, Scr!TypeOK

LEMMA ScrRedialTypes == ASSUME ScrInv, NEW d \in Drivers, Scr!Redial(d) PROVE Scr!TypeOK'
BY ZenonT(40), HostAssumption DEF ScrInv, Scr!TypeOK, Scr!Redial, Scr!Set, Scr!Drop, Scr!Hangup, Scr!Connects, Scr!DoesNotConnect, Scr!Ends, Scr!Again, Scr!Black, Scr!Sees, Scr!Settled, Scr!Asked

LEMMA ScrCapturesTypes == ASSUME ScrInv, NEW d \in Drivers, Scr!Captures(d) PROVE Scr!TypeOK'
BY HostAssumption DEF ScrInv, Scr!TypeOK, Scr!Captures, Scr!Set, Scr!Drop, Scr!Hangup, Scr!Connects, Scr!DoesNotConnect, Scr!Ends, Scr!Again, Scr!Black, Scr!Sees, Scr!Settled, Scr!Asked

LEMMA ScrCapturesNothingTypes == ASSUME ScrInv, NEW d \in Drivers, Scr!CapturesNothing(d) PROVE Scr!TypeOK'
BY HostAssumption DEF ScrInv, Scr!TypeOK, Scr!CapturesNothing, Scr!Set, Scr!Drop, Scr!Hangup, Scr!Connects, Scr!DoesNotConnect, Scr!Ends, Scr!Again, Scr!Black, Scr!Sees, Scr!Settled, Scr!Asked

LEMMA ScrCaptureFailsTypes == ASSUME ScrInv, NEW d \in Drivers, Scr!CaptureFails(d) PROVE Scr!TypeOK' /\ ScrFresh' /\ Scr!ClicksHit'
<1>0. torn' \in [Drivers -> BOOLEAN] /\ UNCHANGED <<role, shown, fb, moved, torn>>
  BY DEF Scr!CaptureFails, ScrInv, Scr!TypeOK
<1>1. CASE \/ doing[d] = "click" /\ retry[d] + 1 < Retries
           \/ doing[d] = "wait" /\ tries[d] + 1 < Attempts
  <2>1. /\ scrat' = [scrat EXCEPT ![d] = "redial"]
        /\ \/ retry' = [retry EXCEPT ![d] = retry[d] + 1] /\ UNCHANGED tries
           \/ tries' = [tries EXCEPT ![d] = tries[d] + 1] /\ UNCHANGED retry
        /\ UNCHANGED <<serving, fresh, down, conn, doing, last, aim, scrleft>>
    BY <1>1 DEF Scr!CaptureFails, Scr!Set
  <2>5. retry \in [Drivers -> Nat] /\ tries \in [Drivers -> Nat]
    BY DEF ScrInv, Scr!TypeOK
  <2>6. /\ [retry EXCEPT ![d] = retry[d] + 1] \in [Drivers -> Nat]
        /\ [tries EXCEPT ![d] = tries[d] + 1] \in [Drivers -> Nat]
    BY <2>5
  <2>7. retry' \in [Drivers -> Nat] /\ tries' \in [Drivers -> Nat]
    BY <2>1, <2>5, <2>6
  <2>2. /\ retry' \in [Drivers -> Nat] /\ tries' \in [Drivers -> Nat]
        /\ scrat' \in [Drivers -> {"idle", "redial", "capture", "seen", "gesture"}]
    BY <2>1, <2>7 DEF ScrInv, Scr!TypeOK
  <2>3. Scr!TypeOK'
    BY <1>0, <2>1, <2>2 DEF ScrInv, Scr!TypeOK
  <2>4. \A e \in Drivers : scrat'[e] = "gesture" => scrat[e] = "gesture"
    BY <2>1 DEF ScrInv, Scr!TypeOK
  <2> QED
    BY <1>0, <2>1, <2>3, <2>4 DEF ScrInv, ScrFresh, Scr!ClicksHit
<1>2. CASE ~(\/ doing[d] = "click" /\ retry[d] + 1 < Retries
             \/ doing[d] = "wait" /\ tries[d] + 1 < Attempts)
  <2>1. Scr!Ends(d, FALSE)
    BY <1>2 DEF Scr!CaptureFails
  <2> QED
    BY <1>0, <2>1, ScrEndsTypes
<1> QED
  BY <1>1, <1>2

LEMMA ScrFoundTypes == ASSUME ScrInv, NEW d \in Drivers, Scr!Found(d) PROVE Scr!TypeOK' /\ ScrFresh' /\ Scr!ClicksHit'
BY ScrEndsTypes DEF Scr!Found, ScrInv, Scr!TypeOK

LEMMA ScrLookedTypes == ASSUME ScrInv, NEW d \in Drivers, Scr!Looked(d) PROVE Scr!TypeOK' /\ ScrFresh' /\ Scr!ClicksHit'
<1>0. torn' \in [Drivers -> BOOLEAN] /\ UNCHANGED <<role, shown, fb, moved, torn>>
  BY DEF Scr!Looked, ScrInv, Scr!TypeOK
<1>1. CASE role[d] = "viewer"
  BY <1>0, <1>1 DEF Scr!Looked, ScrInv, Scr!TypeOK, ScrFresh, Scr!ClicksHit, Scr!Set, Scr!Again
<1>2. CASE ~(role[d] = "viewer")
  <2>1. Scr!Ends(d, TRUE)
    BY <1>2 DEF Scr!Looked
  <2> QED
    BY <1>0, <2>1, ScrEndsTypes
<1> QED
  BY <1>1, <1>2

LEMMA ScrNotFoundTypes == ASSUME ScrInv, NEW d \in Drivers, Scr!NotFound(d) PROVE Scr!TypeOK' /\ ScrFresh' /\ Scr!ClicksHit'
<1>0. torn' \in [Drivers -> BOOLEAN] /\ UNCHANGED <<role, shown, fb, moved, torn>>
  BY DEF Scr!NotFound, ScrInv, Scr!TypeOK
<1>1. CASE tries[d] + 1 < Attempts
  <2>1. /\ tries' = [tries EXCEPT ![d] = tries[d] + 1]
        /\ retry' = [retry EXCEPT ![d] = 0]
        /\ last' = [last EXCEPT ![d] = last[d]]
        /\ scrat' = [scrat EXCEPT ![d] = "redial"]
        /\ UNCHANGED <<serving, fresh, down, conn, doing, aim, scrleft>>
    BY <1>1 DEF Scr!NotFound, Scr!Again, Scr!Set
  <2>2. /\ retry' \in [Drivers -> Nat] /\ tries' \in [Drivers -> Nat]
        /\ scrat' \in [Drivers -> {"idle", "redial", "capture", "seen", "gesture"}]
    BY <2>1 DEF ScrInv, Scr!TypeOK
  <2>3. last' \in [Drivers -> {0} \cup Places]
    BY <2>1 DEF ScrInv, Scr!TypeOK
  <2>4. Scr!TypeOK'
    BY <1>0, <2>1, <2>2, <2>3 DEF ScrInv, Scr!TypeOK
  <2>5. \A e \in Drivers : scrat'[e] = "gesture" => scrat[e] = "gesture"
    BY <2>1 DEF ScrInv, Scr!TypeOK
  <2> QED
    BY <1>0, <2>1, <2>4, <2>5 DEF ScrInv, ScrFresh, Scr!ClicksHit
<1>2. CASE ~(tries[d] + 1 < Attempts)
  <2>1. Scr!Ends(d, FALSE)
    BY <1>2 DEF Scr!NotFound
  <2> QED
    BY <1>0, <2>1, ScrEndsTypes
<1> QED
  BY <1>1, <1>2

LEMMA ScrMovesTypes == ASSUME ScrInv, NEW d \in Drivers, Scr!Moves(d) PROVE Scr!TypeOK'
BY HostAssumption DEF ScrInv, Scr!TypeOK, Scr!Moves, Scr!Set, Scr!Drop, Scr!Hangup, Scr!Connects, Scr!DoesNotConnect, Scr!Ends, Scr!Again, Scr!Black, Scr!Sees, Scr!Settled, Scr!Asked

LEMMA ScrAimsTypes == ASSUME ScrInv, NEW d \in Drivers, Scr!Aims(d) PROVE Scr!TypeOK'
<1>0. scrleft \in [Drivers -> Seq(Events)]
  BY DEF ScrInv, Scr!TypeOK, Events, Keys
<1>1. scrleft' \in [Drivers -> Seq(Events)]
  BY <1>0, GesturesLetGo DEF Scr!Aims, Scr!Set
<1>2. down' \subseteq {"shift", "key", "button"}
  BY DEF ScrInv, Scr!TypeOK, Scr!Aims
<1>3. scrleft' \in [Drivers -> Seq([key : {"shift", "key", "button"}, down : BOOLEAN])]
  BY <1>1 DEF Events, Keys
<1> QED
  BY <1>2, <1>3, HostAssumption DEF ScrInv, Scr!TypeOK, Scr!Aims, Scr!Set, Scr!Drop, Scr!Hangup, Scr!Connects, Scr!DoesNotConnect, Scr!Ends, Scr!Again, Scr!Black, Scr!Sees, Scr!Settled, Scr!Asked

LEMMA ScrSendsTypes == ASSUME ScrInv, NEW d \in Drivers, Scr!Sends(d) PROVE Scr!TypeOK'
<1>0. scrleft \in [Drivers -> Seq(Events)]
  BY DEF ScrInv, Scr!TypeOK, Events, Keys
<1>1. scrleft' \in [Drivers -> Seq(Events)]
  <2>1. Tail(scrleft[d]) \in Seq(Events)
    BY <1>0, TailLetsGo DEF Scr!Sends, ScrInv, ScrGestures
  <2> QED
    BY <1>0, <2>1 DEF Scr!Sends, Scr!Set
<1>2. down' \subseteq {"shift", "key", "button"}
  <2>1. Head(scrleft[d]) \in Events
    BY <1>0, TailLetsGo DEF Scr!Sends, ScrInv, ScrGestures
  <2>2. Head(scrleft[d]).key \in {"shift", "key", "button"}
    BY <2>1 DEF Events, Keys
  <2> QED
    BY <2>2 DEF ScrInv, Scr!TypeOK, Scr!Sends, Scr!Apply
<1>3. scrleft' \in [Drivers -> Seq([key : {"shift", "key", "button"}, down : BOOLEAN])]
  BY <1>1 DEF Events, Keys
<1> QED
  BY <1>2, <1>3, HostAssumption DEF ScrInv, Scr!TypeOK, Scr!Sends, Scr!Set, Scr!Drop, Scr!Hangup, Scr!Connects, Scr!DoesNotConnect, Scr!Ends, Scr!Again, Scr!Black, Scr!Sees, Scr!Settled, Scr!Asked

LEMMA ScrSendFailsTypes == ASSUME ScrInv, NEW d \in Drivers, Scr!SendFails(d) PROVE Scr!TypeOK' /\ ScrFresh' /\ Scr!ClicksHit'
<1>1. torn' \in [Drivers -> BOOLEAN]
  BY DEF Scr!SendFails, ScrInv, Scr!TypeOK, Scr!Set
<1> QED
  BY <1>1, ScrEndsTypes DEF Scr!SendFails

LEMMA ScrSentTypes == ASSUME ScrInv, NEW d \in Drivers, Scr!Sent(d) PROVE Scr!TypeOK' /\ ScrFresh' /\ Scr!ClicksHit'
<1>0. torn' \in [Drivers -> BOOLEAN] /\ UNCHANGED <<role, shown, fb, moved, torn>>
  BY DEF Scr!Sent, ScrInv, Scr!TypeOK
<1>1. CASE role[d] = "agent"
  BY ZenonT(40), <1>0, <1>1 DEF Scr!Sent, ScrInv, Scr!TypeOK, ScrFresh, Scr!ClicksHit, Scr!Set, Scr!Again
<1>2. CASE ~(role[d] = "agent")
  <2>1. Scr!Ends(d, TRUE)
    BY <1>2 DEF Scr!Sent
  <2> QED
    BY <1>0, <2>1, ScrEndsTypes
<1> QED
  BY <1>1, <1>2

LEMMA ScrChangesKeeps == ASSUME ScrInv, Scr!Changes PROVE ScrInv'
<1>1. Scr!TypeOK'
  BY ScrChangesTypes
<1>2. ScrFresh' /\ Scr!ClicksHit' /\ ScrGestures'
  BY DEF ScrInv, Scr!TypeOK, ScrFresh, Scr!ClicksHit, ScrGestures, Scr!Changes, Scr!Set, Scr!Drop, Scr!Hangup, Scr!Connects, Scr!DoesNotConnect, Scr!Ends, Scr!Again, Scr!Black, Scr!Sees, Scr!Settled, Scr!Asked
<1>3. Scr!NothingStuck'
  BY <1>1, StuckFrame, StuckDrop DEF Scr!Changes, Scr!Drop
<1> QED
  BY <1>1, <1>2, <1>3 DEF ScrInv

LEMMA ScrLosesKeeps == ASSUME ScrInv, Scr!Loses PROVE ScrInv'
<1>1. Scr!TypeOK'
  BY ScrLosesTypes
<1>2. ScrFresh' /\ Scr!ClicksHit' /\ ScrGestures'
  BY DEF ScrInv, Scr!TypeOK, ScrFresh, Scr!ClicksHit, ScrGestures, Scr!Loses, Scr!Set, Scr!Drop, Scr!Hangup, Scr!Connects, Scr!DoesNotConnect, Scr!Ends, Scr!Again, Scr!Black, Scr!Sees, Scr!Settled, Scr!Asked
<1>3. Scr!NothingStuck'
  BY <1>1, StuckFrame, StuckDrop DEF Scr!Loses, Scr!Drop
<1> QED
  BY <1>1, <1>2, <1>3 DEF ScrInv

LEMMA ScrDialKeeps == ASSUME ScrInv, NEW d \in Drivers, Scr!Dial(d) PROVE ScrInv'
<1>1. Scr!TypeOK'
  BY ScrDialTypes
<1>2. ScrFresh' /\ Scr!ClicksHit'
  <2>1. /\ shown' = shown /\ doing' = doing /\ aim' = aim
        /\ \A e \in Drivers : scrat'[e] = "gesture" => scrat[e] = "gesture" /\ e # d
        /\ \/ Scr!Connects(d)
           \/ UNCHANGED <<fb, moved>>
    BY DEF ScrInv, Scr!TypeOK, Scr!Dial, Scr!DoesNotConnect, Scr!Set
  <2>2. CASE Scr!Connects(d)
    BY <2>1, <2>2 DEF ScrInv, Scr!TypeOK, ScrFresh, Scr!ClicksHit, Scr!Connects, Scr!Set, Scr!Black
  <2>3. CASE UNCHANGED <<fb, moved>>
    BY <2>1, <2>3 DEF ScrInv, Scr!TypeOK, ScrFresh, Scr!ClicksHit
  <2> QED
    BY <2>1, <2>2, <2>3
<1>3. ScrGestures'
  BY GesturesLetGo DEF ScrInv, Scr!TypeOK, ScrGestures, Scr!Dial, Scr!Set, Scr!Drop, Scr!Hangup, Scr!Connects, Scr!DoesNotConnect, Scr!Ends, Scr!Again, Scr!Black, Scr!Sees, Scr!Settled, Scr!Asked
<1>4. Scr!NothingStuck'
  <2>1. CASE down' = {}
    BY <2>1, StuckDrop
  <2>2. CASE down' # {}
    <3>1. /\ serving' = serving /\ down' \subseteq down
          /\ \A e \in Drivers : torn[e] => torn'[e]
          /\ \A e \in Drivers : torn'[e] \/ scrleft'[e] = scrleft[e] \/ scrleft[e] = <<>>
      BY <2>2 DEF ScrInv, Scr!TypeOK, ScrGestures, Scr!Dial, Scr!Set, Scr!Drop, Scr!Hangup, Scr!Connects, Scr!DoesNotConnect, Scr!Ends, Scr!Again, Scr!Black, Scr!Sees, Scr!Settled, Scr!Asked
    <3> QED
      BY <1>1, <3>1, StuckFrame
  <2> QED
    BY <2>1, <2>2
<1> QED
  BY <1>1, <1>2, <1>3, <1>4 DEF ScrInv

LEMMA ScrBeginKeeps == ASSUME ScrInv, NEW d \in Drivers, Scr!Begin(d) PROVE ScrInv'
<1>1. Scr!TypeOK'
  BY ScrBeginTypes
<1>2. ScrFresh' /\ Scr!ClicksHit'
  BY HostAssumption DEF ScrInv, Scr!TypeOK, ScrFresh, Scr!ClicksHit, Scr!Begin, Scr!Set, Scr!Drop, Scr!Hangup, Scr!Connects, Scr!DoesNotConnect, Scr!Ends, Scr!Again, Scr!Black, Scr!Sees, Scr!Settled, Scr!Asked
<1>3. ScrGestures'
  BY GesturesLetGo DEF ScrInv, Scr!TypeOK, ScrGestures, Scr!Begin, Scr!Set, Scr!Drop, Scr!Hangup, Scr!Connects, Scr!DoesNotConnect, Scr!Ends, Scr!Again, Scr!Black, Scr!Sees, Scr!Settled, Scr!Asked
<1>4. Scr!NothingStuck'
  <2>1. CASE down' = {}
    BY <2>1, StuckDrop
  <2>2. CASE down' # {}
    <3>1. /\ serving' = serving /\ down' \subseteq down
          /\ \A e \in Drivers : torn[e] => torn'[e]
          /\ \A e \in Drivers : torn'[e] \/ scrleft'[e] = scrleft[e] \/ scrleft[e] = <<>>
      BY <2>2 DEF ScrInv, Scr!TypeOK, ScrGestures, Scr!Begin, Scr!Set, Scr!Drop, Scr!Hangup, Scr!Connects, Scr!DoesNotConnect, Scr!Ends, Scr!Again, Scr!Black, Scr!Sees, Scr!Settled, Scr!Asked
    <3> QED
      BY <1>1, <3>1, StuckFrame
  <2> QED
    BY <2>1, <2>2
<1> QED
  BY <1>1, <1>2, <1>3, <1>4 DEF ScrInv

LEMMA ScrCloseKeeps == ASSUME ScrInv, NEW d \in Drivers, Scr!Close(d) PROVE ScrInv'
<1>1. Scr!TypeOK'
  BY ScrCloseTypes
<1>2. ScrFresh' /\ Scr!ClicksHit'
  BY HostAssumption DEF ScrInv, Scr!TypeOK, ScrFresh, Scr!ClicksHit, Scr!Close, Scr!Set, Scr!Drop, Scr!Hangup, Scr!Connects, Scr!DoesNotConnect, Scr!Ends, Scr!Again, Scr!Black, Scr!Sees, Scr!Settled, Scr!Asked
<1>3. ScrGestures'
  BY GesturesLetGo DEF ScrInv, Scr!TypeOK, ScrGestures, Scr!Close, Scr!Set, Scr!Drop, Scr!Hangup, Scr!Connects, Scr!DoesNotConnect, Scr!Ends, Scr!Again, Scr!Black, Scr!Sees, Scr!Settled, Scr!Asked
<1>4. Scr!NothingStuck'
  <2>1. CASE down' = {}
    BY <2>1, StuckDrop
  <2>2. CASE down' # {}
    <3>1. /\ serving' = serving /\ down' \subseteq down
          /\ \A e \in Drivers : torn[e] => torn'[e]
          /\ \A e \in Drivers : torn'[e] \/ scrleft'[e] = scrleft[e] \/ scrleft[e] = <<>>
      BY <2>2 DEF ScrInv, Scr!TypeOK, ScrGestures, Scr!Close, Scr!Set, Scr!Drop, Scr!Hangup, Scr!Connects, Scr!DoesNotConnect, Scr!Ends, Scr!Again, Scr!Black, Scr!Sees, Scr!Settled, Scr!Asked
    <3> QED
      BY <1>1, <3>1, StuckFrame
  <2> QED
    BY <2>1, <2>2
<1> QED
  BY <1>1, <1>2, <1>3, <1>4 DEF ScrInv

LEMMA ScrCancelKeeps == ASSUME ScrInv, NEW d \in Drivers, Scr!Cancel(d) PROVE ScrInv'
<1>1. Scr!TypeOK'
  BY ScrCancelTypes
<1>2. ScrFresh' /\ Scr!ClicksHit'
  BY ScrCancelTypes
<1>3. ScrGestures'
  BY GesturesLetGo DEF ScrInv, Scr!TypeOK, ScrGestures, Scr!Cancel, Scr!Set, Scr!Drop, Scr!Hangup, Scr!Connects, Scr!DoesNotConnect, Scr!Ends, Scr!Again, Scr!Black, Scr!Sees, Scr!Settled, Scr!Asked
<1>4. Scr!NothingStuck'
  <2>1. CASE down' = {}
    BY <2>1, StuckDrop
  <2>2. CASE down' # {}
    <3>1. /\ serving' = serving /\ down' \subseteq down
          /\ \A e \in Drivers : torn[e] => torn'[e]
          /\ \A e \in Drivers : torn'[e] \/ scrleft'[e] = scrleft[e] \/ scrleft[e] = <<>>
      BY <2>2 DEF ScrInv, Scr!TypeOK, ScrGestures, Scr!Cancel, Scr!Set, Scr!Drop, Scr!Hangup, Scr!Connects, Scr!DoesNotConnect, Scr!Ends, Scr!Again, Scr!Black, Scr!Sees, Scr!Settled, Scr!Asked
    <3> QED
      BY <1>1, <3>1, StuckFrame
  <2> QED
    BY <2>1, <2>2
<1> QED
  BY <1>1, <1>2, <1>3, <1>4 DEF ScrInv

LEMMA ScrRedialKeeps == ASSUME ScrInv, NEW d \in Drivers, Scr!Redial(d) PROVE ScrInv'
<1>1. Scr!TypeOK'
  BY ScrRedialTypes
<1>2. ScrFresh' /\ Scr!ClicksHit'
  <2>1. /\ shown' = shown /\ doing' = doing /\ aim' = aim
        /\ \A e \in Drivers : scrat'[e] = "gesture" => scrat[e] = "gesture" /\ e # d
        /\ \/ Scr!Connects(d)
           \/ UNCHANGED <<fb, moved>>
    BY DEF ScrInv, Scr!TypeOK, Scr!Redial, Scr!DoesNotConnect, Scr!Set
  <2>2. CASE Scr!Connects(d)
    BY <2>1, <2>2 DEF ScrInv, Scr!TypeOK, ScrFresh, Scr!ClicksHit, Scr!Connects, Scr!Set, Scr!Black
  <2>3. CASE UNCHANGED <<fb, moved>>
    BY <2>1, <2>3 DEF ScrInv, Scr!TypeOK, ScrFresh, Scr!ClicksHit
  <2> QED
    BY <2>1, <2>2, <2>3
<1>3. ScrGestures'
  BY GesturesLetGo DEF ScrInv, Scr!TypeOK, ScrGestures, Scr!Redial, Scr!Set, Scr!Drop, Scr!Hangup, Scr!Connects, Scr!DoesNotConnect, Scr!Ends, Scr!Again, Scr!Black, Scr!Sees, Scr!Settled, Scr!Asked
<1>4. Scr!NothingStuck'
  <2>1. CASE down' = {}
    BY <2>1, StuckDrop
  <2>2. CASE down' # {}
    <3>1. /\ serving' = serving /\ down' \subseteq down
          /\ \A e \in Drivers : torn[e] => torn'[e]
          /\ \A e \in Drivers : torn'[e] \/ scrleft'[e] = scrleft[e] \/ scrleft[e] = <<>>
      BY <2>2 DEF ScrInv, Scr!TypeOK, ScrGestures, Scr!Redial, Scr!Set, Scr!Drop, Scr!Hangup, Scr!Connects, Scr!DoesNotConnect, Scr!Ends, Scr!Again, Scr!Black, Scr!Sees, Scr!Settled, Scr!Asked
    <3> QED
      BY <1>1, <3>1, StuckFrame
  <2> QED
    BY <2>1, <2>2
<1> QED
  BY <1>1, <1>2, <1>3, <1>4 DEF ScrInv

LEMMA ScrCapturesKeeps == ASSUME ScrInv, NEW d \in Drivers, Scr!Captures(d) PROVE ScrInv'
<1>1. Scr!TypeOK'
  BY ScrCapturesTypes
<1>2. ScrFresh' /\ Scr!ClicksHit'
  BY HostAssumption DEF ScrInv, Scr!TypeOK, ScrFresh, Scr!ClicksHit, Scr!Captures, Scr!Set, Scr!Drop, Scr!Hangup, Scr!Connects, Scr!DoesNotConnect, Scr!Ends, Scr!Again, Scr!Black, Scr!Sees, Scr!Settled, Scr!Asked
<1>3. ScrGestures'
  BY GesturesLetGo DEF ScrInv, Scr!TypeOK, ScrGestures, Scr!Captures, Scr!Set, Scr!Drop, Scr!Hangup, Scr!Connects, Scr!DoesNotConnect, Scr!Ends, Scr!Again, Scr!Black, Scr!Sees, Scr!Settled, Scr!Asked
<1>4. Scr!NothingStuck'
  <2>1. CASE down' = {}
    BY <2>1, StuckDrop
  <2>2. CASE down' # {}
    <3>1. /\ serving' = serving /\ down' \subseteq down
          /\ \A e \in Drivers : torn[e] => torn'[e]
          /\ \A e \in Drivers : torn'[e] \/ scrleft'[e] = scrleft[e] \/ scrleft[e] = <<>>
      BY <2>2 DEF ScrInv, Scr!TypeOK, ScrGestures, Scr!Captures, Scr!Set, Scr!Drop, Scr!Hangup, Scr!Connects, Scr!DoesNotConnect, Scr!Ends, Scr!Again, Scr!Black, Scr!Sees, Scr!Settled, Scr!Asked
    <3> QED
      BY <1>1, <3>1, StuckFrame
  <2> QED
    BY <2>1, <2>2
<1> QED
  BY <1>1, <1>2, <1>3, <1>4 DEF ScrInv

LEMMA ScrCapturesNothingKeeps == ASSUME ScrInv, NEW d \in Drivers, Scr!CapturesNothing(d) PROVE ScrInv'
<1>1. Scr!TypeOK'
  BY ScrCapturesNothingTypes
<1>2. ScrFresh' /\ Scr!ClicksHit'
  BY HostAssumption DEF ScrInv, Scr!TypeOK, ScrFresh, Scr!ClicksHit, Scr!CapturesNothing, Scr!Set, Scr!Drop, Scr!Hangup, Scr!Connects, Scr!DoesNotConnect, Scr!Ends, Scr!Again, Scr!Black, Scr!Sees, Scr!Settled, Scr!Asked
<1>3. ScrGestures'
  BY GesturesLetGo DEF ScrInv, Scr!TypeOK, ScrGestures, Scr!CapturesNothing, Scr!Set, Scr!Drop, Scr!Hangup, Scr!Connects, Scr!DoesNotConnect, Scr!Ends, Scr!Again, Scr!Black, Scr!Sees, Scr!Settled, Scr!Asked
<1>4. Scr!NothingStuck'
  <2>1. CASE down' = {}
    BY <2>1, StuckDrop
  <2>2. CASE down' # {}
    <3>1. /\ serving' = serving /\ down' \subseteq down
          /\ \A e \in Drivers : torn[e] => torn'[e]
          /\ \A e \in Drivers : torn'[e] \/ scrleft'[e] = scrleft[e] \/ scrleft[e] = <<>>
      BY <2>2 DEF ScrInv, Scr!TypeOK, ScrGestures, Scr!CapturesNothing, Scr!Set, Scr!Drop, Scr!Hangup, Scr!Connects, Scr!DoesNotConnect, Scr!Ends, Scr!Again, Scr!Black, Scr!Sees, Scr!Settled, Scr!Asked
    <3> QED
      BY <1>1, <3>1, StuckFrame
  <2> QED
    BY <2>1, <2>2
<1> QED
  BY <1>1, <1>2, <1>3, <1>4 DEF ScrInv

LEMMA ScrCaptureFailsKeeps == ASSUME ScrInv, NEW d \in Drivers, Scr!CaptureFails(d) PROVE ScrInv'
<1>1. Scr!TypeOK'
  BY ScrCaptureFailsTypes
<1>2. ScrFresh' /\ Scr!ClicksHit'
  BY ScrCaptureFailsTypes
<1>3. ScrGestures'
  BY GesturesLetGo DEF ScrInv, Scr!TypeOK, ScrGestures, Scr!CaptureFails, Scr!Set, Scr!Drop, Scr!Hangup, Scr!Connects, Scr!DoesNotConnect, Scr!Ends, Scr!Again, Scr!Black, Scr!Sees, Scr!Settled, Scr!Asked
<1>4. Scr!NothingStuck'
  <2>1. CASE down' = {}
    BY <2>1, StuckDrop
  <2>2. CASE down' # {}
    <3>1. /\ serving' = serving /\ down' \subseteq down
          /\ \A e \in Drivers : torn[e] => torn'[e]
          /\ \A e \in Drivers : torn'[e] \/ scrleft'[e] = scrleft[e] \/ scrleft[e] = <<>>
      BY <2>2 DEF ScrInv, Scr!TypeOK, ScrGestures, Scr!CaptureFails, Scr!Set, Scr!Drop, Scr!Hangup, Scr!Connects, Scr!DoesNotConnect, Scr!Ends, Scr!Again, Scr!Black, Scr!Sees, Scr!Settled, Scr!Asked
    <3> QED
      BY <1>1, <3>1, StuckFrame
  <2> QED
    BY <2>1, <2>2
<1> QED
  BY <1>1, <1>2, <1>3, <1>4 DEF ScrInv

LEMMA ScrFoundKeeps == ASSUME ScrInv, NEW d \in Drivers, Scr!Found(d) PROVE ScrInv'
<1>1. Scr!TypeOK'
  BY ScrFoundTypes
<1>2. ScrFresh' /\ Scr!ClicksHit'
  BY ScrFoundTypes
<1>3. ScrGestures'
  BY GesturesLetGo DEF ScrInv, Scr!TypeOK, ScrGestures, Scr!Found, Scr!Set, Scr!Drop, Scr!Hangup, Scr!Connects, Scr!DoesNotConnect, Scr!Ends, Scr!Again, Scr!Black, Scr!Sees, Scr!Settled, Scr!Asked
<1>4. Scr!NothingStuck'
  <2>1. CASE down' = {}
    BY <2>1, StuckDrop
  <2>2. CASE down' # {}
    <3>1. /\ serving' = serving /\ down' \subseteq down
          /\ \A e \in Drivers : torn[e] => torn'[e]
          /\ \A e \in Drivers : torn'[e] \/ scrleft'[e] = scrleft[e] \/ scrleft[e] = <<>>
      BY <2>2 DEF ScrInv, Scr!TypeOK, ScrGestures, Scr!Found, Scr!Set, Scr!Drop, Scr!Hangup, Scr!Connects, Scr!DoesNotConnect, Scr!Ends, Scr!Again, Scr!Black, Scr!Sees, Scr!Settled, Scr!Asked
    <3> QED
      BY <1>1, <3>1, StuckFrame
  <2> QED
    BY <2>1, <2>2
<1> QED
  BY <1>1, <1>2, <1>3, <1>4 DEF ScrInv

LEMMA ScrLookedKeeps == ASSUME ScrInv, NEW d \in Drivers, Scr!Looked(d) PROVE ScrInv'
<1>1. Scr!TypeOK'
  BY ScrLookedTypes
<1>2. ScrFresh' /\ Scr!ClicksHit'
  BY ScrLookedTypes
<1>3. ScrGestures'
  BY GesturesLetGo DEF ScrInv, Scr!TypeOK, ScrGestures, Scr!Looked, Scr!Set, Scr!Drop, Scr!Hangup, Scr!Connects, Scr!DoesNotConnect, Scr!Ends, Scr!Again, Scr!Black, Scr!Sees, Scr!Settled, Scr!Asked
<1>4. Scr!NothingStuck'
  <2>1. CASE down' = {}
    BY <2>1, StuckDrop
  <2>2. CASE down' # {}
    <3>1. /\ serving' = serving /\ down' \subseteq down
          /\ \A e \in Drivers : torn[e] => torn'[e]
          /\ \A e \in Drivers : torn'[e] \/ scrleft'[e] = scrleft[e] \/ scrleft[e] = <<>>
      BY <2>2 DEF ScrInv, Scr!TypeOK, ScrGestures, Scr!Looked, Scr!Set, Scr!Drop, Scr!Hangup, Scr!Connects, Scr!DoesNotConnect, Scr!Ends, Scr!Again, Scr!Black, Scr!Sees, Scr!Settled, Scr!Asked
    <3> QED
      BY <1>1, <3>1, StuckFrame
  <2> QED
    BY <2>1, <2>2
<1> QED
  BY <1>1, <1>2, <1>3, <1>4 DEF ScrInv

LEMMA ScrNotFoundKeeps == ASSUME ScrInv, NEW d \in Drivers, Scr!NotFound(d) PROVE ScrInv'
<1>1. Scr!TypeOK'
  BY ScrNotFoundTypes
<1>2. ScrFresh' /\ Scr!ClicksHit'
  BY ScrNotFoundTypes
<1>3. ScrGestures'
  BY GesturesLetGo DEF ScrInv, Scr!TypeOK, ScrGestures, Scr!NotFound, Scr!Set, Scr!Drop, Scr!Hangup, Scr!Connects, Scr!DoesNotConnect, Scr!Ends, Scr!Again, Scr!Black, Scr!Sees, Scr!Settled, Scr!Asked
<1>4. Scr!NothingStuck'
  <2>1. CASE down' = {}
    BY <2>1, StuckDrop
  <2>2. CASE down' # {}
    <3>1. /\ serving' = serving /\ down' \subseteq down
          /\ \A e \in Drivers : torn[e] => torn'[e]
          /\ \A e \in Drivers : torn'[e] \/ scrleft'[e] = scrleft[e] \/ scrleft[e] = <<>>
      BY <2>2 DEF ScrInv, Scr!TypeOK, ScrGestures, Scr!NotFound, Scr!Set, Scr!Drop, Scr!Hangup, Scr!Connects, Scr!DoesNotConnect, Scr!Ends, Scr!Again, Scr!Black, Scr!Sees, Scr!Settled, Scr!Asked
    <3> QED
      BY <1>1, <3>1, StuckFrame
  <2> QED
    BY <2>1, <2>2
<1> QED
  BY <1>1, <1>2, <1>3, <1>4 DEF ScrInv

LEMMA ScrMovesKeeps == ASSUME ScrInv, NEW d \in Drivers, Scr!Moves(d) PROVE ScrInv'
<1>1. Scr!TypeOK'
  BY ScrMovesTypes
<1>2. ScrFresh' /\ Scr!ClicksHit'
  BY HostAssumption DEF ScrInv, Scr!TypeOK, ScrFresh, Scr!ClicksHit, Scr!Moves, Scr!Set, Scr!Drop, Scr!Hangup, Scr!Connects, Scr!DoesNotConnect, Scr!Ends, Scr!Again, Scr!Black, Scr!Sees, Scr!Settled, Scr!Asked
<1>3. ScrGestures'
  BY GesturesLetGo DEF ScrInv, Scr!TypeOK, ScrGestures, Scr!Moves, Scr!Set, Scr!Drop, Scr!Hangup, Scr!Connects, Scr!DoesNotConnect, Scr!Ends, Scr!Again, Scr!Black, Scr!Sees, Scr!Settled, Scr!Asked
<1>4. Scr!NothingStuck'
  <2>1. CASE down' = {}
    BY <2>1, StuckDrop
  <2>2. CASE down' # {}
    <3>1. /\ serving' = serving /\ down' \subseteq down
          /\ \A e \in Drivers : torn[e] => torn'[e]
          /\ \A e \in Drivers : torn'[e] \/ scrleft'[e] = scrleft[e] \/ scrleft[e] = <<>>
      BY <2>2 DEF ScrInv, Scr!TypeOK, ScrGestures, Scr!Moves, Scr!Set, Scr!Drop, Scr!Hangup, Scr!Connects, Scr!DoesNotConnect, Scr!Ends, Scr!Again, Scr!Black, Scr!Sees, Scr!Settled, Scr!Asked
    <3> QED
      BY <1>1, <3>1, StuckFrame
  <2> QED
    BY <2>1, <2>2
<1> QED
  BY <1>1, <1>2, <1>3, <1>4 DEF ScrInv

LEMMA ScrAimsKeeps == ASSUME ScrInv, NEW d \in Drivers, Scr!Aims(d) PROVE ScrInv'
<1>1. Scr!TypeOK'
  BY ScrAimsTypes
<1>2. ScrFresh' /\ Scr!ClicksHit'
  BY HostAssumption DEF ScrInv, Scr!TypeOK, ScrFresh, Scr!ClicksHit, Scr!Aims, Scr!Set, Scr!Drop, Scr!Hangup, Scr!Connects, Scr!DoesNotConnect, Scr!Ends, Scr!Again, Scr!Black, Scr!Sees, Scr!Settled, Scr!Asked
<1>3. ScrGestures'
  BY GesturesLetGo DEF ScrInv, Scr!TypeOK, ScrGestures, Scr!Aims, Scr!Set, Scr!Drop, Scr!Hangup, Scr!Connects, Scr!DoesNotConnect, Scr!Ends, Scr!Again, Scr!Black, Scr!Sees, Scr!Settled, Scr!Asked
<1>4. Scr!NothingStuck'
  <2>1. CASE down' = {}
    BY <2>1, StuckDrop
  <2>2. CASE down' # {}
    <3>1. /\ serving' = serving /\ down' \subseteq down
          /\ \A e \in Drivers : torn[e] => torn'[e]
          /\ \A e \in Drivers : torn'[e] \/ scrleft'[e] = scrleft[e] \/ scrleft[e] = <<>>
      BY <2>2 DEF ScrInv, Scr!TypeOK, ScrGestures, Scr!Aims, Scr!Set, Scr!Drop, Scr!Hangup, Scr!Connects, Scr!DoesNotConnect, Scr!Ends, Scr!Again, Scr!Black, Scr!Sees, Scr!Settled, Scr!Asked
    <3> QED
      BY <1>1, <3>1, StuckFrame
  <2> QED
    BY <2>1, <2>2
<1> QED
  BY <1>1, <1>2, <1>3, <1>4 DEF ScrInv

LEMMA ScrSendsKeeps == ASSUME ScrInv, NEW d \in Drivers, Scr!Sends(d) PROVE ScrInv'
<1>1. Scr!TypeOK'
  BY ScrSendsTypes
<1>2. ScrFresh' /\ Scr!ClicksHit'
  BY HostAssumption DEF ScrInv, Scr!TypeOK, ScrFresh, Scr!ClicksHit, Scr!Sends, Scr!Set, Scr!Drop, Scr!Hangup, Scr!Connects, Scr!DoesNotConnect, Scr!Ends, Scr!Again, Scr!Black, Scr!Sees, Scr!Settled, Scr!Asked
<1>3. /\ scrleft[d] \in Seq(Events) /\ scrleft[d] # <<>> /\ LetsGo(scrleft[d])
      /\ scrleft' = [scrleft EXCEPT ![d] = Tail(scrleft[d])] /\ scrleft \in [Drivers -> Seq(Events)]
      /\ UNCHANGED <<scrat, serving, torn>>
  BY DEF ScrInv, Scr!TypeOK, ScrGestures, Scr!Sends, Scr!Set, Events, Keys
<1> DEFINE g == scrleft[d]
<1>4. /\ Tail(g) \in Seq(Events) /\ Head(g) \in Events /\ LetsGo(Tail(g))
      /\ \A k \in Keys : (\E i \in 1 .. Len(g) : g[i] = Scr!Up(k)) =>
            Head(g) = Scr!Up(k) \/ \E i \in 1 .. Len(Tail(g)) : Tail(g)[i] = Scr!Up(k)
      /\ \A k \in Keys : Head(g) = Scr!Down(k) => \E i \in 1 .. Len(Tail(g)) : Tail(g)[i] = Scr!Up(k)
  BY <1>3, TailLetsGo
<1>5. ScrGestures'
  BY <1>3, <1>4 DEF ScrInv, ScrGestures, Scr!Sends
<1>6. Scr!NothingStuck'
  <2>1. CASE serving # d
    <3> SUFFICES ASSUME NEW k \in down
                 PROVE  /\ serving # Nobody
                        /\ torn[serving] \/ \E i \in DOMAIN scrleft'[serving] : scrleft'[serving][i] = Scr!Up(k)
      BY <1>3, <2>1 DEF Scr!NothingStuck, Scr!Up, Scr!Sends
    <3>1. serving # Nobody /\ (torn[serving] \/ \E i \in DOMAIN scrleft[serving] : scrleft[serving][i] = Scr!Up(k))
      BY DEF ScrInv, Scr!NothingStuck
    <3>2. scrleft'[serving] = scrleft[serving]
      BY <1>3, <2>1, <3>1 DEF ScrInv, Scr!TypeOK
    <3> QED
      BY <3>1, <3>2
  <2>2. CASE serving = d
    <3> SUFFICES ASSUME NEW k \in down'
                 PROVE  /\ serving # Nobody
                        /\ torn[serving] \/ \E i \in DOMAIN Tail(g) : Tail(g)[i] = Scr!Up(k)
      BY <1>3, <2>2 DEF Scr!NothingStuck, Scr!Up
    <3>1. d # Nobody
      BY HostAssumption
    <3>2. DOMAIN Tail(g) = 1 .. Len(Tail(g)) /\ DOMAIN g = 1 .. Len(g)
      BY <1>3, <1>4
    <3>3. k \in Keys
      BY <1>1 DEF Scr!TypeOK, Keys
    <3>4. Head(g).key \in Keys /\ (IF Head(g).down THEN Head(g) = Scr!Down(Head(g).key) ELSE Head(g) = Scr!Up(Head(g).key))
      BY <1>4, EventIs
    <3>5. k \in (IF Head(g).down THEN down \cup {Head(g).key} ELSE down \ {Head(g).key})
      BY <2>2 DEF Scr!Sends, Scr!Apply
    <3>6. CASE k \in down /\ Head(g) # Scr!Up(k)
      <4>1. torn[d] \/ \E i \in DOMAIN g : g[i] = Scr!Up(k)
        BY <2>2, <3>6 DEF ScrInv, Scr!NothingStuck
      <4> QED
        BY <4>1, <3>1, <3>2, <3>3, <3>6, <2>2, <1>4
    <3>7. CASE k \notin down
      <4>1. Head(g) = Scr!Down(k)
        BY <3>4, <3>5, <3>7
      <4> QED
        BY <4>1, <3>1, <3>2, <3>3, <2>2, <1>4
    <3>8. CASE k \in down /\ Head(g) = Scr!Up(k)
      BY <3>3, <3>5, <3>8, EventOf
    <3> QED
      BY <3>6, <3>7, <3>8
  <2> QED
    BY <2>1, <2>2
<1> QED
  BY <1>1, <1>2, <1>5, <1>6 DEF ScrInv

LEMMA ScrSendFailsKeeps == ASSUME ScrInv, NEW d \in Drivers, Scr!SendFails(d) PROVE ScrInv'
<1>1. Scr!TypeOK'
  BY ScrSendFailsTypes
<1>2. ScrFresh' /\ Scr!ClicksHit'
  BY ScrSendFailsTypes
<1>3. ScrGestures'
  BY GesturesLetGo DEF ScrInv, Scr!TypeOK, ScrGestures, Scr!SendFails, Scr!Set, Scr!Drop, Scr!Hangup, Scr!Connects, Scr!DoesNotConnect, Scr!Ends, Scr!Again, Scr!Black, Scr!Sees, Scr!Settled, Scr!Asked
<1>4. Scr!NothingStuck'
  <2>1. CASE down' = {}
    BY <2>1, StuckDrop
  <2>2. CASE down' # {}
    <3>1. /\ serving' = serving /\ down' \subseteq down
          /\ \A e \in Drivers : torn[e] => torn'[e]
          /\ \A e \in Drivers : torn'[e] \/ scrleft'[e] = scrleft[e] \/ scrleft[e] = <<>>
      BY <2>2 DEF ScrInv, Scr!TypeOK, ScrGestures, Scr!SendFails, Scr!Set, Scr!Drop, Scr!Hangup, Scr!Connects, Scr!DoesNotConnect, Scr!Ends, Scr!Again, Scr!Black, Scr!Sees, Scr!Settled, Scr!Asked
    <3> QED
      BY <1>1, <3>1, StuckFrame
  <2> QED
    BY <2>1, <2>2
<1> QED
  BY <1>1, <1>2, <1>3, <1>4 DEF ScrInv

LEMMA ScrSentKeeps == ASSUME ScrInv, NEW d \in Drivers, Scr!Sent(d) PROVE ScrInv'
<1>1. Scr!TypeOK'
  BY ScrSentTypes
<1>2. ScrFresh' /\ Scr!ClicksHit'
  BY ScrSentTypes
<1>3. ScrGestures'
  BY GesturesLetGo DEF ScrInv, Scr!TypeOK, ScrGestures, Scr!Sent, Scr!Set, Scr!Drop, Scr!Hangup, Scr!Connects, Scr!DoesNotConnect, Scr!Ends, Scr!Again, Scr!Black, Scr!Sees, Scr!Settled, Scr!Asked
<1>4. Scr!NothingStuck'
  <2>1. CASE down' = {}
    BY <2>1, StuckDrop
  <2>2. CASE down' # {}
    <3>1. /\ serving' = serving /\ down' \subseteq down
          /\ \A e \in Drivers : torn[e] => torn'[e]
          /\ \A e \in Drivers : torn'[e] \/ scrleft'[e] = scrleft[e] \/ scrleft[e] = <<>>
      BY <2>2 DEF ScrInv, Scr!TypeOK, ScrGestures, Scr!Sent, Scr!Set, Scr!Drop, Scr!Hangup, Scr!Connects, Scr!DoesNotConnect, Scr!Ends, Scr!Again, Scr!Black, Scr!Sees, Scr!Settled, Scr!Asked
    <3> QED
      BY <1>1, <3>1, StuckFrame
  <2> QED
    BY <2>1, <2>2
<1> QED
  BY <1>1, <1>2, <1>3, <1>4 DEF ScrInv

LEMMA ScrStep == ScrInv /\ [Scr!Next]_screenvars => ScrInv'
<1> SUFFICES ASSUME ScrInv, [Scr!Next]_screenvars PROVE ScrInv'
  OBVIOUS
<1>1. CASE Scr!Next
  BY <1>1, ScrChangesKeeps, ScrLosesKeeps, ScrDialKeeps, ScrBeginKeeps, ScrCloseKeeps, ScrCancelKeeps,
     ScrRedialKeeps, ScrCapturesKeeps, ScrCapturesNothingKeeps, ScrCaptureFailsKeeps, ScrFoundKeeps,
     ScrLookedKeeps, ScrNotFoundKeeps, ScrMovesKeeps, ScrAimsKeeps, ScrSendsKeeps,
     ScrSendFailsKeeps, ScrSentKeeps DEF Scr!Next
<1>2. CASE UNCHANGED screenvars
  BY <1>2 DEF screenvars, ScrInv, Scr!TypeOK, ScrFresh, Scr!ClicksHit, Scr!NothingStuck, ScrGestures
<1> QED
  BY <1>1, <1>2

(* However many drivers share a screen: what one looks at is the screen      *)
(* since it connected, its click goes to where the text is while the screen  *)
(* does not change, and what it presses it lets go of, or it knows that it   *)
(* broke off (captureWithRetry, clickOnText, clickLocked, typeRune).         *)
THEOREM ScreensAreSafe == RunsSpec => []Scr!ScreenSafe
<1>1. RunsInit => ScrInv
  <2>1. Scr!Init => ScrInv
    <3> SUFFICES ASSUME Scr!Init PROVE ScrInv
      OBVIOUS
    <3>1. scrleft \in [Drivers -> Seq([key : {"shift", "key", "button"}, down : BOOLEAN])]
      BY DEF Scr!Init
    <3>2. Scr!TypeOK
      BY <3>1, HostAssumption DEF Scr!Init, Scr!TypeOK, Scr!Black
    <3> QED
      BY <3>2, GesturesLetGo, HostAssumption
         DEF Scr!Init, ScrInv, ScrFresh, Scr!ClicksHit, Scr!NothingStuck, ScrGestures, Scr!Black
  <2> QED
    BY <2>1 DEF RunsInit
<1>2. ScrInv /\ [RunsNext]_runsvars => ScrInv'
  BY ScrStep DEF RunsNext, runsvars
<1>3. ScrInv => Scr!ScreenSafe
  BY DEF ScrInv, Scr!ScreenSafe, Scr!FramesFresh, ScrFresh, Scr!Black
<1> QED
  BY <1>1, <1>2, <1>3, PTL DEF RunsSpec

-----------------------------------------------------------------------------
(* McpServer                                                               *)

LEMMA McpStep == Mcp!McpSafe /\ [Mcp!Next]_mcpvars => Mcp!McpSafe'
<1> SUFFICES ASSUME Mcp!McpSafe, [Mcp!Next]_mcpvars PROVE Mcp!McpSafe'
  OBVIOUS
<1> USE DEF Mcp!McpSafe, Mcp!TypeOK, Mcp!FramesOnly
<1>1. CASE Mcp!ServeMCP
  BY <1>1 DEF Mcp!ServeMCP
<1>2. CASE Mcp!CallTool
  BY <1>2 DEF Mcp!CallTool
<1>3. CASE Mcp!ToolPrints
  BY <1>3 DEF Mcp!ToolPrints
<1>4. CASE Mcp!ToolEnds
  BY <1>4 DEF Mcp!ToolEnds
<1>5. CASE Mcp!MCPEnds
  BY <1>5 DEF Mcp!MCPEnds
<1>6. CASE Mcp!ProcessEnds
  BY <1>6 DEF Mcp!ProcessEnds
<1>7. CASE UNCHANGED mcpvars
  BY <1>7 DEF mcpvars
<1> QED
  BY <1>1, <1>2, <1>3, <1>4, <1>5, <1>6, <1>7 DEF Mcp!Next

(* However many calls: nothing a tool prints comes out among the messages    *)
(* (RunMCPServer).                                                           *)
THEOREM McpIsSafe == RunsSpec => []Mcp!McpSafe
<1>1. RunsInit => Mcp!McpSafe
  <2>1. Mcp!Init => Mcp!McpSafe
    <3>1. Mcp!Init => ~stray /\ stray \in BOOLEAN
      BY Zenon DEF Mcp!Init
    <3> QED
      BY <3>1 DEF Mcp!Init, Mcp!McpSafe, Mcp!TypeOK, Mcp!FramesOnly
  <2> QED
    BY <2>1 DEF RunsInit
<1>2. Mcp!McpSafe /\ [RunsNext]_runsvars => Mcp!McpSafe'
  BY McpStep DEF RunsNext, runsvars
<1> QED
  BY <1>1, <1>2, PTL DEF RunsSpec

-----------------------------------------------------------------------------
(* Setup                                                                   *)

(* The connection is a setup's that has dialled; what a step is of.         *)
SetForm ==
    /\ setstep \in {"idle", "start", "url", "boot", "done"} => linked = "none"
    /\ setstep \in {"commands", "health", "ssh"} => mode = "preset"
    /\ setstep \in {"look", "ask", "act"} => mode = "agent"
    /\ setstep \in {"start", "url", "boot", "commands", "health"} => posted = 0

(* The agent's conversation: the model and the user in turns, a result under *)
(* the turn it is of; before the result, one more than is kept.              *)
Talk ==
    setstep \in {"ask", "act"} =>
        /\ messages[1] = Unattended!User(0)
        /\ Len(messages) % 2 = (IF setstep = "ask" THEN 1 ELSE 0)
        /\ Len(messages) >= 1 /\ Len(messages) <= (IF setstep = "ask" THEN Kept + 1 ELSE Kept + 2)
        /\ setstep = "act" => messages[Len(messages)].turn = turn
        /\ \A i \in 1 .. Len(messages) :
              /\ messages[i].by = (IF i % 2 = 1 THEN "user" ELSE "assistant")
              /\ i > 1 /\ i % 2 = 1 => messages[i].turn = messages[i - 1].turn

SetupInv == Unattended!TypeOK /\ Unattended!OwnMachine /\ Unattended!Finished /\ SetForm /\ Talk

LEMMA Parity ==
    /\ \A n \in Nat : n % 2 = 0 \/ n % 2 = 1
    /\ \A n \in Nat : n % 2 = 1 => (n + 1) % 2 = 0
    /\ \A n \in Nat : n % 2 = 0 => (n + 1) % 2 = 1
    /\ \A n \in Nat : n >= 1 /\ n % 2 = 1 => (n - 1) % 2 = 0
    /\ \A n, k \in Nat : k % 2 = 0 => (n + k) % 2 = n % 2
BY SMT

LEMMA TalkedHistory == Unattended!TypeOK /\ Talk => Unattended!History
<1> SUFFICES ASSUME Unattended!TypeOK, Talk, setstep = "ask" PROVE Unattended!History
  BY DEF Unattended!History
<1>1. Len(messages) \in Nat /\ Kept \in Nat
  BY SetupAssumption DEF Unattended!TypeOK
<1>2. \A i \in 2 .. Len(messages) :
         \/ messages[i].by = "assistant" /\ messages[i - 1].by = "user"
         \/ /\ messages[i].by = "user" /\ messages[i - 1].by = "assistant"
            /\ messages[i].turn = messages[i - 1].turn
  <2> SUFFICES ASSUME NEW i \in 2 .. Len(messages)
               PROVE  \/ messages[i].by = "assistant" /\ messages[i - 1].by = "user"
                      \/ /\ messages[i].by = "user" /\ messages[i - 1].by = "assistant"
                         /\ messages[i].turn = messages[i - 1].turn
    OBVIOUS
  <2>1. i \in 1 .. Len(messages) /\ i - 1 \in 1 .. Len(messages) /\ i > 1
    BY <1>1
  <2>2. i % 2 = 1 <=> (i - 1) % 2 # 1
    BY <2>1
  <2> QED
    BY <2>1, <2>2 DEF Talk
<1>3. messages[Len(messages)].by = "user"
  BY <1>1 DEF Talk
<1> QED
  BY <1>1, <1>2, <1>3 DEF Talk, Unattended!History

LEMMA RememberedTalk ==
    ASSUME NEW S, NEW m \in Seq(S), Len(m) % 2 = 1, 1 <= Len(m), Len(m) <= Kept + 3
    PROVE  LET r == Unattended!Remembers(m)
               k == Len(m) - Len(r)
           IN  /\ r \in Seq(S)
               /\ Len(r) \in Nat /\ Len(r) <= Kept + 1 /\ Len(r) % 2 = 1 /\ 1 <= Len(r)
               /\ k \in Nat /\ k % 2 = 0
               /\ r[1] = m[1]
               /\ \A i \in 2 .. Len(r) : r[i] = m[i + k]
<1> DEFINE r == Unattended!Remembers(m)
           s == SubSeq(m, Len(m) - Kept + 1, Len(m))
           k == Len(m) - Len(r)
<1>0. Kept \in Nat /\ Kept % 2 = 0 /\ Len(m) \in Nat
  BY SetupAssumption
<1>1. CASE Len(m) > Kept + 1
  <2>1. Len(m) = Kept + 3
    BY <1>0, <1>1
  <2>2. s = SubSeq(m, 4, Kept + 3)
    BY <2>1, <1>0
  <2>3. s \in Seq(S) /\ Len(s) = Kept /\ \A i \in 1 .. Kept : s[i] = m[i + 3]
    BY <2>2, <2>1, <1>0
  <2>4. <<m[1]>> \in Seq(S) /\ Len(<<m[1]>>) = 1 /\ <<m[1]>>[1] = m[1]
    BY <1>0
  <2>5. r = <<m[1]>> \o s
    BY <1>1 DEF Unattended!Remembers
  <2>6. Len(r) = Kept + 1 /\ r \in Seq(S) /\ r[1] = m[1]
    <3> HIDE DEF s, r
    <3> QED
      BY <2>3, <2>4, <2>5, <1>0
  <2>7. \A i \in 2 .. Len(r) : r[i] = m[i + 2]
    <3> HIDE DEF r
    <3> SUFFICES ASSUME NEW i \in 2 .. Len(r) PROVE r[i] = m[i + 2]
      OBVIOUS
    <3>1. i - 1 \in 1 .. Kept /\ (i - 1) + 3 = i + 2 /\ i # 1
      BY <2>6, <1>0
    <3>2. r[i] = s[i - 1]
      <4> HIDE DEF s
      <4> QED
        BY <2>3, <2>4, <2>5, <3>1, <1>0
    <3> QED
      BY <3>1, <3>2, <2>3
  <2>8. k = 2
    <3> HIDE DEF r
    <3> QED
      BY <2>1, <2>6, <1>0
  <2> QED
    <3> HIDE DEF r, k
    <3>1. Kept + 1 >= 1 /\ (Kept + 1) % 2 = 1 /\ Kept + 1 \in Nat
      BY <1>0
    <3>2. 2 % 2 = 0
      OBVIOUS
    <3> QED
      BY <2>6, <2>7, <2>8, <3>1, <3>2 DEF r, k
<1>2. CASE ~(Len(m) > Kept + 1)
  <2>1. r = m
    BY <1>2 DEF Unattended!Remembers
  <2> QED
    BY <2>1, <1>0, <1>2
<1> QED
  BY <1>1, <1>2

LEMMA SetupStep == SetupInv /\ [Unattended!Next]_setupvars => SetupInv'
<1> SUFFICES ASSUME SetupInv, [Unattended!Next]_setupvars PROVE SetupInv'
  OBVIOUS
<1>0. {Boots, Probes, Posts, Turns, Kept} \subseteq Nat
  BY SetupAssumption
<1> USE DEF SetupInv, Unattended!TypeOK, Unattended!OwnMachine, Unattended!Finished, SetForm, Talk, Unattended!Ends
<1>1. CASE Unattended!OtherRuns
  BY <1>0, <1>1 DEF Unattended!OtherRuns
<1>2. CASE Unattended!OtherEnds
  BY <1>0, <1>2 DEF Unattended!OtherEnds
<1>3. CASE Unattended!ChildServes
  BY <1>0, <1>3 DEF Unattended!ChildServes
<1>4. CASE Unattended!ChildEnds
  BY <1>0, <1>4 DEF Unattended!ChildEnds
<1>5. CASE Unattended!Begin
  BY <1>0, <1>5 DEF Unattended!Begin
<1>6. CASE Unattended!StartVM
  BY <1>0, <1>6 DEF Unattended!StartVM
<1>7. CASE Unattended!URLPrinted
  BY <1>0, <1>7 DEF Unattended!URLPrinted
<1>8. CASE Unattended!Dial
  BY <1>0, <1>8 DEF Unattended!Dial
<1>9. CASE Unattended!Fails
  BY <1>0, <1>9 DEF Unattended!Fails
<1>10. CASE Unattended!Command
  BY <1>0, <1>10 DEF Unattended!Command
<1>11. CASE Unattended!Completed
  BY <1>0, <1>11 DEF Unattended!Completed
<1>12. CASE Unattended!ProbeFails
  <2>1. probed' \in [tries : Nat, passed : BOOLEAN] /\ (probed.passed => probed'.passed)
    BY <1>12 DEF Unattended!ProbeFails
  <2> QED
    BY <1>12, <2>1 DEF Unattended!ProbeFails
<1>13. CASE Unattended!ProbePasses
  <2>1. probed' \in [tries : Nat, passed : BOOLEAN] /\ (probed.passed => probed'.passed)
    BY <1>13 DEF Unattended!ProbePasses
  <2> QED
    BY <1>13, <2>1 DEF Unattended!ProbePasses
<1>14. CASE Unattended!PostCommand
  BY <1>0, <1>14 DEF Unattended!PostCommand
<1>15. CASE Unattended!Finishes
  BY <1>0, <1>15 DEF Unattended!Finishes
<1>16. CASE Unattended!AgentFinishes
  BY <1>0, <1>16 DEF Unattended!AgentFinishes
<1>17. CASE Unattended!Again
  BY <1>0, <1>17 DEF Unattended!Again
<1>18. CASE Unattended!FirstLook
  <2>1. messages' = <<Unattended!User(0)>> /\ Len(messages') = 1 /\ messages'[1] = Unattended!User(0) /\ 1 <= Kept + 1
    BY <1>0, <1>18 DEF Unattended!FirstLook
  <2>2. Unattended!User(0).by = "user" /\ Unattended!User(0) \in [by : {"user", "assistant"}, turn : Nat]
    BY DEF Unattended!User
  <2> QED
    BY <2>1, <2>2, <1>18 DEF Unattended!FirstLook
<1>19. CASE Unattended!Answers
  <2> DEFINE m == Unattended!Assistant(turn + 1)
             n == Len(messages)
  <2>1. /\ m \in [by : {"user", "assistant"}, turn : Nat]
        /\ m.by = "assistant" /\ m.turn = turn + 1
    BY DEF Unattended!Assistant
  <2>2. /\ messages' = Append(messages, m) /\ turn' = turn + 1 /\ setstep' = "act" /\ setstep = "ask"
        /\ UNCHANGED <<mode, holder, setchild, linked, booted, probed, posted, viewer>>
    BY <1>19 DEF Unattended!Answers
  <2>3. /\ n \in Nat /\ n % 2 = 1 /\ n <= Kept + 1 /\ n >= 1
        /\ messages[1] = Unattended!User(0)
        /\ \A i \in 1 .. n :
              /\ messages[i].by = (IF i % 2 = 1 THEN "user" ELSE "assistant")
              /\ i > 1 /\ i % 2 = 1 => messages[i].turn = messages[i - 1].turn
    BY <2>2
  <2> HIDE DEF m
  <2>4. /\ messages' \in Seq([by : {"user", "assistant"}, turn : Nat]) /\ Len(messages') = n + 1
        /\ messages'[n + 1] = m /\ \A i \in 1 .. n : messages'[i] = messages[i]
    BY <2>1, <2>2
  <2> HIDE DEF n
  <2>5. /\ (n + 1) % 2 = 0 /\ n + 1 <= Kept + 2 /\ n >= 1
        /\ 1 \in 1 .. n /\ n + 1 \in Nat
    <3> HIDE DEF SetupInv, Talk, Unattended!TypeOK, Unattended!OwnMachine, Unattended!Finished, SetForm
    <3> QED
      BY <2>3, <1>0, Parity
  <2>6. Talk'
    <3> HIDE DEF SetupInv, Talk, Unattended!TypeOK, Unattended!OwnMachine, Unattended!Finished, SetForm
    <3>1. messages'[1] = Unattended!User(0)
      BY <2>3, <2>4, <2>5
    <3>2. ASSUME NEW i \in 1 .. (n + 1)
          PROVE  /\ messages'[i].by = (IF i % 2 = 1 THEN "user" ELSE "assistant")
                 /\ i > 1 /\ i % 2 = 1 => messages'[i].turn = messages'[i - 1].turn
      <4>1. CASE i = n + 1
        BY <4>1, <2>1, <2>4, <2>5
      <4>2. CASE i \in 1 .. n
        <5>1. i > 1 => i - 1 \in 1 .. n
          BY <4>2, <2>3
        <5> QED
          BY <4>2, <5>1, <2>3, <2>4
      <4> QED
        BY <4>1, <4>2, <2>3
    <3>3. messages'[Len(messages')].turn = turn' /\ Len(messages') >= 1
      BY <2>1, <2>2, <2>4, <2>5
    <3> QED
      BY <3>1, <3>2, <3>3, <2>2, <2>4, <2>5 DEF Talk
  <2> QED
    <3> HIDE DEF Talk
    <3> QED
      BY <2>2, <2>4, <2>6
<1>20. CASE Unattended!Acts
  <2> DEFINE u == Unattended!User(turn)
             n == Len(messages)
             a == Append(messages, u)
             r == Unattended!Remembers(a)
             k == Len(a) - Len(r)
  <2>1. /\ u \in [by : {"user", "assistant"}, turn : Nat]
        /\ u.by = "user" /\ u.turn = turn
    BY DEF Unattended!User
  <2>2. /\ messages' = r /\ setstep = "act" /\ setstep' = "ask"
        /\ UNCHANGED <<mode, holder, setchild, linked, booted, probed, posted, turn, viewer>>
    BY <1>20 DEF Unattended!Acts
  <2>3. /\ n \in Nat /\ n % 2 = 0 /\ n <= Kept + 2 /\ n >= 1
        /\ messages[1] = Unattended!User(0)
        /\ messages[n].turn = turn
        /\ \A i \in 1 .. n :
              /\ messages[i].by = (IF i % 2 = 1 THEN "user" ELSE "assistant")
              /\ i > 1 /\ i % 2 = 1 => messages[i].turn = messages[i - 1].turn
    BY <2>2
  <2> HIDE DEF u
  <2>4. /\ a \in Seq([by : {"user", "assistant"}, turn : Nat]) /\ Len(a) = n + 1
        /\ a[n + 1] = u /\ \A i \in 1 .. n : a[i] = messages[i]
    BY <2>1
  <2> HIDE DEF n, a
  <2>5. /\ (n + 1) % 2 = 1 /\ n + 1 <= Kept + 3 /\ n + 1 \in Nat
        /\ 1 \in 1 .. n
    <3> HIDE DEF SetupInv, Talk, Unattended!TypeOK, Unattended!OwnMachine, Unattended!Finished, SetForm
    <3> QED
      BY <2>3, <1>0, Parity
  <2>6. /\ a \in Seq([by : {"user", "assistant"}, turn : Nat])
        /\ Len(a) % 2 = 1 /\ 1 <= Len(a) /\ Len(a) <= Kept + 3
    BY <2>3, <2>4, <2>5
  <2>7. /\ r \in Seq([by : {"user", "assistant"}, turn : Nat])
        /\ Len(r) \in Nat /\ Len(r) <= Kept + 1 /\ Len(r) % 2 = 1 /\ 1 <= Len(r)
        /\ k \in Nat /\ k % 2 = 0
        /\ r[1] = a[1]
        /\ \A i \in 2 .. Len(r) : r[i] = a[i + k]
    BY <2>6, RememberedTalk
  <2> HIDE DEF SetupInv, Talk, Unattended!TypeOK, Unattended!OwnMachine, Unattended!Finished, SetForm
  <2>8. ASSUME NEW i \in 1 .. (n + 1)
        PROVE  /\ a[i].by = (IF i % 2 = 1 THEN "user" ELSE "assistant")
               /\ i > 1 /\ i % 2 = 1 => a[i].turn = a[i - 1].turn
    <3>1. CASE i = n + 1
      BY <3>1, <2>1, <2>3, <2>4, <2>5
    <3>2. CASE i \in 1 .. n
      <4>1. i > 1 => i - 1 \in 1 .. n
        BY <3>2, <2>3
      <4> QED
        BY <3>2, <4>1, <2>3, <2>4
    <3> QED
      BY <3>1, <3>2, <2>3
  <2>9. Talk'
    <3> HIDE DEF r, k
    <3>1. messages'[1] = Unattended!User(0)
      BY <2>2, <2>3, <2>4, <2>5, <2>7
    <3>2. ASSUME NEW i \in 1 .. Len(messages')
          PROVE  /\ messages'[i].by = (IF i % 2 = 1 THEN "user" ELSE "assistant")
                 /\ i > 1 /\ i % 2 = 1 => messages'[i].turn = messages'[i - 1].turn
      <4>1. k + Len(r) = n + 1
        <5>1. k = (n + 1) - Len(r)
          BY <2>4 DEF k
        <5> QED
          BY <5>1, <2>3, <2>7
      <4>2. CASE i = 1
        BY <4>2, <2>2, <2>5, <2>7, <2>8, <2>3
      <4>3. CASE i # 1
        <5>0. i \in 2 .. Len(r) /\ i \in Nat /\ i >= 1 /\ k \in Nat /\ Len(r) \in Nat
          BY <4>3, <2>2, <2>7
        <5>1. i + k \in 1 .. (n + 1) /\ i + k > 1
          BY <4>1, <5>0, <2>3
        <5>4. (i + k) % 2 = i % 2
          BY <5>0, <2>7, Parity
        <5>5. /\ messages'[i] = a[i + k]
              /\ a[i + k].by = (IF (i + k) % 2 = 1 THEN "user" ELSE "assistant")
          BY <5>0, <5>1, <2>2, <2>7, <2>8
        <5>2. CASE i % 2 = 0
          BY <5>2, <5>4, <5>5
        <5>3. CASE i % 2 # 0
          <6>1. i % 2 = 1
            BY <5>0, <5>3, Parity
          <6>2. i # 2
            <7>1. 2 % 2 = 0
              OBVIOUS
            <7> QED
              BY <7>1, <5>3
          <6>3. i - 1 \in 2 .. Len(r) /\ (i - 1) + k = (i + k) - 1
            BY <5>0, <6>2
          <6>4. messages'[i - 1] = a[(i + k) - 1]
            BY <6>3, <2>2, <2>7
          <6>5. a[i + k].turn = a[(i + k) - 1].turn
            BY <5>1, <5>4, <6>1, <2>8
          <6> QED
            BY <5>4, <5>5, <6>1, <6>4, <6>5
        <5> QED
          BY <5>2, <5>3
      <4> QED
        BY <4>2, <4>3
    <3> QED
      BY <3>1, <3>2, <2>2, <2>7 DEF Talk
  <2> QED
    <3> HIDE DEF r, k
    <3> QED
      BY <2>2, <2>7, <2>9 DEF SetupInv, Unattended!TypeOK, Unattended!OwnMachine, Unattended!Finished, SetForm
<1>21. CASE UNCHANGED setupvars
  BY <1>21 DEF setupvars
<1> QED
  BY <1>1, <1>2, <1>3, <1>4, <1>5, <1>6, <1>7, <1>8, <1>9, <1>10, <1>11, <1>12, <1>13, <1>14, <1>15, <1>16, <1>17, <1>18, <1>19, <1>20, <1>21 DEF Unattended!Next

(* However long a preset, a probe or a conversation is: the setup drives the *)
(* machine of its own child, says that it has finished when all was done,    *)
(* and sends the model a conversation that is whole where it was cut         *)
(* (StartVMWithVNC, RunUnattendedSetup, Run).                                *)
THEOREM SetupsAreSafe == RunsSpec => []Unattended!SetupSafe
<1>1. RunsInit => SetupInv
  <2>1. Unattended!Init => SetupInv
    <3> SUFFICES ASSUME Unattended!Init PROVE SetupInv
      OBVIOUS
    <3>1. viewer \in BOOLEAN /\ probed \in [tries : Nat, passed : BOOLEAN]
      BY DEF Unattended!Init
    <3>2. messages \in Seq([by : {"user", "assistant"}, turn : Nat])
      BY DEF Unattended!Init
    <3>3. /\ mode = "preset" /\ setstep = "idle"
          /\ holder = "nobody" /\ setchild = "none" /\ linked = "none"
          /\ booted = 0 /\ posted = 0 /\ turn = 0
      BY DEF Unattended!Init
    <3> QED
      BY <3>1, <3>2, <3>3 DEF SetupInv, Unattended!TypeOK, Unattended!OwnMachine, Unattended!Finished, SetForm, Talk
  <2> QED
    BY <2>1 DEF RunsInit
<1>2. SetupInv /\ [RunsNext]_runsvars => SetupInv'
  BY SetupStep DEF RunsNext, runsvars
<1>3. SetupInv => Unattended!SetupSafe
  BY TalkedHistory DEF SetupInv, Unattended!SetupSafe
<1> QED
  BY <1>1, <1>2, <1>3, PTL DEF RunsSpec

-----------------------------------------------------------------------------
(* What is beside a run is safe, for every number of command lines, VMs,     *)
(* displays, clients, servers, jobs, drivers, calls and turns: no helper,    *)
(* emulator or endpoint is left, keys and passwords reach their machine, and *)
(* answers are about what was asked.                                         *)
THEOREM HelpersAreSafe == RunsSpec => []HelpersSafe
<1>1. ASSUME Net!NetSafe, Emu!EmuSafe, Unattended!SetupSafe, Api!ApiSafe, Scr!ScreenSafe, Mcp!McpSafe
      PROVE  HelpersSafe
  BY <1>1 DEF HelpersSafe
<1> QED
  BY <1>1, NetworksAreSafe, EmulatorsAreSafe, SetupsAreSafe, ServersAreSafe, ScreensAreSafe, McpIsSafe, PTL
=============================================================================
