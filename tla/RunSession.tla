------------------------------ MODULE RunSession ------------------------------
(***************************************************************************)
(* One `weave run` and the runs after it: driveVM's loop restores or boots *)
(* the machine, waits for it, and rebuilds it for a revert to a snapshot.  *)
(* Beside it, live snapshots pause and resume the machine, a suspension    *)
(* pauses and saves it, and SIGINT cancels everything.                     *)
(*                                                                         *)
(* The data of a disk, and the memory of a machine, are the moment they    *)
(* are of. A machine that runs writes its disk: both go to a new moment.   *)
(***************************************************************************)
EXTENDS Naturals

CONSTANTS
    Snaps,          \* entries of the snapshots' index
    Clients,        \* clients of the snapshot socket
    LastMachine,    \* machines of one process: the bound on reverts
    Moments,        \* the bound on moments that are remembered at once
    None,
    Mixes           \* what may happen in a history

ASSUME ConstantsAssumption ==
    LastMachine \in Nat \ {0} /\ None \notin Moments /\ None \notin Snaps

VARIABLES
    pc,         \* driveVM's next step
    cur,        \* the machine c.vm
    mach,       \* the machines of the process: state, and the moment of the memory
    disk,       \* the moment of the disk image
    state,      \* the moment of the staged state file, if any
    run,        \* contexts, the semaphore of the machine, and reverts
    snaps,      \* the snapshots in the index
    client,     \* live snapshots being taken
    susp,       \* the SIGUSR1 goroutine, and the machine it suspends
    mix

vars == <<pc, cur, mach, disk, state, run, snaps, client, susp, mix>>

Machines == 1 .. LastMachine
Built == [st |-> "built", mem |-> None]
NoMachine == [st |-> "none", mem |-> None]
NoSnap == [disk |-> None, state |-> None]
ClientAt(step, vm, snap, got) == [pc |-> step, vm |-> vm, snap |-> snap, got |-> got]
NoClient == ClientAt("idle", 1, None, NoSnap)
NoSuspension == [pc |-> "idle", vm |-> 1]

Active(m) == mach[m].st \in {"running", "paused"}

(* Before vm.Run returns, and its outcome is claimed, reverts are accepted. *)
Accepting == {"boot", "unstage", "resume", "wait", "stop", "claim"}
Reverting == {"revert_disk", "revert_state", "rebuild"}

MachineStates == [st : {"none", "built", "running", "paused", "stopped"}, mem : Moments \cup {None}]
RunStates ==
    [stop : BOOLEAN, cancel : BOOLEAN, sema : BOOLEAN, live : BOOLEAN,
     ref : Snaps \cup {None}, target : Snaps \cup {None}]
Entries == [disk : Moments \cup {None}, state : Moments \cup {None}]
ClientStates ==
    [pc : {"idle", "clone", "save", "index", "resume"}, vm : Machines, snap : Snaps \cup {None}, got : Entries]

TypeOK ==
    /\ pc \in {"top", "exited"} \cup Accepting \cup Reverting
    /\ cur \in Machines
    /\ mach \in [Machines -> MachineStates]
    /\ disk \in Moments
    /\ state \in Moments \cup {None}
    /\ run \in RunStates
    /\ snaps \in [Snaps -> Entries]
    /\ client \in [Clients -> ClientStates]
    /\ susp \in [pc : {"idle", "save", "cancel"}, vm : Machines]
    /\ mix \in Mixes
    /\ run.live <=> pc \in Accepting
    /\ run.target # None <=> pc \in Reverting

-----------------------------------------------------------------------------
(* os.Exit, or the end of the process: its machines end with it. *)
Exit ==
    /\ pc' = "exited"
    /\ cur' = 1
    /\ mach' = [m \in Machines |-> NoMachine]
    /\ run' = [stop |-> FALSE, cancel |-> FALSE, sema |-> FALSE, live |-> FALSE, ref |-> None, target |-> None]
    /\ client' = [c \in Clients |-> NoClient]
    /\ susp' = NoSuspension

Exits == Exit /\ UNCHANGED <<disk, state, snaps, mix>>

(* The next run of the same VM. *)
Launch ==
    /\ pc = "exited"
    /\ pc' = "top"
    /\ mach' = [mach EXCEPT ![1] = Built]
    /\ UNCHANGED <<cur, disk, state, run, snaps, client, susp, mix>>

-----------------------------------------------------------------------------
(* driveVM *)

(* Faulty: the machine's context does not come from the run's. *)
TopDetached ==
    /\ pc = "top"
    /\ run' = [run EXCEPT !.cancel = FALSE, !.live = TRUE]
    /\ pc' = "boot"
    /\ UNCHANGED <<cur, mach, disk, state, snaps, client, susp, mix>>

Top ==
    /\ pc = "top"
    /\ run' = [run EXCEPT !.cancel = run.stop, !.live = TRUE]
    /\ pc' = "boot"
    /\ UNCHANGED <<cur, mach, disk, state, snaps, client, susp, mix>>

(* A restored machine is paused. *)
Restore ==
    /\ pc = "boot" /\ state # None
    /\ mach' = [mach EXCEPT ![cur] = [st |-> "paused", mem |-> state]]
    /\ pc' = "unstage"
    /\ UNCHANGED <<cur, disk, state, run, snaps, client, susp, mix>>

(* Faulty: the state file stays. *)
UnstageNot ==
    /\ pc = "unstage"
    /\ pc' = "resume"
    /\ UNCHANGED <<cur, mach, disk, state, run, snaps, client, susp, mix>>

Unstage ==
    /\ pc = "unstage"
    /\ state' = None
    /\ pc' = "resume"
    /\ UNCHANGED <<cur, mach, disk, run, snaps, client, susp, mix>>

Start ==
    /\ \/ pc = "boot" /\ state = None /\ mach' = [mach EXCEPT ![cur] = [st |-> "running", mem |-> disk]]
       \/ pc = "resume" /\ mach' = [mach EXCEPT ![cur].st = "running"]
    /\ pc' = "wait"
    /\ UNCHANGED <<cur, disk, state, run, snaps, client, susp, mix>>

(* Whatever cannot be restored, removed, started or rebuilt ends the run. *)
Fails == pc \in {"boot", "unstage", "resume", "revert_disk", "revert_state", "rebuild"} /\ Exits

(* vm.Run wakes; a machine that runs is stopped, if a context was cancelled. *)
RunWakes ==
    /\ pc = "wait" /\ (run.sema \/ run.cancel)
    /\ pc' = IF run.cancel /\ mach[cur].st = "running" THEN "stop" ELSE "claim"
    /\ UNCHANGED <<cur, mach, disk, state, run, snaps, client, susp, mix>>

(* Faulty: it is left running. *)
RunStopsNot ==
    /\ pc = "stop"
    /\ pc' = "claim"
    /\ UNCHANGED <<cur, mach, disk, state, run, snaps, client, susp, mix>>

RunStops ==
    /\ pc = "stop" /\ Active(cur)
    /\ mach' = [mach EXCEPT ![cur].st = "stopped"]
    /\ pc' = "claim"
    /\ UNCHANGED <<cur, disk, state, run, snaps, client, susp, mix>>

(* The guest ended by itself in between. *)
RunStopFails == pc = "stop" /\ ~Active(cur) /\ Exits

Claim ==
    /\ pc = "claim" /\ run.ref # None
    /\ run' = [run EXCEPT !.target = run.ref, !.ref = None, !.live = FALSE]
    /\ pc' = "revert_disk"
    /\ UNCHANGED <<cur, mach, disk, state, snaps, client, susp, mix>>

Ends == pc = "claim" /\ run.ref = None /\ Exits

RevertDisk ==
    /\ pc = "revert_disk" /\ snaps[run.target] # NoSnap
    /\ disk' = snaps[run.target].disk
    /\ pc' = "revert_state"
    /\ UNCHANGED <<cur, mach, state, run, snaps, client, susp, mix>>

RevertState ==
    /\ pc = "revert_state"
    /\ state' = snaps[run.target].state
    /\ pc' = "rebuild"
    /\ UNCHANGED <<cur, mach, disk, run, snaps, client, susp, mix>>

Rebuild ==
    /\ pc = "rebuild"
    /\ cur' = cur + 1
    /\ mach' = [mach EXCEPT ![cur + 1] = Built]
    /\ run' = [run EXCEPT !.target = None, !.sema = FALSE]
    /\ pc' = "top"
    /\ UNCHANGED <<disk, state, snaps, client, susp, mix>>

Drive ==
    \/ Top \/ Restore \/ Unstage \/ Start \/ Fails \/ RunWakes \/ RunStops \/ RunStopFails
    \/ Claim \/ Ends \/ RevertDisk \/ RevertState \/ Rebuild

-----------------------------------------------------------------------------
(* The machine, its network and the operator *)

Remembered ==
    {disk, state} \cup {mach[m].mem : m \in Machines}
    \cup UNION {{snaps[s].disk, snaps[s].state} : s \in Snaps}
    \cup UNION {{client[c].got.disk, client[c].got.state} : c \in Clients}

GuestWrites(m) ==
    /\ mach[m].st = "running" /\ Moments \ Remembered # {}
    /\ LET now == CHOOSE x \in Moments \ Remembered : TRUE
       IN  disk' = now /\ mach' = [mach EXCEPT ![m].mem = now]
    /\ UNCHANGED <<pc, cur, state, run, snaps, client, susp, mix>>

GuestEnds(m) ==
    /\ mach[m].st = "running"
    /\ mach' = [mach EXCEPT ![m].st = "stopped"]
    /\ run' = IF m = cur THEN [run EXCEPT !.sema = TRUE] ELSE run
    /\ UNCHANGED <<pc, cur, disk, state, snaps, client, susp, mix>>

(* The network's helper ends and signals the machine's semaphore. *)
NetworkLost ==
    /\ "netloss" \in mix /\ pc = "wait" /\ ~run.sema
    /\ run' = [run EXCEPT !.sema = TRUE]
    /\ UNCHANGED <<pc, cur, mach, disk, state, snaps, client, susp, mix>>

Interrupt ==
    /\ "stop" \in mix /\ pc # "exited" /\ ~run.stop
    /\ run' = [run EXCEPT !.stop = TRUE, !.cancel = TRUE]
    /\ UNCHANGED <<pc, cur, mach, disk, state, snaps, client, susp, mix>>

Kill == "kill" \in mix /\ pc # "exited" /\ Exits

(* Faulty: the revert waits until the guest ends. *)
TriggerRevertWaits(s) ==
    /\ "revert" \in mix /\ run.live /\ cur < LastMachine
    /\ run' = [run EXCEPT !.ref = s]
    /\ UNCHANGED <<pc, cur, mach, disk, state, snaps, client, susp, mix>>

(* A later revert replaces one that was not claimed yet. *)
TriggerRevert(s) ==
    /\ "revert" \in mix /\ run.live /\ cur < LastMachine
    /\ run' = [run EXCEPT !.ref = s, !.cancel = TRUE]
    /\ UNCHANGED <<pc, cur, mach, disk, state, snaps, client, susp, mix>>

-----------------------------------------------------------------------------
(* suspendVM *)

SuspendPause ==
    /\ "suspend" \in mix /\ susp.pc = "idle" /\ mach[cur].st = "running"
    /\ mach' = [mach EXCEPT ![cur].st = "paused"]
    /\ susp' = [pc |-> "save", vm |-> cur]
    /\ UNCHANGED <<pc, cur, disk, state, run, snaps, client, mix>>

(* A machine that does not run cannot be paused: the process ends. *)
SuspendPauseFails ==
    /\ "suspend" \in mix /\ susp.pc = "idle" /\ pc # "exited" /\ mach[cur].st # "running"
    /\ Exits

SuspendSaves ==
    /\ susp.pc = "save" /\ mach[susp.vm].st = "paused"
    /\ state' = mach[susp.vm].mem
    /\ susp' = [susp EXCEPT !.pc = "cancel"]
    /\ UNCHANGED <<pc, cur, mach, disk, run, snaps, client, mix>>

(* A machine that cannot be saved ends the process. *)
SuspendFails == susp.pc = "save" /\ Exits

SuspendCancels ==
    /\ susp.pc = "cancel"
    /\ run' = [run EXCEPT !.stop = TRUE, !.cancel = TRUE]
    /\ susp' = NoSuspension
    /\ UNCHANGED <<pc, cur, mach, disk, state, snaps, client, mix>>

SuspendStep == SuspendSaves \/ SuspendFails \/ SuspendCancels

-----------------------------------------------------------------------------
(* CreateSnapshotPaused, for a client of the socket *)

(* Faulty: that the machine could not be paused is not noticed. *)
CreatePauseAnyway(c) ==
    /\ "create" \in mix /\ client[c].pc = "idle" /\ Active(cur)
    /\ mach' = [mach EXCEPT ![cur].st = "paused"]
    /\ client' = [client EXCEPT ![c] = ClientAt("clone", cur, None, NoSnap)]
    /\ UNCHANGED <<pc, cur, disk, state, run, snaps, susp, mix>>

CreatePause(c) ==
    /\ "create" \in mix /\ client[c].pc = "idle" /\ mach[cur].st = "running"
    /\ mach' = [mach EXCEPT ![cur].st = "paused"]
    /\ client' = [client EXCEPT ![c] = ClientAt("clone", cur, None, NoSnap)]
    /\ UNCHANGED <<pc, cur, disk, state, run, snaps, susp, mix>>

(* The entry is for a new name; without one, or space, nothing is created. *)
CreateCloneTo(c, s) ==
    /\ client[c].pc = "clone"
    /\ snaps[s] = NoSnap
    /\ client' = [client EXCEPT ![c] = ClientAt("save", @.vm, s, [disk |-> disk, state |-> None])]
    /\ UNCHANGED <<pc, cur, mach, disk, state, run, snaps, susp, mix>>

CreateCloneFails(c) ==
    /\ client[c].pc = "clone"
    /\ client' = [client EXCEPT ![c] = ClientAt("resume", @.vm, None, NoSnap)]
    /\ UNCHANGED <<pc, cur, mach, disk, state, run, snaps, susp, mix>>

(* Only a paused machine can be saved. *)
CreateSaveOk(c) ==
    /\ client[c].pc = "save" /\ mach[client[c].vm].st = "paused"
    /\ client' = [client EXCEPT
                  ![c] = ClientAt("index", @.vm, @.snap, [disk |-> @.got.disk, state |-> mach[@.vm].mem])]
    /\ UNCHANGED <<pc, cur, mach, disk, state, run, snaps, susp, mix>>

(* Faulty: a failure is reported at once. *)
CreateFailsPaused(c) ==
    /\ client[c].pc \in {"save", "index"}
    /\ client' = [client EXCEPT ![c] = NoClient]
    /\ UNCHANGED <<pc, cur, mach, disk, state, run, snaps, susp, mix>>

(* Where it or the index cannot be written the payload is removed. *)
CreateFails(c) ==
    /\ client[c].pc \in {"save", "index"}
    /\ client' = [client EXCEPT ![c] = ClientAt("resume", @.vm, None, NoSnap)]
    /\ UNCHANGED <<pc, cur, mach, disk, state, run, snaps, susp, mix>>

CreateIndex(c) ==
    /\ client[c].pc = "index"
    /\ snaps' = [snaps EXCEPT ![client[c].snap] = client[c].got]
    /\ client' = [client EXCEPT ![c] = ClientAt("resume", @.vm, None, NoSnap)]
    /\ UNCHANGED <<pc, cur, mach, disk, state, run, susp, mix>>

(* A machine that was stopped meanwhile cannot be resumed. *)
CreateResume(c) ==
    LET vm == client[c].vm
    IN  /\ client[c].pc = "resume"
        /\ mach' = IF mach[vm].st = "paused" THEN [mach EXCEPT ![vm].st = "running"] ELSE mach
        /\ client' = [client EXCEPT ![c] = NoClient]
        /\ UNCHANGED <<pc, cur, disk, state, run, snaps, susp, mix>>

CreateStep(c) ==
    \/ \E s \in Snaps : CreateCloneTo(c, s)
    \/ CreateCloneFails(c) \/ CreateSaveOk(c) \/ CreateFails(c) \/ CreateIndex(c) \/ CreateResume(c)

-----------------------------------------------------------------------------
Next ==
    \/ Launch
    \/ Drive
    \/ \E m \in Machines : GuestWrites(m) \/ GuestEnds(m)
    \/ NetworkLost
    \/ Interrupt
    \/ Kill
    \/ \E s \in Snaps : TriggerRevert(s)
    \/ SuspendPause
    \/ SuspendPauseFails
    \/ SuspendStep
    \/ \E c \in Clients : CreatePause(c) \/ CreateStep(c)

(* A VM that was stopped or suspended; where reverts happen there are       *)
(* snapshots, of an earlier moment, with and without a state.               *)
Init ==
    /\ mix \in Mixes
    /\ pc = "top" /\ cur = 1
    /\ mach = [m \in Machines |-> IF m = 1 THEN Built ELSE NoMachine]
    /\ disk \in Moments
    /\ state \in {None, disk}
    /\ run = [stop |-> FALSE, cancel |-> FALSE, sema |-> FALSE, live |-> FALSE, ref |-> None, target |-> None]
    /\ IF "revert" \in mix
       THEN \E m \in Moments \ {disk} : snaps \in [Snaps -> {[disk |-> m, state |-> m], [disk |-> m, state |-> None]}]
       ELSE snaps = [s \in Snaps |-> NoSnap]
    /\ client = [c \in Clients |-> NoClient]
    /\ susp = NoSuspension

Spec == Init /\ [][Next]_vars

(* The goroutines of a process are scheduled, and Virtualization.framework  *)
(* completes what it is asked; guests need not end, nor clients ask.        *)
FairSpec ==
    /\ Spec
    /\ WF_vars(Drive) /\ WF_vars(SuspendStep)
    /\ \A c \in Clients : WF_vars(CreateStep(c))

-----------------------------------------------------------------------------
(* Properties *)

(* A machine's memory and its disk are of one moment: no state is resumed   *)
(* on a disk that went on, or back, without it.                             *)
MachineMatchesDisk == \A m \in Machines : Active(m) => mach[m].mem = disk

(* What is in the index has its disk and its state from one moment.         *)
SnapshotsWhole == \A s \in Snaps : snaps[s].state \in {None, snaps[s].disk}

(* The machine a revert replaces does not run beside the new one. *)
OneMachine == \A m, n \in Machines : Active(m) /\ Active(n) => m = n

(* A run that was told to stop ends, whatever it is in the middle of.       *)
StopEndsRun == run.stop ~> pc = "exited"

(* A machine that a snapshot, a suspension or a restoration left paused is  *)
(* resumed, stopped, or ends with its process.                              *)
NoneLeftPaused == \A m \in Machines : mach[m].st = "paused" ~> mach[m].st # "paused"

(* A revert that was accepted is carried out, if no later one replaces it   *)
(* and the run does not end.                                                *)
RevertsServed ==
    \A s \in Snaps : run.ref = s ~> disk = snaps[s].disk \/ run.ref \notin {s, None} \/ pc = "exited"

-----------------------------------------------------------------------------
(* The inductive invariant, for histories in which reverts do not meet what *)
(* can leave a machine running or paused behind vm.Run's back: snapshots,   *)
(* suspensions and the loss of the network.                                 *)
RevertsAlone == \A m \in Mixes : "revert" \in m => m \cap {"create", "suspend", "netloss"} = {}

AfterStart == {"wait", "stop", "claim"}

Quiet == (\A c \in Clients : client[c].pc = "idle") /\ susp.pc = "idle"

(* A revert is only accepted while another machine can be made, and not     *)
(* before a claimed one is carried out; entries with a state have a disk.   *)
Formed ==
    /\ run.ref # None \/ run.target # None => cur < LastMachine
    /\ pc \in {"top", "exited"} \cup Reverting => run.ref = None
    /\ pc = "exited" => cur = 1 /\ ~run.sema /\ \A m \in Machines : ~Active(m)
    /\ \A s \in Snaps : snaps[s].disk = None => snaps[s].state = None
    /\ \A c \in Clients : client[c].pc \in {"save", "index"} => client[c].got.disk # None

(* Reverts come from their own histories, and a client's copies are of the  *)
(* moment its machine was paused at.                                        *)
Apart ==
    /\ run.ref # None \/ run.target # None => "revert" \in mix
    /\ "revert" \in mix => Quiet
    /\ \A c \in Clients : client[c].pc \in {"save", "index"} => client[c].snap \in Snaps /\ client[c].got.disk = disk
    /\ \A c \in Clients : client[c].pc = "index" => client[c].got.state = disk

(* Only the machine of c.vm may run, once driveVM has started it. *)
OneStarted ==
    /\ \A m \in Machines \ {cur} : ~Active(m)
    /\ mach[cur].st = "running" => pc \in AfterStart
    /\ mach[cur].st = "paused" => pc \in AfterStart \cup {"unstage", "resume"}
    /\ pc \in {"unstage", "resume"} => mach[cur].st = "paused"
    /\ pc \in {"top", "boot"} => mach[cur].st = "built"

(* Who paused the machine is the only one who goes on with it: nobody else  *)
(* finds it running until it is resumed.                                    *)
OnePauser ==
    /\ \A c \in Clients : client[c].pc # "idle" =>
          /\ client[c].vm = cur /\ pc \in AfterStart /\ mach[cur].st \in {"paused", "stopped"}
          /\ susp.pc = "idle" /\ state = None
          /\ \A d \in Clients \ {c} : client[d].pc = "idle"
    /\ susp.pc # "idle" =>
          susp.vm = cur /\ pc \in AfterStart /\ mach[cur].st \in {"paused", "stopped"}

(* A staged state is of the disk's moment, and is gone while a machine runs *)
(* on that disk.                                                            *)
StagedMatches ==
    /\ state \in {None, disk}
    /\ mach[cur].st = "running" => state = None
    /\ pc = "resume" => state = None

(* The outcome of a run is claimed when its machine has stopped, and        *)
(* nothing writes the disk that a revert replaces.                          *)
RevertsStopped ==
    "revert" \in mix =>
        /\ run.sema => mach[cur].st = "stopped"
        /\ pc \in AfterStart => mach[cur].st \in {"running", "stopped"} /\ state = None
        /\ pc \in {"claim"} \cup Reverting => mach[cur].st = "stopped"
        /\ pc \in {"revert_disk", "revert_state"} => state = None
        /\ pc = "revert_state" => disk = snaps[run.target].disk

IInv ==
    /\ TypeOK
    /\ Formed
    /\ Apart
    /\ OneStarted
    /\ OnePauser
    /\ StagedMatches
    /\ RevertsStopped
    /\ MachineMatchesDisk
    /\ SnapshotsWhole

(* "The VM must be stopped - the live disk is replaced": snapshot.Revert.   *)
DiskReplacedWhenStopped == [][RevertDisk => \A m \in Machines : ~Active(m)]_vars
=============================================================================
