------------------------------- MODULE Topology -------------------------------
(***************************************************************************)
(* The network of a run: the NICs that a command line or a configuration   *)
(* asks for, their addresses, and the softnet helpers among them, from the *)
(* topology that is built for a machine to the one that is stopped after   *)
(* it. A helper is a process, with a goroutine that waits for it, signals  *)
(* the machine's semaphore, and only then tells the helper's Stop.         *)
(***************************************************************************)
EXTENDS Naturals, Sequences, FiniteSets

CONSTANTS
    NetLines,      \* what the command lines say of the network
    LastTopology,  \* topologies of one process: the bound on reverts
    NoMAC

VARIABLES
    line,     \* the command line, and the configuration's NICs
    suid,     \* softnet has its privileges
    step,     \* where the run is
    at,       \* the NIC whose engine is started or stopped
    upto,     \* the NIC before which those are that are stopped
    nics,     \* the topology built so far
    helper,   \* the processes of the softnet NICs
    asked,    \* the helpers that were sent SIGINT
    early,    \* those that ended unasked
    sema,     \* the machine's semaphore was signalled
    stopping, \* the run's context is cancelled
    guest,    \* the machine
    failed,   \* the first error of Stop
    topology  \* the number of this topology

netvars == <<line, suid, step, at, upto, nics, helper, asked, early, sema, stopping, guest, failed, topology>>

-----------------------------------------------------------------------------
(* Which NICs                                                              *)

NIC(mode, primary, mac) == [mode |-> mode, primary |-> primary, mac |-> mac]

OptionsOf(mode) ==
    CASE mode = "softnet" -> {"allow", "block", "expose", "host"}
      [] mode = "vmnet" -> {"mode", "subnet", "mask", "nodhcp", "nonat"}
      [] OTHER -> {}

(* Specs that name another mode, or an option their mode does not have. *)
BadSpec(s) == s.mode \notin {"nat", "bridged", "softnet", "vmnet"} \/ ~(s.options \subseteq OptionsOf(s.mode))

(* The first NIC is primary where none says that it is. *)
ParseNICDevices(specs) ==
    LET tagged == \E i \in DOMAIN specs : specs[i].primary
    IN  [i \in DOMAIN specs |-> NIC(specs[i].mode, specs[i].primary \/ (i = 1 /\ ~tagged), specs[i].mac)]

ExpandProfile(name) ==
    << NIC(CASE name \in {"internet-only", "isolated"} -> "softnet"
             [] name = "vm-lab" -> "vmnet" [] OTHER -> name, TRUE, NoMAC) >>

(* A configuration without NICs has one, of the address it always had. *)
EnsureNICs(stored) == IF stored = <<>> THEN << NIC("nat", TRUE, NoMAC) >> ELSE stored

resolveNICs(l) ==
    IF l.profile # "none" THEN ExpandProfile(l.profile)
    ELSE IF l.devices # <<>> THEN ParseNICDevices(l.devices)
    ELSE IF l.bridged # <<>> THEN [i \in DOMAIN l.bridged |-> NIC("bridged", i = 1, NoMAC)]
    ELSE IF l.softnet THEN << NIC("softnet", TRUE, NoMAC) >>
    ELSE EnsureNICs(l.stored)

Refused(l) == l.profile = "none" /\ \E i \in DOMAIN l.devices : BadSpec(l.devices[i])

Wanted == resolveNICs(line)

(* The first primary NIC, or else the first, has the machine's address. *)
Primary == IF \E i \in DOMAIN Wanted : Wanted[i].primary
           THEN CHOOSE i \in DOMAIN Wanted : Wanted[i].primary /\ \A j \in 1 .. (i - 1) : ~Wanted[j].primary
           ELSE 1

Machines == "machine"
DeriveMACAddress(i) == <<Machines, i>>

Address(i) ==
    IF i = Primary THEN <<Machines>>
    ELSE IF Wanted[i].mac = NoMAC THEN DeriveMACAddress(i)
    ELSE <<Wanted[i].mac>>

-----------------------------------------------------------------------------
Softnet(i) == i \in DOMAIN nics /\ nics[i].mode = "softnet"

Slots == 1 .. Len(Wanted)

(* The process ends; helpers it leaves notice by themselves, or not. *)
ProcessEnds ==
    /\ step' = "exited"
    /\ UNCHANGED <<line, suid, at, upto, nics, helper, asked, early, sema, stopping, guest, failed, topology>>

Resolve ==
    /\ step = "resolve" /\ ~Refused(line)
    /\ step' = "prepare"
    /\ helper' = [i \in Slots |-> "none"]
    /\ UNCHANGED <<line, suid, at, upto, nics, asked, early, sema, stopping, guest, failed, topology>>

ResolveFails == step = "resolve" /\ Refused(line) /\ ProcessEnds

(* Who sits at a terminal is asked for the password of sudo, where neither  *)
(* softnet has its bit nor sudo goes without.                               *)
NeedsPrivileges == line.interactive /\ ~suid /\ \E i \in Slots : Wanted[i].mode = "softnet"

Prepare ==
    /\ step = "prepare"
    /\ suid' = (suid \/ NeedsPrivileges)
    /\ step' = "build"
    /\ UNCHANGED <<line, at, upto, nics, helper, asked, early, sema, stopping, guest, failed, topology>>

PrepareFails == step = "prepare" /\ NeedsPrivileges /\ ProcessEnds

(* BuildTopology: a softnet NIC has its sockets and a command. *)
BuildNIC ==
    /\ step = "build" /\ Len(nics) < Len(Wanted)
    /\ LET i == Len(nics) + 1
       IN  /\ nics' = Append(nics, [mode |-> Wanted[i].mode, mac |-> Address(i)])
           /\ helper' = [helper EXCEPT ![i] = IF Wanted[i].mode = "softnet" THEN "made" ELSE @]
    /\ UNCHANGED <<line, suid, step, at, upto, asked, early, sema, stopping, guest, failed, topology>>

(* No such interface, no softnet, no entitlement. *)
BuildFails ==
    /\ step = "build" /\ Len(nics) < Len(Wanted) /\ Wanted[Len(nics) + 1].mode # "nat"
    /\ ProcessEnds

Built ==
    /\ step = "build" /\ Len(nics) = Len(Wanted)
    /\ step' = "engines" /\ at' = 1
    /\ UNCHANGED <<line, suid, upto, nics, helper, asked, early, sema, stopping, guest, failed, topology>>

(* Topology.Run: only softnet's engine does anything. *)
EngineRuns ==
    /\ step = "engines" /\ at <= Len(nics)
    /\ helper' = IF Softnet(at) THEN [helper EXCEPT ![at] = "running"] ELSE helper
    /\ at' = at + 1
    /\ UNCHANGED <<line, suid, step, upto, nics, asked, early, sema, stopping, guest, failed, topology>>

(* Faulty: those that were started before are left. *)
EngineFailsOnly ==
    /\ step = "engines" /\ Softnet(at)
    /\ step' = "undone"
    /\ UNCHANGED <<line, suid, at, upto, nics, helper, asked, early, sema, stopping, guest, failed, topology>>

EngineFails ==
    /\ step = "engines" /\ Softnet(at)
    /\ step' = "undo" /\ upto' = at /\ at' = 1
    /\ UNCHANGED <<line, suid, nics, helper, asked, early, sema, stopping, guest, failed, topology>>

MachineStarts ==
    /\ step = "engines" /\ at > Len(nics)
    /\ step' = "wait" /\ guest' = "running"
    /\ UNCHANGED <<line, suid, at, upto, nics, helper, asked, early, sema, stopping, failed, topology>>

(* The engines are not stopped when the machine cannot be started. *)
MachineFails == step = "engines" /\ at > Len(nics) /\ ProcessEnds

(* VM.Run *)
Wakes ==
    /\ step = "wait" /\ (sema \/ stopping)
    /\ step' = IF stopping /\ guest = "running" THEN "halt" ELSE "stop"
    /\ at' = 1 /\ upto' = Len(nics) + 1
    /\ UNCHANGED <<line, suid, nics, helper, asked, early, sema, stopping, guest, failed, topology>>

Halts ==
    /\ step = "halt" /\ guest = "running"
    /\ guest' = "stopped" /\ step' = "stop"
    /\ UNCHANGED <<line, suid, at, upto, nics, helper, asked, early, sema, stopping, failed, topology>>

(* The guest ended by itself in between. *)
HaltFails == step = "halt" /\ guest # "running" /\ ProcessEnds

-----------------------------------------------------------------------------
(* Softnet.Stop, by Topology.Stop or, for the engines before the one that   *)
(* failed, by Topology.Run.                                                 *)

Stopping == step \in {"undo", "stop"} /\ at < upto

NoEngine ==
    /\ Stopping /\ ~Softnet(at)
    /\ at' = at + 1
    /\ UNCHANGED <<line, suid, step, upto, nics, helper, asked, early, sema, stopping, guest, failed, topology>>

FoundFinished ==
    /\ Stopping /\ Softnet(at) /\ at \notin asked /\ helper[at] = "finished"
    /\ failed' = (failed \/ step = "stop")
    /\ at' = at + 1
    /\ UNCHANGED <<line, suid, step, upto, nics, helper, asked, early, sema, stopping, guest, topology>>

(* A process that has ended, and was not waited for yet, takes the signal. *)
Interrupts ==
    /\ Stopping /\ Softnet(at) /\ at \notin asked /\ helper[at] # "finished"
    /\ asked' = asked \cup {at}
    /\ UNCHANGED <<line, suid, step, at, upto, nics, helper, early, sema, stopping, guest, failed, topology>>

AwaitsMonitor ==
    /\ Stopping /\ at \in asked /\ helper[at] = "finished"
    /\ at' = at + 1
    /\ UNCHANGED <<line, suid, step, upto, nics, helper, asked, early, sema, stopping, guest, failed, topology>>

Undone ==
    /\ step = "undo" /\ at = upto
    /\ step' = "undone"
    /\ UNCHANGED <<line, suid, at, upto, nics, helper, asked, early, sema, stopping, guest, failed, topology>>

Stopped ==
    /\ step = "stop" /\ at = upto
    /\ step' = "over"
    /\ UNCHANGED <<line, suid, at, upto, nics, helper, asked, early, sema, stopping, guest, failed, topology>>

(* driveVM: an error ends the run, and so does a run that nobody reverts. *)
Ends == step \in {"over", "undone"} /\ ProcessEnds

Reverts ==
    /\ step = "over" /\ ~failed /\ topology < LastTopology
    /\ step' = "build"
    /\ nics' = <<>> /\ helper' = [i \in Slots |-> "none"]
    /\ asked' = {} /\ early' = {} /\ sema' = FALSE
    /\ stopping' = FALSE /\ guest' = "none"
    /\ topology' = topology + 1
    /\ UNCHANGED <<line, suid, at, upto, failed>>

(* The next run: helpers that were left have lost their machine's end.      *)
Launch ==
    /\ step = "exited"
    /\ step' = "resolve" /\ at' = 1 /\ upto' = 1
    /\ nics' = <<>> /\ helper' = <<>> /\ asked' = {} /\ early' = {}
    /\ sema' = FALSE /\ stopping' = FALSE /\ guest' = "none" /\ failed' = FALSE
    /\ topology' = 1
    /\ UNCHANGED <<line, suid>>

-----------------------------------------------------------------------------
(* Beside it                                                               *)

HelperEnds(i) ==
    /\ step # "exited" /\ Softnet(i) /\ helper[i] = "running"
    /\ helper' = [helper EXCEPT ![i] = "ended"]
    /\ early' = IF i \in asked THEN early ELSE early \cup {i}
    /\ UNCHANGED <<line, suid, step, at, upto, nics, asked, sema, stopping, guest, failed, topology>>

MonitorSignals(i) ==
    /\ step # "exited" /\ Softnet(i) /\ helper[i] = "ended"
    /\ helper' = [helper EXCEPT ![i] = "told"]
    /\ sema' = TRUE
    /\ UNCHANGED <<line, suid, step, at, upto, nics, asked, early, stopping, guest, failed, topology>>

MonitorCloses(i) ==
    /\ step # "exited" /\ Softnet(i) /\ helper[i] = "told"
    /\ helper' = [helper EXCEPT ![i] = "finished"]
    /\ UNCHANGED <<line, suid, step, at, upto, nics, asked, early, sema, stopping, guest, failed, topology>>

(* The delegate: the guest stops, or a network attachment is disconnected. *)
GuestStops ==
    /\ step \in {"wait", "halt"} /\ guest = "running"
    /\ guest' = "stopped" /\ sema' = TRUE
    /\ UNCHANGED <<line, suid, step, at, upto, nics, helper, asked, early, stopping, failed, topology>>

Disconnected ==
    /\ step = "wait" /\ guest = "running" /\ nics # <<>>
    /\ sema' = TRUE
    /\ UNCHANGED <<line, suid, step, at, upto, nics, helper, asked, early, stopping, guest, failed, topology>>

Cancel ==
    /\ step \notin {"exited", "over"} /\ ~stopping
    /\ stopping' = TRUE
    /\ UNCHANGED <<line, suid, step, at, upto, nics, helper, asked, early, sema, guest, failed, topology>>

-----------------------------------------------------------------------------
Init ==
    /\ line \in NetLines
    /\ suid \in BOOLEAN
    /\ step = "resolve" /\ at = 1 /\ upto = 1
    /\ nics = <<>> /\ helper = <<>> /\ asked = {} /\ early = {}
    /\ sema = FALSE /\ stopping = FALSE /\ guest = "none" /\ failed = FALSE
    /\ topology = 1

Run ==
    \/ Resolve \/ ResolveFails \/ Prepare \/ PrepareFails \/ BuildNIC \/ BuildFails \/ Built
    \/ EngineRuns \/ EngineFails \/ MachineStarts \/ MachineFails
    \/ Wakes \/ Halts \/ HaltFails
    \/ NoEngine \/ FoundFinished \/ Interrupts \/ AwaitsMonitor \/ Undone \/ Stopped
    \/ Ends \/ Reverts \/ Launch

Next ==
    \/ Run
    \/ \E i \in Slots : HelperEnds(i) \/ MonitorSignals(i) \/ MonitorCloses(i)
    \/ GuestStops \/ Disconnected \/ Cancel

-----------------------------------------------------------------------------
HelperStates == {"none", "made", "running", "ended", "told", "finished"}

TypeOK ==
    /\ line \in NetLines
    /\ step \in {"resolve", "prepare", "build", "engines", "undo", "undone", "wait", "halt", "stop", "over", "exited"}
    /\ at \in 1 .. (Len(Wanted) + 1) /\ upto \in 1 .. (Len(Wanted) + 1)
    /\ Len(nics) <= Len(Wanted)
    /\ helper \in [1 .. Len(helper) -> HelperStates]
    /\ step \notin {"resolve", "exited"} => Len(helper) = Len(Wanted)
    /\ asked \subseteq Slots /\ early \subseteq Slots
    /\ guest \in {"none", "running", "stopped"}
    /\ {suid, sema, stopping, failed} \subseteq BOOLEAN
    /\ topology \in Nat

(* When the network was stopped, or could not be started, no helper is left: *)
(* every process that Topology.Run started has been waited for, those before *)
(* the one that failed too (Topology.Run, Topology.Stop).                    *)
NoneOutlives ==
    step \in {"over", "undone"} => \A i \in Slots : helper[i] \in {"none", "made", "finished"}

(* A machine whose helper is gone does not go on without a network: when     *)
(* Stop could find out, the machine's semaphore was signalled (Softnet.Run). *)
LossIsNoticed ==
    step = "wait" => \A i \in Slots : helper[i] \in {"told", "finished"} => sema

(* An error of Stop is a helper's that ended before anyone asked it to, and  *)
(* never one's that was interrupted (Softnet.Stop).                          *)
FailedForCause == failed => early # {}

(* No two NICs have one address, nor one the machine's, but where the        *)
(* command line gives it; and the machine's address is there, in every       *)
(* topology of the process (resolveTopology, BuildTopology).                 *)
Given(i) == i # Primary /\ Wanted[i].mac # NoMAC
AddressesApart ==
    /\ \A i, j \in DOMAIN nics : i # j /\ nics[i].mac = nics[j].mac => Given(i) \/ Given(j)
    /\ step \in {"engines", "wait"} => \E i \in DOMAIN nics : nics[i].mac = <<Machines>>

(* Where somebody could be asked, no helper is started without privileges. *)
Privileged == line.interactive => suid \/ \A i \in DOMAIN helper : helper[i] = "none"

NetSafe ==
    /\ TypeOK
    /\ NoneOutlives
    /\ LossIsNoticed
    /\ FailedForCause
    /\ AddressesApart
    /\ Privileged
=============================================================================
