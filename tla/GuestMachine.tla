---------------------------- MODULE GuestMachine ----------------------------
(***************************************************************************)
(* The experimental VMM on Hypervisor.framework: how a command builds its  *)
(* machine (one VM per process, step by step, each of which can fail), how *)
(* the vCPU's exits are handled until the run ends, how an access to a     *)
(* device the device tree names is routed, and how the machine is captured *)
(* in a snapshot and made again from it.                                   *)
(*                                                                         *)
(* The framework and the guest are external.  A program is a sequence of   *)
(* instructions; "alu", "b" (to the first) and "spin" (to itself) do not   *)
(* leave the guest, the others exit with the program counter at them.      *)
(* Addresses are in units of 0x200 bytes.                                  *)
(***************************************************************************)
EXTENDS Naturals, Sequences

CONSTANTS
    Commands,     \* "test", "boot", "step", "snapshot"
    Programs,     \* what the guest may run
    MaxExits,     \* the exit budget of a run
    StuckSamples, \* repeated samples that end a run, 5 in the code
    Stalled       \* visits of a PC that end a step trace, 2000 in the code

VARIABLES
    hv,      \* the framework, one per process: VM, GIC, vCPUs
    regions, \* the memory a Machine has mapped and holds: name -> content
    cmd,     \* the command: its phase, its outcome
    cpu,     \* the vCPU
    watch,   \* exits, device exits and samples of the run
    trail,   \* the last two instructions that were completed
    reached, \* the last access: the node it meant, the device it got to
    saved    \* the snapshot

gmvars == <<hv, regions, cmd, cpu, watch, trail, reached, saved>>

NoHV == [vm |-> FALSE, gic |-> "none", redist |-> "none", cpus |-> 0, clash |-> FALSE]
NoCPU == [pc |-> 0, x |-> 0, cnthctl |-> 0, simd |-> 0]
NoWatch == [exits |-> 0, dev |-> 0, pc |-> 1, same |-> 0, samples |-> <<>>, seen |-> <<>>]
NoSnapshot == [taken |-> FALSE]

-----------------------------------------------------------------------------
(* Where things are                                                        *)

(* The nodes of the device tree edk2 reads, by the register they name.     *)
buildDTB ==
    [pl011 |-> \h48000, fwcfg |-> \h48100, virtio0 |-> \h50000, virtio1 |-> \h50001,
     pl031 |-> \h48080, redist |-> \h70000, flash |-> \h20000, pcie |-> \h20080000]

(* What stands behind a node: the other transports, the clock, a PCIe      *)
(* function without a device read as absent.                               *)
Behind(node, disks) ==
    IF node = "pl011" THEN "uart" ELSE IF node = "fwcfg" THEN "fwcfg"
    ELSE IF node = "flash" THEN "flash" ELSE IF node = "redist" THEN "gic"
    ELSE IF node = "virtio0" /\ disks THEN "virtioblk"
    ELSE IF node = "pcie" THEN IF disks THEN "nvme" ELSE "ecam" ELSE "unknown"

(* The ranges HandleMMIO tries, in order.                                  *)
Ranges(disks) ==
    << [dev |-> "uart", from |-> \h48000, size |-> 8, on |-> TRUE],
       [dev |-> "flash", from |-> \h20000, size |-> \h20000, on |-> TRUE],
       [dev |-> "fwcfg", from |-> \h48100, size |-> 1, on |-> TRUE],
       [dev |-> "gic", from |-> \h70000, size |-> \h100, on |-> TRUE],
       [dev |-> "virtioblk", from |-> \h50000, size |-> 1, on |-> disks],
       [dev |-> "nvme", from |-> \h20080000, size |-> 8, on |-> disks],
       [dev |-> "ecam", from |-> \h20080000, size |-> \h80000, on |-> TRUE] >>

DeviceAt(addr, disks) ==
    LET in(r) == r.on /\ addr >= r.from /\ addr < r.from + r.size
        hits == {i \in DOMAIN Ranges(disks) : in(Ranges(disks)[i])}
    IN IF hits = {} THEN "unknown"
       ELSE Ranges(disks)[CHOOSE i \in hits : \A j \in hits : i <= j].dev

(* What a load returns: something of a device, zero where there is none,   *)
(* all ones of an absent PCIe function.                                    *)
DeviceValue(dev) == IF dev = "unknown" THEN 0 ELSE IF dev = "ecam" THEN 9 ELSE 1

-----------------------------------------------------------------------------
(* Building the machine                                                    *)

(* setupGuest and SelfTest; RestoreMachine after it.                       *)
Setup(kind) ==
    IF kind = "test" THEN <<"vm", "ram", "vcpu">>
    ELSE <<"vm", "gic", "firmware", "rom", "ram", "vcpu", "cpsr">>

(* Faulty: the GIC's state is set as soon as there is a GIC.               *)
RestoreStepsGICFirst == <<"vm", "gic", "gicstate", "regions", "vcpu", "registers">>

RestoreSteps == <<"vm", "gic", "regions", "vcpu", "gicstate", "registers">>

StepsNow == IF cmd.phase = "setup" THEN Setup(cmd.kind) ELSE RestoreSteps

(* The general registers are set last: setting the system registers may    *)
(* change them and the program counter.                                    *)
RestoreVCPU(st) == [[st EXCEPT !.pc = 0, !.x = 0] EXCEPT !.pc = st.pc, !.x = st.x]

With(f, k, v) == [a \in DOMAIN f \cup {k} |-> IF a = k THEN v ELSE f[a]]

NewMachine ==
    /\ hv' = [hv EXCEPT !.vm = TRUE, !.clash = @ \/ hv.vm]
    /\ UNCHANGED <<regions, cpu>>
CreateGIC == hv' = [hv EXCEPT !.gic = "new"] /\ UNCHANGED <<regions, cpu>>
MapROM == regions' = With(regions, "rom", [at |-> 1, exec |-> "rx"]) /\ UNCHANGED <<hv, cpu>>
MapRAM == regions' = With(regions, "ram", [at |-> 1, exec |-> "rwx"]) /\ UNCHANGED <<hv, cpu>>

(* Each region of the snapshot becomes RAM.                                *)
MapRegions ==
    /\ regions' = [r \in DOMAIN saved.regions |-> [saved.regions[r] EXCEPT !.exec = "rwx"]]
    /\ UNCHANGED <<hv, cpu>>

(* A vCPU is born with its redistributor, when there is a GIC.             *)
NewVCPU ==
    /\ hv' = [hv EXCEPT !.cpus = @ + 1, !.redist = IF hv.gic # "none" THEN "new" ELSE @]
    /\ cpu' = [NoCPU EXCEPT !.pc = 1]
    /\ UNCHANGED regions

(* The blob also holds the state of the vCPUs' redistributors.             *)
SetGICState ==
    /\ hv' = [hv EXCEPT !.gic = saved.gic,
                        !.redist = IF hv.cpus > 0 THEN saved.redist ELSE @]
    /\ UNCHANGED <<regions, cpu>>

DoStep(s) ==
    \/ s = "vm" /\ NewMachine
    \/ s = "gic" /\ CreateGIC
    \/ s = "rom" /\ MapROM
    \/ s = "ram" /\ MapRAM
    \/ s = "regions" /\ MapRegions
    \/ s = "vcpu" /\ NewVCPU
    \/ s = "gicstate" /\ SetGICState
    \/ s = "registers" /\ cpu' = RestoreVCPU(saved.cpu) /\ UNCHANGED <<hv, regions>>
    \/ s \in {"firmware", "cpsr"} /\ UNCHANGED <<hv, regions, cpu>>

setupGuest ==
    /\ cmd.phase \in {"setup", "restore"} /\ cmd.i <= Len(StepsNow)
    /\ DoStep(StepsNow[cmd.i])
    /\ IF cmd.i < Len(StepsNow)
       THEN cmd' = [cmd EXCEPT !.i = @ + 1] /\ UNCHANGED <<watch, trail>>
       ELSE /\ cmd' = [cmd EXCEPT !.i = 1, !.phase = IF @ = "setup" THEN "run" ELSE "rerun",
                                  !.fresh = TRUE]
            /\ watch' = NoWatch
            /\ UNCHANGED trail
    /\ UNCHANGED <<reached, saved>>

(* Machine.Close destroys the VM and unmaps what it held.                  *)
Released == [NoHV EXCEPT !.clash = hv.clash]

StepFails ==
    /\ cmd.phase \in {"setup", "restore"}
    /\ cmd' = [cmd EXCEPT !.phase = "ended", !.out = "failed"]
    /\ hv' = Released /\ regions' = <<>>
    /\ UNCHANGED <<cpu, watch, trail, reached, saved>>

-----------------------------------------------------------------------------
(* The vCPU                                                                *)

InRun == cmd.phase \in {"run", "rerun"}
Running == InRun /\ cmd.out = "none"
Instr == cmd.program[cpu.pc]
Moved(p) == IF cmd.program[p].op = "b" THEN 1 ELSE p + 1
Log(p) == IF trail = <<>> THEN <<p>> ELSE <<trail[Len(trail)], p>>
End(how) == cmd' = [cmd EXCEPT !.out = how, !.fresh = FALSE]
Goes == cmd' = [cmd EXCEPT !.fresh = FALSE]
Exits == watch.exits + 1
Budget == cmd.kind # "test" /\ Exits > MaxExits

advancePC == cpu.pc + 1

(* A store to memory the guest may write is no exit.                       *)
Plain ==
    \/ Instr.op \in {"alu", "b"}
    \/ Instr.op = "storerom" /\ regions["rom"].exec = "rwx"

GuestRuns ==
    /\ Running /\ cmd.kind # "step" /\ Plain
    /\ cpu' = [cpu EXCEPT !.pc = Moved(cpu.pc), !.x = IF Instr.op = "alu" THEN 2 ELSE @]
    /\ regions' = IF Instr.op = "storerom" THEN [regions EXCEPT !["rom"].at = 2] ELSE regions
    /\ trail' = Log(cpu.pc) /\ Goes
    /\ UNCHANGED <<hv, watch, reached, saved>>

(* HandleMMIO tells the run to stop at the budget of device exits; the     *)
(* self-test's handler stops at the first.                                 *)
Stops == cmd.kind = "test" \/ watch.dev + 1 >= MaxExits

(* A load's result is delivered, and unless the handler stops the run the  *)
(* program counter goes on.                                                *)
handleDataAbort(stop) ==
    LET node == IF Instr.op = "storerom" THEN "rom" ELSE Instr.at
        dev == IF node = "rom" THEN "unknown" ELSE DeviceAt(buildDTB[node], cmd.disks)
    IN /\ reached' = [node |-> node, dev |-> dev, disks |-> cmd.disks]
       /\ cpu' = [cpu EXCEPT !.x = IF Instr.op = "load" THEN DeviceValue(dev) ELSE @,
                             !.pc = IF stop THEN @ ELSE advancePC]
       /\ hv' = IF dev = "gic" /\ Instr.op = "store" THEN [hv EXCEPT !.redist = "set"] ELSE hv

(* CNTHCTL_EL2 is the real register; others read zero and drop writes.     *)
emulateSysReg ==
    /\ cpu' = [cpu EXCEPT
                  !.cnthctl = IF Instr.op = "msr" /\ Instr.at = "cnthctl" THEN cpu.x ELSE @,
                  !.x = IF Instr.op # "mrs" THEN @
                        ELSE IF Instr.at = "cnthctl" THEN cpu.cnthctl ELSE 0,
                  !.pc = advancePC]
    /\ UNCHANGED <<reached, hv>>

Abort == Instr.op \in {"load", "store", "storerom"}
Trapped == ~Plain /\ Instr.op # "spin"

(* One turn of the loop in VCPU.Run, for an exit the guest made.           *)
Run ==
    /\ Running /\ cmd.kind # "step" /\ Trapped
    /\ watch' = [watch EXCEPT !.exits = Exits, !.dev = @ + (IF Abort /\ ~Budget THEN 1 ELSE 0)]
    /\ IF Budget THEN End("budget") /\ UNCHANGED <<cpu, trail, reached, hv>>
       ELSE \/ /\ Abort /\ handleDataAbort(Stops) /\ trail' = Log(cpu.pc)
               /\ IF Stops THEN End("stopped") ELSE Goes
            \/ Instr.op \in {"msr", "mrs"} /\ emulateSysReg /\ trail' = Log(cpu.pc) /\ Goes
            \/ /\ Instr.op = "hvc" /\ trail' = Log(cpu.pc) /\ Goes
               /\ cpu' = [cpu EXCEPT !.x = 9, !.pc = advancePC] /\ UNCHANGED <<reached, hv>>
            \/ /\ Instr.op = "wfi" /\ trail' = Log(cpu.pc) /\ Goes
               /\ cpu' = [cpu EXCEPT !.pc = advancePC] /\ UNCHANGED <<reached, hv>>
            \/ /\ Instr.op \in {"noisv", "undef"} /\ End("error")
               /\ UNCHANGED <<cpu, trail, reached, hv>>
    /\ UNCHANGED <<regions, saved>>

(* The virtual timer fires: nothing is done about it.                      *)
VTimer ==
    /\ Running /\ cmd.kind \in {"boot", "snapshot"}
    /\ watch' = [watch EXCEPT !.exits = Exits]
    /\ IF Budget THEN End("budget") ELSE Goes
    /\ UNCHANGED <<hv, regions, cpu, trail, reached, saved>>

Samples == IF Len(watch.samples) > StuckSamples THEN Tail(watch.samples) ELSE watch.samples

(* Faulty: what the watchdog forced is not counted as an exit.             *)
WatchdogUncounted ==
    /\ Running /\ cmd.kind \in {"boot", "snapshot"}
    /\ watch' = [watch EXCEPT !.samples = Append(Samples, cpu.pc),
                              !.pc = cpu.pc, !.same = IF cpu.pc = watch.pc THEN @ + 1 ELSE 0]
    /\ IF watch'.same >= StuckSamples THEN End("hung") ELSE Goes
    /\ UNCHANGED <<hv, regions, cpu, trail, reached, saved>>

(* The watchdog forces the vCPU out to look where it is.                   *)
Watchdog ==
    /\ Running /\ cmd.kind \in {"boot", "snapshot"}
    /\ watch' = [watch EXCEPT !.exits = Exits, !.samples = Append(Samples, cpu.pc),
                              !.pc = cpu.pc, !.same = IF cpu.pc = watch.pc THEN @ + 1 ELSE 0]
    /\ IF Budget THEN End("budget")
       ELSE IF watch'.same >= StuckSamples THEN End("hung") ELSE Goes
    /\ UNCHANGED <<hv, regions, cpu, trail, reached, saved>>

Visits(p) == IF p \in DOMAIN watch.seen THEN watch.seen[p] + 1 ELSE 1

(* One step of StepTrace: an instruction that retires is counted at the    *)
(* place it leads to, a trap is handled (but HVC and WFI only skipped),    *)
(* and the handler's stop is not heeded.  Steps of either kind are limited.*)
StepTrace ==
    /\ Running /\ cmd.kind = "step"
    /\ trail' = IF Instr.op = "spin" THEN trail ELSE Log(cpu.pc)
    /\ \/ /\ Plain \/ Instr.op = "spin"
          /\ LET to == IF Instr.op = "spin" THEN cpu.pc ELSE Moved(cpu.pc)
             IN /\ cpu' = [cpu EXCEPT !.pc = to, !.x = IF Instr.op = "alu" THEN 2 ELSE @]
                /\ watch' = [watch EXCEPT !.exits = Exits, !.seen = With(@, to, Visits(to))]
                /\ IF Visits(to) = Stalled THEN End("stalled")
                   ELSE IF Exits >= MaxExits THEN End("budget") ELSE Goes
                /\ UNCHANGED <<reached, hv>>
       \/ /\ Trapped /\ watch' = [watch EXCEPT !.exits = Exits]
          /\ \/ Abort /\ handleDataAbort(FALSE)
             \/ Instr.op \in {"msr", "mrs"} /\ emulateSysReg
             \/ /\ Instr.op \in {"hvc", "wfi", "undef"} /\ UNCHANGED <<reached, hv>>
                /\ cpu' = [cpu EXCEPT !.pc = advancePC]
             \/ Instr.op = "noisv" /\ UNCHANGED <<cpu, reached, hv>>
          /\ IF Instr.op = "noisv" THEN End("error")
             ELSE IF Exits >= MaxExits THEN End("budget") ELSE Goes
    /\ UNCHANGED <<regions, saved>>

-----------------------------------------------------------------------------
(* After the run                                                           *)

(* The deferred Destroy and Close.                                         *)
RunEnds ==
    /\ InRun /\ cmd.out # "none" /\ ~(cmd.kind = "snapshot" /\ cmd.phase = "run")
    /\ hv' = Released /\ regions' = <<>>
    /\ cmd' = [cmd EXCEPT !.phase = "ended"]
    /\ UNCHANGED <<cpu, watch, trail, reached, saved>>

(* However the first run ended, its machine is captured: the registers,    *)
(* the GIC and every region, not the devices.                              *)
TakeSnapshot ==
    /\ cmd.kind = "snapshot" /\ cmd.phase = "run" /\ cmd.out # "none"
    /\ saved' = [taken |-> TRUE, cpu |-> cpu, gic |-> hv.gic, redist |-> hv.redist,
                 regions |-> regions]
    /\ cmd' = [cmd EXCEPT !.phase = "close", !.first = cmd.out]
    /\ UNCHANGED <<hv, regions, cpu, watch, trail, reached>>

CloseFirst ==
    /\ cmd.phase = "close"
    /\ hv' = Released /\ regions' = <<>> /\ cpu' = NoCPU
    /\ cmd' = [cmd EXCEPT !.phase = "restore", !.i = 1, !.out = "none"]
    /\ UNCHANGED <<watch, trail, reached, saved>>

-----------------------------------------------------------------------------
Init ==
    /\ hv = NoHV /\ regions = <<>> /\ cpu = NoCPU /\ watch = NoWatch /\ trail = <<>>
    /\ reached = [node |-> "none", dev |-> "none", disks |-> FALSE] /\ saved = NoSnapshot
    /\ \E k \in Commands, p \in Programs, d \in BOOLEAN :
          /\ d => k \in {"boot", "step"}
          /\ cmd = [kind |-> k, phase |-> "setup", i |-> 1, out |-> "none", first |-> "none",
                    program |-> IF k = "test"
                                THEN <<[op |-> "store", at |-> "pl011"], [op |-> "spin"]>>
                                ELSE p,
                    disks |-> d, fresh |-> FALSE]

Host == Run \/ StepTrace \/ setupGuest \/ RunEnds \/ TakeSnapshot \/ CloseFirst
Next == Host \/ GuestRuns \/ VTimer \/ Watchdog \/ StepFails

(* The guest runs on, its exits are handled, the watchdog ticks.           *)
Fairness == WF_gmvars(Host) /\ WF_gmvars(GuestRuns) /\ WF_gmvars(Watchdog)

Spec == Init /\ [][Next]_gmvars /\ Fairness

-----------------------------------------------------------------------------
TypeOK ==
    /\ hv.cpus \in {0, 1} /\ (hv.cpus = 1 => hv.vm)
    /\ cmd.phase \in {"setup", "run", "close", "restore", "rerun", "ended"}
    /\ cpu.pc \in 0 .. Len(cmd.program) /\ (Running => cpu.pc > 0)
    /\ DOMAIN regions \subseteq {"rom", "ram"}
    /\ watch.exits <= MaxExits + 1
    /\ (Running /\ cmd.kind # "test") => DOMAIN regions = {"rom", "ram"}

(* A process never asks for a second VM while it holds one, and holds      *)
(* neither VM nor memory once its command has failed or ended, at          *)
(* whichever step that was (setupGuest, RestoreMachine, SnapshotRoundTrip).*)
OneVM ==
    /\ ~hv.clash
    /\ cmd.phase = "ended" => ~hv.vm /\ regions = <<>>

(* Each instruction that exits is completed once and none is skipped: the  *)
(* handlers, the watchdog's and the timer's exits in between leave the     *)
(* guest where it was (Run, handleDataAbort, emulateSysReg, StepTrace).    *)
(* A run that the handler stopped is the exception: its last access is     *)
(* completed without the program counter going on, and made again after a  *)
(* restore.                                                                *)
EachOnce ==
    (Len(trail) = 2 /\ cmd.first # "stopped") => trail[2] = Moved(trail[1])

(* An access at a register the device tree names gets to the device that   *)
(* stands behind it, and to none where there is none (HandleMMIO, buildDTB)*)
TreeReached ==
    reached.node \in DOMAIN buildDTB => reached.dev = Behind(reached.node, reached.disks)

(* A machine made again has the registers, the memory and the interrupt    *)
(* state of the one that was captured (Snapshot, RestoreMachine).          *)
RestoredAsSaved ==
    cmd.phase = "rerun" /\ cmd.fresh =>
        /\ cpu = saved.cpu /\ hv.gic = saved.gic /\ hv.redist = saved.redist
        /\ DOMAIN regions = DOMAIN saved.regions
        /\ \A r \in DOMAIN regions : regions[r].at = saved.regions[r].at

(* A guest is given up as hung only when the last StuckSamples samples     *)
(* found it at one place (VCPU.Run).                                       *)
HungWhenStuck ==
    cmd.out = "hung" => LET s == watch.samples IN
        /\ Len(s) >= StuckSamples
        /\ \A i \in 0 .. StuckSamples - 1 : s[Len(s) - i] = s[Len(s)]

(* Every command ends, whatever the guest does: by its budget of exits, by *)
(* the watchdog, by the stall of a trace (Run, StepTrace).                 *)
CommandsEnd == <>(cmd.phase = "ended")

(* One VM, exits completed once by the right device, restored as saved,    *)
(* given up only when stuck.                                               *)
GMSafe ==
    /\ TypeOK
    /\ OneVM
    /\ EachOnce
    /\ TreeReached
    /\ RestoredAsSaved
    /\ HungWhenStuck
=============================================================================
