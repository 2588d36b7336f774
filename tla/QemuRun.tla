-------------------------------- MODULE QemuRun --------------------------------
(***************************************************************************)
(* Runs of Windows VMs on QEMU. A weave process looks for a free display,  *)
(* starts the vTPM and the emulator, publishes the display of it, and      *)
(* waits; a goroutine reaps the emulator, another one types at its boot    *)
(* menu. Displays are ports of the host, which the runs share.             *)
(***************************************************************************)
EXTENDS Naturals, FiniteSets

CONSTANTS
    WindowsVMs,
    RunOptions,    \* what the runs of each VM may be asked for
    Displays,      \* displays of the host: 1..n, 100 in the code
    Killable,      \* VMs of which one run is killed
    Nobody

VARIABLES
    step,     \* where the weave process of each VM is
    opts,     \* a password was asked for, media are to be installed
    display,  \* the display it tries or uses, 0 for none
    emu,      \* its emulator
    tpm,      \* its vTPM serves
    file,     \* the display in the endpoint file, 0 without one
    cancel,   \* SIGINT came
    setup,    \* the goroutine that installs: idle, or whose machine it types at
    left      \* what a killed process left: its VM and its emulator

emuvars == <<step, opts, display, emu, tpm, file, cancel, setup, left>>

NoEmu == [st |-> "none", auth |-> "open", boot |-> "disk"]
NothingLeft == [vm |-> Nobody, st |-> "none", display |-> 0]

Live(v) == emu[v].st \in {"starting", "up"}

(* Who listens on a display. *)
Serving(d) == {v \in WindowsVMs : emu[v].st = "up" /\ display[v] = d}
Taken(d) ==
    \/ Serving(d) # {}
    \/ left.st = "up" /\ left.display = d
    \/ \E v \in WindowsVMs : step[v] = "probe" /\ display[v] = d

(* Who is connected to an emulator that ends is not any more. *)
Cuts(d) == setup' = [v \in WindowsVMs |-> IF display[v] = d /\ setup[v] # "dial" THEN "idle" ELSE setup[v]]
EmuEnds(v) ==
    /\ emu' = [emu EXCEPT ![v].st = IF Live(v) THEN "ended" ELSE @]
    /\ IF emu[v].st = "up" THEN Cuts(display[v]) ELSE UNCHANGED setup

Goto(v, s) == step' = [step EXCEPT ![v] = s]

(* The process ends, and its goroutines with it. *)
NoOpts == [password |-> FALSE, iso |-> FALSE]
Exits(v) ==
    /\ Goto(v, "none")
    /\ opts' = [opts EXCEPT ![v] = NoOpts]
    /\ display' = [display EXCEPT ![v] = 0]
    /\ emu' = [emu EXCEPT ![v] = NoEmu]
    /\ cancel' = [cancel EXCEPT ![v] = FALSE]
    /\ setup' = [setup EXCEPT ![v] = "idle"]

Ends(v) == Exits(v) /\ UNCHANGED left

-----------------------------------------------------------------------------
(* runWindows, Backend.Start *)

(* The lock of the configuration excludes a second run of the VM. *)
RunWindows(v) ==
    /\ step[v] = "none"
    /\ \E o \in RunOptions[v] : opts' = [opts EXCEPT ![v] = o]
    /\ Goto(v, "find")
    /\ display' = [display EXCEPT ![v] = 1]
    /\ UNCHANGED <<emu, tpm, file, cancel, setup, left>>

(* findFreeVNCDisplay listens, and closes again. *)
DisplayTaken(v) ==
    /\ step[v] = "find" /\ display[v] \in Displays /\ Taken(display[v])
    /\ display' = [display EXCEPT ![v] = @ + 1]
    /\ UNCHANGED <<step, opts, emu, tpm, file, cancel, setup, left>>

DisplayFree(v) ==
    /\ step[v] = "find" /\ display[v] \in Displays /\ ~Taken(display[v])
    /\ Goto(v, "probe")
    /\ UNCHANGED <<opts, display, emu, tpm, file, cancel, setup, left>>

DisplayFound(v) ==
    /\ step[v] = "probe"
    /\ Goto(v, "tpm")
    /\ UNCHANGED <<opts, display, emu, tpm, file, cancel, setup, left>>

StartTPM(v) ==
    /\ step[v] = "tpm"
    /\ tpm' = [tpm EXCEPT ![v] = TRUE]
    /\ Goto(v, "exec")
    /\ UNCHANGED <<opts, display, emu, file, cancel, setup, left>>

(* No toolchain, no variables to copy, no display, no vTPM. *)
StartFails(v) ==
    /\ step[v] \in {"find", "tpm"}
    /\ Ends(v)
    /\ UNCHANGED <<tpm, file>>

(* The media boot before the disk; the secret is applied after the start. *)
BuildArgs(o) ==
    [st |-> "starting", auth |-> IF o.password THEN "locked" ELSE "open",
     boot |-> IF o.iso THEN "media" ELSE "disk"]

Exec(v) ==
    /\ step[v] = "exec"
    /\ emu' = [emu EXCEPT ![v] = BuildArgs(opts[v])]
    /\ Goto(v, "dial")
    /\ UNCHANGED <<opts, display, tpm, file, cancel, setup, left>>

ExecFails(v) ==
    /\ step[v] = "exec"
    /\ tpm' = [tpm EXCEPT ![v] = FALSE]
    /\ Ends(v)
    /\ UNCHANGED file

(* dialQMP: the machine answers, or 15 seconds pass; both are a success.    *)
Dialled(v) ==
    /\ step[v] = "dial" /\ emu[v].st = "up"
    /\ Goto(v, IF opts[v].password THEN "password" ELSE "publish")
    /\ UNCHANGED <<opts, display, emu, tpm, file, cancel, setup, left>>

DialTimesOut(v) ==
    /\ step[v] = "dial"
    /\ Goto(v, "publish")
    /\ UNCHANGED <<opts, display, emu, tpm, file, cancel, setup, left>>

SetVNCPassword(v) ==
    /\ step[v] = "password" /\ emu[v].st = "up"
    /\ emu' = [emu EXCEPT ![v].auth = "set"]
    /\ Goto(v, "publish")
    /\ UNCHANGED <<opts, display, tpm, file, cancel, setup, left>>

PasswordFails(v) ==
    /\ step[v] = "password"
    /\ EmuEnds(v)
    /\ Goto(v, "discard")
    /\ UNCHANGED <<opts, display, tpm, file, cancel, left>>

Discarded(v) ==
    /\ step[v] = "discard" /\ emu[v].st = "reaped"
    /\ Ends(v)
    /\ UNCHANGED <<tpm, file>>

(* presentWindowsVNC, and the goroutine of the installation. *)
Publish(v) ==
    /\ step[v] = "publish"
    /\ file' = [file EXCEPT ![v] = display[v]]
    /\ setup' = [setup EXCEPT ![v] = IF opts[v].iso THEN "dial" ELSE "idle"]
    /\ Goto(v, "wait")
    /\ UNCHANGED <<opts, display, emu, tpm, cancel, left>>

-----------------------------------------------------------------------------
(* instance.Wait, Stop and kill *)

(* An error of the emulator is the end of a run like any other. *)
WaitEnds(v) ==
    /\ step[v] = "wait" /\ emu[v].st = "reaped"
    /\ file' = [file EXCEPT ![v] = 0]
    /\ Ends(v)
    /\ UNCHANGED tpm

WaitCancelled(v) ==
    /\ step[v] = "wait" /\ cancel[v]
    /\ Goto(v, "stop")
    /\ UNCHANGED <<opts, display, emu, tpm, file, cancel, setup, left>>

(* Where the machine heard of it, its guest shuts down, or does not. *)
StopEnds(v) ==
    /\ step[v] = "stop" /\ emu[v].st = "reaped"
    /\ file' = [file EXCEPT ![v] = 0]
    /\ Ends(v)
    /\ UNCHANGED tpm

StopTimesOut(v) ==
    /\ step[v] = "stop" /\ emu[v].st # "reaped"
    /\ Goto(v, "kill")
    /\ UNCHANGED <<opts, display, emu, tpm, file, cancel, setup, left>>

Kill(v) ==
    /\ step[v] = "kill"
    /\ EmuEnds(v)
    /\ Goto(v, "killed")
    /\ UNCHANGED <<opts, display, tpm, file, cancel, left>>

KillEnds(v) ==
    /\ step[v] = "killed" /\ emu[v].st = "reaped"
    /\ file' = [file EXCEPT ![v] = 0]
    /\ Ends(v)
    /\ UNCHANGED tpm

(* A process that is killed takes its vTPM along, and nothing else.         *)
Killed(v) ==
    /\ step[v] # "none" /\ v \in Killable /\ left.vm = Nobody
    /\ tpm' = [tpm EXCEPT ![v] = FALSE]
    /\ left' = IF Live(v) THEN [vm |-> v, st |-> emu[v].st, display |-> display[v]]
               ELSE [vm |-> v, st |-> "none", display |-> 0]
    /\ Exits(v)
    /\ UNCHANGED file

Interrupt(v) ==
    /\ step[v] # "none" /\ ~cancel[v]
    /\ cancel' = [cancel EXCEPT ![v] = TRUE]
    /\ UNCHANGED <<step, opts, display, emu, tpm, file, setup, left>>

-----------------------------------------------------------------------------
(* The emulators, and their reapers *)

Binds(v) ==
    /\ emu[v].st = "starting" /\ ~Taken(display[v])
    /\ emu' = [emu EXCEPT ![v].st = "up"]
    /\ UNCHANGED <<step, opts, display, tpm, file, cancel, setup, left>>

(* Its display is taken, its guest shuts down, or it dies. *)
EmulatorEnds(v) ==
    /\ Live(v) /\ EmuEnds(v)
    /\ UNCHANGED <<step, opts, display, tpm, file, cancel, left>>

ReapCloses(v) ==
    /\ emu[v].st = "ended"
    /\ tpm' = [tpm EXCEPT ![v] = FALSE]
    /\ emu' = [emu EXCEPT ![v].st = "closed"]
    /\ UNCHANGED <<step, opts, display, file, cancel, setup, left>>

ReapTells(v) ==
    /\ emu[v].st = "closed"
    /\ emu' = [emu EXCEPT ![v].st = "reaped"]
    /\ UNCHANGED <<step, opts, display, tpm, file, cancel, setup, left>>

LeftBinds ==
    /\ left.st = "starting" /\ ~Taken(left.display)
    /\ left' = [left EXCEPT !.st = "up"]
    /\ UNCHANGED <<step, opts, display, emu, tpm, file, cancel, setup>>

LeftEnds ==
    /\ left.st # "none"
    /\ left' = [left EXCEPT !.st = "none"]
    /\ IF left.st = "up" THEN Cuts(left.display) ELSE UNCHANGED setup
    /\ UNCHANGED <<step, opts, display, emu, tpm, file, cancel>>

-----------------------------------------------------------------------------
(* driveWindowsUEFISetup *)

(* A server without a password takes anyone, others who has theirs. *)
SetupConnects(v) ==
    /\ setup[v] = "dial" /\ ~cancel[v]
    /\ \/ /\ v \in Serving(display[v]) /\ emu[v].auth # "locked"
          /\ setup' = [setup EXCEPT ![v] = "own"]
       \/ /\ \/ \E w \in Serving(display[v]) \ {v} : emu[w].auth = "open"
             \/ left.st = "up" /\ left.display = display[v]
          /\ setup' = [setup EXCEPT ![v] = "other"]
    /\ UNCHANGED <<step, opts, display, emu, tpm, file, cancel, left>>

(* Done, cancelled, disconnected, or not connected in 30 seconds. *)
SetupEnds(v) ==
    /\ setup[v] # "idle"
    /\ setup' = [setup EXCEPT ![v] = "idle"]
    /\ UNCHANGED <<step, opts, display, emu, tpm, file, cancel, left>>

-----------------------------------------------------------------------------
Init ==
    /\ step = [v \in WindowsVMs |-> "none"]
    /\ opts = [v \in WindowsVMs |-> NoOpts]
    /\ display = [v \in WindowsVMs |-> 0]
    /\ emu = [v \in WindowsVMs |-> NoEmu]
    /\ tpm = [v \in WindowsVMs |-> FALSE]
    /\ file = [v \in WindowsVMs |-> 0]
    /\ cancel = [v \in WindowsVMs |-> FALSE]
    /\ setup = [v \in WindowsVMs |-> "idle"]
    /\ left = NothingLeft

Start(v) ==
    \/ RunWindows(v) \/ DisplayTaken(v) \/ DisplayFree(v) \/ DisplayFound(v)
    \/ StartTPM(v) \/ StartFails(v) \/ Exec(v) \/ ExecFails(v)
    \/ Dialled(v) \/ DialTimesOut(v) \/ SetVNCPassword(v) \/ PasswordFails(v) \/ Discarded(v)
    \/ Publish(v)

Finish(v) ==
    \/ WaitEnds(v) \/ WaitCancelled(v) \/ StopEnds(v) \/ StopTimesOut(v)
    \/ Kill(v) \/ KillEnds(v) \/ Killed(v) \/ Interrupt(v)

Next ==
    \/ \E v \in WindowsVMs :
          \/ Start(v) \/ Finish(v)
          \/ Binds(v) \/ EmulatorEnds(v) \/ ReapCloses(v) \/ ReapTells(v)
          \/ SetupConnects(v) \/ SetupEnds(v)
    \/ LeftBinds \/ LeftEnds

-----------------------------------------------------------------------------
Steps == {"none", "find", "probe", "tpm", "exec", "dial", "password", "discard", "publish", "wait", "stop", "kill", "killed"}

TypeOK ==
    /\ step \in [WindowsVMs -> Steps]
    /\ opts \in [WindowsVMs -> [password : BOOLEAN, iso : BOOLEAN]]
    /\ display \in [WindowsVMs -> Nat]
    /\ emu \in [WindowsVMs -> [st : {"none", "starting", "up", "ended", "closed", "reaped"},
                               auth : {"open", "locked", "set"}, boot : {"disk", "media"}]]
    /\ tpm \in [WindowsVMs -> BOOLEAN]
    /\ file \in [WindowsVMs -> Nat]
    /\ cancel \in [WindowsVMs -> BOOLEAN]
    /\ setup \in [WindowsVMs -> {"idle", "dial", "own", "other"}]
    /\ left \in [vm : WindowsVMs \cup {Nobody}, st : {"none", "starting", "up"}, display : Nat]

(* A run leaves no emulator behind, no vTPM and no endpoint, whichever way   *)
(* it ends, unless its process is killed (runWindows, Start, reap, kill).    *)
RunsLeaveNothing ==
    \A v \in WindowsVMs : step[v] = "none" =>
        /\ emu[v] = NoEmu /\ ~tpm[v]
        /\ file[v] # 0 => left.vm = v

(* A guest has its vTPM as long as it runs (reap): it is closed for an       *)
(* emulator that has ended, and never for one that goes on.                  *)
TPMOutlivesGuest == \A v \in WindowsVMs : Live(v) => tpm[v]

(* What is published is the run's own machine's display: whoever else        *)
(* answers there does so before that machine does, or after it (findFree-    *)
(* VNCDisplay, and the installation's keys).                                 *)
KeysGoHome ==
    \A v \in WindowsVMs :
        /\ setup[v] = "other" => emu[v].st # "up"
        /\ step[v] \in {"wait", "stop"} /\ emu[v].st = "up" => Serving(file[v]) = {v}

(* A machine one must have a password for is never published open. *)
PasswordKept ==
    \A v \in WindowsVMs : Live(v) /\ opts[v].password => emu[v].auth # "open"

EmuSafe ==
    /\ TypeOK
    /\ RunsLeaveNothing
    /\ TPMOutlivesGuest
    /\ KeysGoHome
    /\ PasswordKept
=============================================================================
