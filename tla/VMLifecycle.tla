----------------------------- MODULE VMLifecycle -----------------------------
(***************************************************************************)
(* The directories under ~/.weave/vms and the weave processes that run,    *)
(* stop, suspend, delete, clone, create, import, rename and set what is in *)
(* them. Two locks keep them apart: an fcntl(2) record lock on a VM's      *)
(* config.json, held as long as the VM runs and asked for its holder's pid *)
(* by everyone else, and an flock(2) on the home directory, held from the  *)
(* check of MAC addresses until the record lock is taken.                  *)
(*                                                                         *)
(* A record lock belongs to the inode that was opened, not to its path,    *)
(* and to the process: it ends when the process ends, or when the process  *)
(* closes any descriptor of the file.                                      *)
(***************************************************************************)
EXTENDS Naturals, FiniteSets

CONSTANTS
    Names,      \* names of VMs
    Procs,      \* weave processes, each named by its pid
    Inodes,     \* inodes of config.json files: the bound on their number
    Disks,      \* disk images: the bound on their number
    MACs,       \* MAC addresses: the bound on their number
    None,       \* no name, process, inode, disk or MAC
    Ops         \* the commands and events of a history

AllOps == {"run", "stop", "suspend", "delete", "clone", "create", "import", "rename", "set", "persist", "kill"}

ASSUME ConstantsAssumption ==
    /\ None \notin Names /\ None \notin Procs /\ None \notin Inodes /\ None \notin Disks /\ None \notin MACs
    /\ Ops \subseteq AllOps

VARIABLES
    dir,        \* what is under each name
    holder,     \* the holder of the record lock of each inode
    home,       \* the holder of the home directory's flock
    proc,       \* what each process is doing
    intr,       \* the runs with a SIGINT to handle
    usr1        \* the runs with a SIGUSR1 to handle

vars == <<dir, holder, home, proc, intr, usr1>>

-----------------------------------------------------------------------------
(* Types *)

VMs == [ino : Inodes, disk : Disks, mac : MACs, state : BOOLEAN]
NoVM == [ino |-> None, disk |-> None, mac |-> None, state |-> FALSE]

(* The steps of a run: in Driving ones the machine runs, Served ones take   *)
(* signals, in Locked ones config.json is locked, in Opened ones it is      *)
(* open, and in Attached ones the machine has its disk. Guarded steps, of   *)
(* whatever command, are those under the flock of the home.                 *)
Driving == {"live", "suspend"}
Served == Driving \cup {"run_boot"}
Locked == Served \cup {"run_unlock"}
Opened == Locked \cup {"run_trylock"}
Attached == Opened \cup {"run_open"}
Moving == {"move_remove", "move_rename"}
Checking == {"run_check", "run_build", "run_open", "run_trylock", "run_unlock", "clone_copy", "import_check"}
Guarded == Checking \cup Moving
Steps == Attached \cup Guarded \cup
    {"idle", "run_home", "stop_suspended", "stop_find", "stop_signal", "stop_wait", "suspend_signal",
     "delete_trylock", "delete_remove", "clone_home", "import_home", "rename_remove", "rename_rename",
     "set_save", "set_disk"}

Records == [pc : Steps, name : Names \cup {None}, from : Names \cup {None}, mac : MACs \cup {None},
            state : BOOLEAN, disk : Disks \cup {None}, ino : Inodes \cup {None}, pid : Procs \cup {None}]

Idle == [pc |-> "idle", name |-> None, from |-> None, mac |-> None, state |-> FALSE, disk |-> None,
         ino |-> None, pid |-> None]

(* Signals are for runs that serve them, and only those hold any. *)
TypeOK ==
    /\ dir \in [Names -> VMs \cup {NoVM}]
    /\ holder \in [Inodes -> Procs \cup {None}]
    /\ home \in Procs \cup {None}
    /\ proc \in [Procs -> Records]
    /\ intr \in SUBSET Procs
    /\ usr1 \in SUBSET Procs
    /\ \A p \in intr \cup usr1 : proc[p].pc \in Served

-----------------------------------------------------------------------------
(* Helpers *)

AnyOne(S) == CHOOSE x \in S : TRUE

Exists(n) == dir[n].ino # None

FreeInodes == Inodes \ ({dir[n].ino : n \in Names} \cup {proc[p].ino : p \in Procs})
FreeDisks == Disks \ ({dir[n].disk : n \in Names} \cup {proc[p].disk : p \in Procs})
FreeMACs == MACs \ ({dir[n].mac : n \in Names} \cup {proc[p].mac : p \in Procs})

(* VMDirectory.Running and PIDLock.PID: the pid that F_GETLK gives. *)
PID(ino) == IF ino = None THEN None ELSE holder[ino]
Running(n) == PID(dir[n].ino) # None

(* A saved state is removed, if it is there. *)
StateDropped(n) == IF Exists(n) THEN [dir EXCEPT ![n].state = FALSE] ELSE dir

Begin(p, pc, n) == proc' = [proc EXCEPT ![p] = [Idle EXCEPT !.pc = pc, !.name = n]]
Goto(p, pc) == proc' = [proc EXCEPT ![p].pc = pc]

(* Processes end, whatever they were doing: the kernel drops their locks,   *)
(* and from then on their pids are nobody's.                                *)
Exit(S) ==
    /\ holder' = [i \in Inodes |-> IF holder[i] \in S THEN None ELSE holder[i]]
    /\ home' = IF home \in S THEN None ELSE home
    /\ proc' = [p \in Procs |-> IF p \in S THEN Idle
                                ELSE IF proc[p].pid \in S THEN [proc[p] EXCEPT !.pid = None] ELSE proc[p]]
    /\ intr' = intr \ S
    /\ usr1' = usr1 \ S

Stops(p) == Exit({p}) /\ UNCHANGED dir

-----------------------------------------------------------------------------
(* weave run *)

RunStart(p, n) ==
    /\ "run" \in Ops /\ proc[p] = Idle /\ Exists(n)
    /\ Begin(p, "run_home", n)
    /\ UNCHANGED <<dir, holder, home, intr, usr1>>

RunHome(p) ==
    /\ proc[p].pc = "run_home" /\ home = None
    /\ home' = p
    /\ Goto(p, "run_check")
    /\ UNCHANGED <<dir, holder, intr, usr1>>

SameMACRuns(n) == \E m \in Names \ {n} : Running(m) /\ dir[m].mac = dir[n].mac

(* RegenerateMACAddress drops the saved state and replaces config.json. *)
RegenerateMACAddress(n) ==
    /\ FreeInodes # {} /\ FreeMACs # {}
    /\ dir' = [dir EXCEPT ![n] = [@ EXCEPT !.ino = AnyOne(FreeInodes), !.mac = AnyOne(FreeMACs), !.state = FALSE]]

(* Faulty: only the names are compared. *)
RunCheckMACNot(p) ==
    /\ proc[p].pc = "run_check" /\ Exists(proc[p].name)
    /\ Goto(p, "run_build")
    /\ UNCHANGED <<dir, holder, home, intr, usr1>>

RunCheckMAC(p) ==
    /\ proc[p].pc = "run_check" /\ Exists(proc[p].name)
    /\ IF SameMACRuns(proc[p].name) THEN RegenerateMACAddress(proc[p].name) ELSE UNCHANGED dir
    /\ Goto(p, "run_build")
    /\ UNCHANGED <<holder, home, intr, usr1>>

RunBuild(p) ==
    /\ proc[p].pc = "run_build" /\ Exists(proc[p].name)
    /\ proc' = [proc EXCEPT ![p] = [@ EXCEPT !.pc = "run_open", !.disk = dir[proc[p].name].disk]]
    /\ UNCHANGED <<dir, holder, home, intr, usr1>>

RunOpenLock(p) ==
    /\ proc[p].pc = "run_open" /\ Exists(proc[p].name)
    /\ proc' = [proc EXCEPT ![p] = [@ EXCEPT !.pc = "run_trylock", !.ino = dir[proc[p].name].ino]]
    /\ UNCHANGED <<dir, holder, home, intr, usr1>>

(* The directory, or a file in it, is gone. *)
RunMissing(p) ==
    /\ proc[p].pc \in {"run_check", "run_build", "run_open"} /\ ~Exists(proc[p].name)
    /\ Stops(p)

(* Faulty: the outcome of Trylock is not looked at. *)
RunTrylockAnyway(p) ==
    /\ proc[p].pc = "run_trylock"
    /\ holder' = [holder EXCEPT ![proc[p].ino] = IF @ = None THEN p ELSE @]
    /\ Goto(p, "run_unlock")
    /\ UNCHANGED <<dir, home, intr, usr1>>

RunTrylock(p) ==
    /\ proc[p].pc = "run_trylock"
    /\ holder[proc[p].ino] = None
    /\ holder' = [holder EXCEPT ![proc[p].ino] = p]
    /\ Goto(p, "run_unlock")
    /\ UNCHANGED <<dir, home, intr, usr1>>

RunAlreadyRunning(p) ==
    /\ proc[p].pc = "run_trylock" /\ holder[proc[p].ino] # None
    /\ Stops(p)

(* Faulty: the home stays locked until the process ends. *)
RunUnlockHomeNot(p) ==
    /\ proc[p].pc = "run_unlock"
    /\ Goto(p, "run_boot")
    /\ UNCHANGED <<dir, holder, home, intr, usr1>>

(* From here on signals are served; until now SIGINT was ignored, and       *)
(* SIGUSR1 ended the process.                                               *)
RunUnlockHome(p) ==
    /\ proc[p].pc = "run_unlock"
    /\ home' = IF home = p THEN None ELSE home
    /\ Goto(p, "run_boot")
    /\ UNCHANGED <<dir, holder, intr, usr1>>

(* A saved state is restored from, and removed, under the name. *)
RunBoot(p) ==
    /\ proc[p].pc = "run_boot"
    /\ dir' = StateDropped(proc[p].name)
    /\ Goto(p, "live")
    /\ UNCHANGED <<holder, home, intr, usr1>>

(* The machine cannot be restored or started, or it was to be suspended     *)
(* before it ran.                                                           *)
RunBootFails(p) == proc[p].pc = "run_boot" /\ Stops(p)

GuestEnds(p) == proc[p].pc = "live" /\ Stops(p)

RunInterrupted(p) == p \in intr /\ proc[p].pc \in Driving /\ Stops(p)

(* The machine has devices that cannot be saved: it runs on. *)
SuspendRefused(p) ==
    /\ p \in usr1 /\ proc[p].pc = "live"
    /\ usr1' = usr1 \ {p}
    /\ UNCHANGED <<dir, holder, home, proc, intr>>

RunSuspend(p) ==
    /\ p \in usr1 /\ proc[p].pc = "live"
    /\ usr1' = usr1 \ {p}
    /\ Goto(p, "suspend")
    /\ UNCHANGED <<dir, holder, home, intr>>

(* The state is saved under the name, and the process ends. *)
SuspendSave(p) ==
    /\ proc[p].pc = "suspend"
    /\ IF Exists(proc[p].name) THEN dir' = [dir EXCEPT ![proc[p].name].state = TRUE] ELSE UNCHANGED dir
    /\ Exit({p})

(* `weave clipboard set --persist`: the run reads config.json and writes it *)
(* in place; closing it drops the record lock the run holds on it.          *)
Persist(p) ==
    /\ "persist" \in Ops /\ proc[p].pc = "live" /\ PID(dir[proc[p].name].ino) = p
    /\ holder' = [holder EXCEPT ![dir[proc[p].name].ino] = None]
    /\ UNCHANGED <<dir, home, proc, intr, usr1>>

-----------------------------------------------------------------------------
(* weave stop and weave suspend *)

StopStart(p, n) ==
    /\ "stop" \in Ops /\ proc[p] = Idle /\ Exists(n)
    /\ \/ Running(n) /\ Begin(p, "stop_find", n)
       \/ ~Running(n) /\ dir[n].state /\ Begin(p, "stop_suspended", n)
    /\ UNCHANGED <<dir, holder, home, intr, usr1>>

StopSuspended(p) ==
    /\ proc[p].pc = "stop_suspended"
    /\ dir' = StateDropped(proc[p].name)
    /\ Exit({p})

StopFind(p) ==
    /\ proc[p].pc = "stop_find" /\ Running(proc[p].name)
    /\ proc' = [proc EXCEPT ![p] = [@ EXCEPT !.pc = "stop_signal", !.ino = dir[proc[p].name].ino,
                                             !.pid = PID(dir[proc[p].name].ino)]]
    /\ UNCHANGED <<dir, holder, home, intr, usr1>>

StopNotRunning(p) == proc[p].pc = "stop_find" /\ ~Running(proc[p].name) /\ Stops(p)

StopSignal(p) ==
    /\ proc[p].pc = "stop_signal"
    /\ intr' = intr \cup {q \in {proc[p].pid} \cap Procs : proc[q].pc \in Served}
    /\ Goto(p, "stop_wait")
    /\ UNCHANGED <<dir, holder, home, usr1>>

(* Every tick asks again who holds the lock of the file opened at first. *)
StopPoll(p) ==
    /\ proc[p].pc = "stop_wait" /\ PID(proc[p].ino) # None
    /\ proc' = [proc EXCEPT ![p].pid = PID(proc[p].ino)]
    /\ UNCHANGED <<dir, holder, home, intr, usr1>>

StopOk(p) == proc[p].pc = "stop_wait" /\ PID(proc[p].ino) = None /\ Stops(p)

(* Faulty: stop gives up. *)
StopTimeoutGivesUp(p) == proc[p].pc = "stop_wait" /\ Stops(p)

(* SIGKILL to the pid seen last; nothing happens when it is nobody's. *)
StopTimeout(p) ==
    /\ proc[p].pc = "stop_wait"
    /\ Exit({p, proc[p].pid})
    /\ UNCHANGED dir

SuspendStart(p, n) ==
    /\ "suspend" \in Ops /\ proc[p] = Idle /\ Running(n)
    /\ proc' = [proc EXCEPT ![p] = [Idle EXCEPT !.pc = "suspend_signal", !.pid = PID(dir[n].ino)]]
    /\ UNCHANGED <<dir, holder, home, intr, usr1>>

(* SIGUSR1 is for the run to serve, and ends a process that does not.       *)
SuspendSignal(p) ==
    /\ proc[p].pc = "suspend_signal" /\ proc[p].pid # None
    /\ proc[proc[p].pid].pc \in Served
    /\ usr1' = usr1 \cup {proc[p].pid}
    /\ proc' = [proc EXCEPT ![p] = Idle]
    /\ UNCHANGED <<dir, holder, home, intr>>

SuspendKills(p) ==
    /\ proc[p].pc = "suspend_signal"
    /\ proc[p].pid # None => proc[proc[p].pid].pc \notin Served
    /\ Exit({p, proc[p].pid})
    /\ UNCHANGED dir

-----------------------------------------------------------------------------
(* weave delete *)

DeleteOpen(p, n) ==
    /\ "delete" \in Ops /\ proc[p] = Idle /\ Exists(n)
    /\ proc' = [proc EXCEPT ![p] = [Idle EXCEPT !.pc = "delete_trylock", !.name = n, !.ino = dir[n].ino]]
    /\ UNCHANGED <<dir, holder, home, intr, usr1>>

(* Faulty: a VM that runs is deleted as well. *)
DeleteTrylockAnyway(p) ==
    /\ proc[p].pc = "delete_trylock"
    /\ holder' = [holder EXCEPT ![proc[p].ino] = p]
    /\ Goto(p, "delete_remove")
    /\ UNCHANGED <<dir, home, intr, usr1>>

DeleteTrylock(p) ==
    /\ proc[p].pc = "delete_trylock" /\ holder[proc[p].ino] = None
    /\ holder' = [holder EXCEPT ![proc[p].ino] = p]
    /\ Goto(p, "delete_remove")
    /\ UNCHANGED <<dir, home, intr, usr1>>

DeleteRunning(p) == proc[p].pc = "delete_trylock" /\ holder[proc[p].ino] # None /\ Stops(p)

(* What is removed is what has the name by now. *)
DeleteRemove(p) ==
    /\ proc[p].pc = "delete_remove"
    /\ dir' = [dir EXCEPT ![proc[p].name] = NoVM]
    /\ Exit({p})

-----------------------------------------------------------------------------
(* weave clone, import and create: each makes a VM in a temporary directory *)
(* and moves it to its name, over what is there.                            *)

CloneStart(p, n, m) ==
    /\ "clone" \in Ops /\ proc[p] = Idle /\ Exists(n)
    /\ proc' = [proc EXCEPT ![p] = [Idle EXCEPT !.pc = "clone_home", !.name = m, !.from = n]]
    /\ UNCHANGED <<dir, holder, home, intr, usr1>>

CloneHome(p) ==
    /\ proc[p].pc = "clone_home" /\ home = None
    /\ home' = p
    /\ Goto(p, "clone_copy")
    /\ UNCHANGED <<dir, holder, intr, usr1>>

(* The source's MAC address and state are copied, or with --random-mac      *)
(* regenerated and dropped.                                                 *)
CloneCopy(p) ==
    LET source == dir[proc[p].from]
        Copied(mac, state) ==
            proc' = [proc EXCEPT ![p] = [@ EXCEPT !.pc = "move_remove", !.mac = mac, !.state = state]]
    IN  /\ proc[p].pc = "clone_copy" /\ Exists(proc[p].from)
        /\ \/ Copied(source.mac, source.state)
           \/ FreeMACs # {} /\ Copied(AnyOne(FreeMACs), FALSE)
        /\ UNCHANGED <<dir, holder, home, intr, usr1>>

CloneMissing(p) == proc[p].pc = "clone_copy" /\ ~Exists(proc[p].from) /\ Stops(p)

(* An exported VM has the MAC address it had. *)
ImportStart(p, n, mac) ==
    /\ "import" \in Ops /\ proc[p] = Idle
    /\ proc' = [proc EXCEPT ![p] = [Idle EXCEPT !.pc = "import_home", !.name = n, !.mac = mac]]
    /\ UNCHANGED <<dir, holder, home, intr, usr1>>

(* Faulty: the addresses are compared without the flock. *)
ImportHomeUnlocked(p) ==
    /\ proc[p].pc = "import_home"
    /\ Goto(p, "import_check")
    /\ UNCHANGED <<dir, holder, home, intr, usr1>>

ImportHome(p) ==
    /\ proc[p].pc = "import_home" /\ home = None
    /\ home' = p
    /\ Goto(p, "import_check")
    /\ UNCHANGED <<dir, holder, intr, usr1>>

HasVMsWithMACAddress(mac) == \E n \in Names : dir[n].mac = mac

ImportCheckMAC(p) ==
    /\ proc[p].pc = "import_check"
    /\ \/ /\ ~HasVMsWithMACAddress(proc[p].mac)
          /\ Goto(p, "move_remove")
       \/ /\ HasVMsWithMACAddress(proc[p].mac) /\ FreeMACs # {}
          /\ proc' = [proc EXCEPT ![p] = [@ EXCEPT !.pc = "move_remove", !.mac = AnyOne(FreeMACs)]]
    /\ UNCHANGED <<dir, holder, home, intr, usr1>>

(* A created VM has an address of its own; its move is not guarded. *)
CreateStart(p, n) ==
    /\ "create" \in Ops /\ proc[p] = Idle /\ FreeMACs # {}
    /\ proc' = [proc EXCEPT ![p] = [Idle EXCEPT !.pc = "move_remove", !.name = n, !.mac = AnyOne(FreeMACs)]]
    /\ UNCHANGED <<dir, holder, home, intr, usr1>>

(* FileManagerReplaceItem: remove, then rename. *)
MoveRemove(p) ==
    /\ proc[p].pc = "move_remove"
    /\ dir' = [dir EXCEPT ![proc[p].name] = NoVM]
    /\ Goto(p, "move_rename")
    /\ UNCHANGED <<holder, home, intr, usr1>>

MoveRename(p) ==
    /\ proc[p].pc = "move_rename" /\ ~Exists(proc[p].name)
    /\ FreeInodes # {} /\ FreeDisks # {}
    /\ dir' = [dir EXCEPT ![proc[p].name] = [ino |-> AnyOne(FreeInodes), disk |-> AnyOne(FreeDisks),
                                             mac |-> proc[p].mac, state |-> proc[p].state]]
    /\ Exit({p})

(* Another VM got the name in between: a directory that is not empty.       *)
MoveFails(p) == proc[p].pc = "move_rename" /\ Exists(proc[p].name) /\ Stops(p)

-----------------------------------------------------------------------------
(* weave rename: no lock at all *)

RenameStart(p, n, m) ==
    /\ "rename" \in Ops /\ proc[p] = Idle /\ Exists(n) /\ ~Exists(m)
    /\ proc' = [proc EXCEPT ![p] = [Idle EXCEPT !.pc = "rename_remove", !.name = m, !.from = n]]
    /\ UNCHANGED <<dir, holder, home, intr, usr1>>

RenameRemove(p) ==
    /\ proc[p].pc = "rename_remove"
    /\ dir' = [dir EXCEPT ![proc[p].name] = NoVM]
    /\ Goto(p, "rename_rename")
    /\ UNCHANGED <<holder, home, intr, usr1>>

RenameRename(p) ==
    /\ proc[p].pc = "rename_rename" /\ Exists(proc[p].from) /\ ~Exists(proc[p].name)
    /\ dir' = [dir EXCEPT ![proc[p].name] = dir[proc[p].from], ![proc[p].from] = NoVM]
    /\ Exit({p})

RenameFails(p) ==
    /\ proc[p].pc = "rename_rename" /\ (Exists(proc[p].from) => Exists(proc[p].name))
    /\ Stops(p)

-----------------------------------------------------------------------------
(* weave set: the configuration is loaded, changed and saved, without a     *)
(* lock; saving replaces config.json. With --disk the disk is replaced too. *)

SetLoad(p, n) ==
    /\ "set" \in Ops /\ proc[p] = Idle /\ Exists(n)
    /\ \E mac \in {dir[n].mac} \cup (IF FreeMACs = {} THEN {} ELSE {AnyOne(FreeMACs)}) :
        proc' = [proc EXCEPT ![p] = [Idle EXCEPT !.pc = "set_save", !.name = n, !.mac = mac]]
    /\ UNCHANGED <<dir, holder, home, intr, usr1>>

SetSave(p) ==
    /\ proc[p].pc = "set_save" /\ Exists(proc[p].name) /\ FreeInodes # {}
    /\ dir' = [dir EXCEPT ![proc[p].name] = [@ EXCEPT !.ino = AnyOne(FreeInodes), !.mac = proc[p].mac]]
    /\ \/ Exit({p})
       \/ Goto(p, "set_disk") /\ UNCHANGED <<holder, home, intr, usr1>>

SetDisk(p) ==
    /\ proc[p].pc = "set_disk" /\ Exists(proc[p].name) /\ FreeDisks # {}
    /\ dir' = [dir EXCEPT ![proc[p].name].disk = AnyOne(FreeDisks)]
    /\ Exit({p})

SetMissing(p) == proc[p].pc \in {"set_save", "set_disk"} /\ ~Exists(proc[p].name) /\ Stops(p)

-----------------------------------------------------------------------------
Kill(p) == "kill" \in Ops /\ proc[p] # Idle /\ Stops(p)

Run(p) ==
    \/ \E n \in Names : RunStart(p, n)
    \/ RunHome(p)
    \/ RunCheckMAC(p)
    \/ RunBuild(p)
    \/ RunOpenLock(p)
    \/ RunMissing(p)
    \/ RunTrylock(p)
    \/ RunAlreadyRunning(p)
    \/ RunUnlockHome(p)
    \/ RunBoot(p)
    \/ RunBootFails(p)
    \/ GuestEnds(p)
    \/ RunInterrupted(p)
    \/ SuspendRefused(p)
    \/ RunSuspend(p)
    \/ SuspendSave(p)
    \/ Persist(p)

Stop(p) ==
    \/ \E n \in Names : StopStart(p, n)
    \/ StopSuspended(p)
    \/ StopFind(p)
    \/ StopNotRunning(p)
    \/ StopSignal(p)
    \/ StopPoll(p)
    \/ StopOk(p)
    \/ StopTimeout(p)
    \/ \E n \in Names : SuspendStart(p, n)
    \/ SuspendSignal(p)
    \/ SuspendKills(p)

Change(p) ==
    \/ \E n \in Names : DeleteOpen(p, n)
    \/ DeleteTrylock(p)
    \/ DeleteRunning(p)
    \/ DeleteRemove(p)
    \/ \E n, m \in Names : CloneStart(p, n, m)
    \/ CloneHome(p)
    \/ CloneCopy(p)
    \/ CloneMissing(p)
    \/ \E n \in Names, mac \in MACs : ImportStart(p, n, mac)
    \/ ImportHome(p)
    \/ ImportCheckMAC(p)
    \/ \E n \in Names : CreateStart(p, n)
    \/ MoveRemove(p)
    \/ MoveRename(p)
    \/ MoveFails(p)
    \/ \E n, m \in Names : RenameStart(p, n, m)
    \/ RenameRemove(p)
    \/ RenameRename(p)
    \/ RenameFails(p)
    \/ \E n \in Names : SetLoad(p, n)
    \/ SetSave(p)
    \/ SetDisk(p)
    \/ SetMissing(p)

Next == \E p \in Procs : Run(p) \/ Stop(p) \/ Change(p) \/ Kill(p)

(* VMs share neither config.json nor disk; they may share a MAC address.    *)
Init ==
    /\ dir \in [Names -> VMs \cup {NoVM}]
    /\ \A n, m \in Names : n # m /\ dir[n] # NoVM => dir[n].ino # dir[m].ino /\ dir[n].disk # dir[m].disk
    /\ holder = [i \in Inodes |-> None]
    /\ home = None
    /\ proc = [p \in Procs |-> Idle]
    /\ intr = {}
    /\ usr1 = {}

(* A process that is scheduled takes its steps; the wait for the flock, the *)
(* guest's own end and the outcome of a suspension are not promised.        *)
Progress(p) ==
    \/ RunCheckMAC(p) \/ RunBuild(p) \/ RunOpenLock(p) \/ RunMissing(p) \/ RunTrylock(p)
    \/ RunAlreadyRunning(p) \/ RunUnlockHome(p) \/ RunBoot(p) \/ RunInterrupted(p)
    \/ StopFind(p) \/ StopNotRunning(p) \/ StopSignal(p) \/ StopOk(p)

Spec == Init /\ [][Next]_vars

FairSpec == Spec /\ \A p \in Procs : WF_vars(Progress(p)) /\ WF_vars(StopTimeout(p))

-----------------------------------------------------------------------------
(* Properties *)

(* No config.json and no disk is under two names: what moves, replaces and  *)
(* renames directories in two steps never leaves one VM under both.         *)
NamesShareNothing ==
    \A n, m \in Names : n # m /\ Exists(n) => dir[n].ino # dir[m].ino /\ dir[n].disk # dir[m].disk

(* Addresses are compared under the home's flock, by one process at a time: *)
(* two starting runs, or a run and an import, do not miss each other.       *)
MACChecksSerialised ==
    \A p \in Procs : proc[p].pc \in Checking => home = p

(* What every history of every command keeps of the directories' names.     *)
NamesSafe == TypeOK /\ NamesShareNothing /\ MACChecksSerialised

(* No two processes drive machines on one disk image. *)
OneMachinePerDisk ==
    \A p, q \in Procs :
        p # q /\ proc[p].pc \in Driving /\ proc[q].pc \in Driving => proc[p].disk # proc[q].disk

(* While a machine runs on the disk of a VM, that VM is reported running:   *)
(* the lock of what is its config.json by now is the run's.                 *)
LiveReportedRunning ==
    \A p \in Procs, n \in Names :
        proc[p].pc \in Driving /\ Exists(n) /\ dir[n].disk = proc[p].disk => PID(dir[n].ino) = p

(* The configurations of VMs that are reported running hold different MAC   *)
(* addresses.                                                               *)
ConfiguredMACsDistinct ==
    \A n, m \in Names : n # m /\ Running(n) /\ Running(m) => dir[n].mac # dir[m].mac

(* The locks implement the lease of DiskLease: a machine is started on a    *)
(* disk that no other machine has, and lets go of it before another starts. *)
Lease == INSTANCE DiskLease WITH
    lease <- [p \in Procs |-> IF proc[p].pc \in Driving THEN proc[p].disk ELSE None]

ImplementsDiskLease == Lease!Spec

(* A run that a stop waits for ends, by its signal or when the time is out. *)
StopEndsTheMachine ==
    \A p, q \in Procs : proc[p].pc = "stop_wait" /\ proc[p].pid = q ~> proc[q].pc \notin Locked

(* When stop reports success, no machine runs on the file it waited for.    *)
StopOkMeansStopped ==
    [][\A p, q \in Procs : StopOk(p) /\ proc[q].pc \in Driving => proc[q].ino # proc[p].ino]_vars

(* The flock of the home, which every run, clone and import needs, is given *)
(* back by whoever holds it.                                                *)
HomeReleased == \A p \in Procs : home = p ~> home # p

-----------------------------------------------------------------------------
(* What a process knows at a step, in every history. *)
WellFormed(r) ==
    /\ r.pc \notin {"idle", "suspend_signal"} => r.name \in Names
    /\ r.pc \in {"clone_home", "clone_copy", "rename_remove", "rename_rename"} => r.from \in Names
    /\ r.pc \in {"import_home", "import_check", "set_save"} \cup Moving => r.mac \in MACs
    /\ r.pc \in Opened \cup {"stop_signal", "stop_wait", "delete_trylock", "delete_remove"} => r.ino \in Inodes
    /\ r.pc \in Attached => r.disk \in Disks

Formed == \A p \in Procs : WellFormed(proc[p])

(* The inductive invariant, for histories of run, stop, suspend, clone,     *)
(* import and kill.                                                         *)

SafeOps == Ops \cap {"delete", "create", "rename", "set", "persist"} = {}

OnlySafe ==
    \A p \in Procs : proc[p].pc \notin {"delete_trylock", "delete_remove", "rename_remove", "rename_rename",
                                        "set_save", "set_disk"}

(* The flock is held by who is at a guarded step. *)
HomeOwned == \A p \in Procs : proc[p].pc \in Guarded <=> home = p

(* Record locks are those of runs, on the inode each opened. *)
LocksOwned ==
    \A p \in Procs, i \in Inodes : holder[i] = p <=> proc[p].pc \in Locked /\ proc[p].ino = i

(* A machine's disk and the config.json that was locked for it are one VM's *)
(* or, both, no VM's any more; machines share both or neither.              *)
Bound ==
    \A p \in Procs : proc[p].pc \in Opened =>
        /\ \A n \in Names : Exists(n) => (dir[n].disk = proc[p].disk <=> dir[n].ino = proc[p].ino)
        /\ \A q \in Procs : proc[q].pc \in Opened => (proc[q].disk = proc[p].disk <=> proc[q].ino = proc[p].ino)

(* What a run checked and opened under the flock still holds when it locks. *)
Prepared ==
    \A p \in Procs :
        /\ proc[p].pc \in {"run_build", "run_open", "run_trylock"} =>
            Exists(proc[p].name) /\ ~SameMACRuns(proc[p].name)
        /\ proc[p].pc \in {"run_open", "run_trylock"} => proc[p].disk = dir[proc[p].name].disk
        /\ proc[p].pc = "run_trylock" => proc[p].ino = dir[proc[p].name].ino

IInv ==
    /\ TypeOK
    /\ Formed
    /\ OnlySafe
    /\ HomeOwned
    /\ LocksOwned
    /\ NamesShareNothing
    /\ Bound
    /\ Prepared
    /\ ConfiguredMACsDistinct
=============================================================================
