----------------------------- MODULE RunDevices -----------------------------
(***************************************************************************)
(* What a run makes of its command line: options are parsed, disks and     *)
(* shares resolved one by one, remote disks and archives in temporary      *)
(* files, the machine configured, the VM locked, and its saved state       *)
(* restored if there is one; a revert builds the machine again.  Beside    *)
(* it, the collection that any other command starts with removes temporary *)
(* files whose flock is free.                                              *)
(*                                                                         *)
(* An argument is what is between its colons.  The processes run one VM.   *)
(***************************************************************************)
EXTENDS Naturals, Sequences, SequencesExt

CONSTANTS
    DevRuns,     \* processes that run the VM, once each
    Lines,       \* sets of command lines, of which a history has one set
    Means(_),    \* what a user means by a line, as the manual says
    KindOf(_),   \* what a path leads to
    Hosts,       \* versions of macOS
    MaxTemps

VARIABLES
    mac, lines,
    run,         \* [pc, line, susp, next, temp]: the step, the options, the device to be
                 \* built and its temporary file
    built,       \* [devs, set]: the devices of the machine, and what is fixed of it
    saved,       \* the saved state: of which machine
    temps,       \* temporary files: [there, lock]
    holder       \* of the lock on config.json

dvars == <<mac, lines, run, built, saved, temps, holder>>

Nobody == "none"
Auto == "auto"   \* the tag guests mount by themselves
NoTemp == [there |-> FALSE, lock |-> Nobody]
TempIds == 1..MaxTemps
NoLine == [disks |-> <<>>, dirs |-> <<>>, shared |-> <<>>, suspendable |-> FALSE, noInput |-> FALSE, noAudio |-> FALSE]
CommandLines == [disks : Seq(Seq(STRING)), dirs : Seq(Seq(STRING)), shared : Seq(Seq(STRING)),
                 suspendable : BOOLEAN, noInput : BOOLEAN, noAudio : BOOLEAN]
NoSet == [audio |-> FALSE, entropy |-> FALSE, input |-> "none"]
NotSaved == [line |-> NoLine, set |-> NoSet, there |-> FALSE]
NotBuilt == [devs |-> <<>>, set |-> NoSet]
At(r, pcs) == run[r].pc \in pcs
Goto(r, pc) == run' = [run EXCEPT ![r].pc = pc]

-----------------------------------------------------------------------------
(* Parsing                                                                 *)

(* What the last argument says, nothing if it is not a list of options. *)
OptionsOf(s) ==
    CASE s = "ro" -> {"ro"} [] s = "tag=b" -> {"tag=b"} [] s = "ro,tag=b" -> {"ro", "tag=b"} [] OTHER -> {}

(* The arguments before the options. *)
Body(spec) == IF OptionsOf(Last(spec)) # {} THEN Front(spec) ELSE spec

parseAdditionalDiskOptions(spec) ==
    [what |-> "disk", name |-> "", path |-> Body(spec), ro |-> "ro" \in OptionsOf(Last(spec)), tag |-> ""]

parseDirectoryShare(spec) ==
    LET rest == Body(spec)
        named == Head(rest) \notin {"http", "https"} /\ Len(rest) > 1
        options == OptionsOf(Last(spec))
    IN  [what |-> "share", name |-> IF named THEN Head(rest) ELSE "", path |-> IF named THEN Tail(rest) ELSE rest,
         ro |-> "ro" \in options, tag |-> IF "tag=b" \in options THEN "b" ELSE Auto]

(* path[:ro|rw]. *)
sharedValid(spec) == Len(spec) = 1 \/ (Len(spec) = 2 /\ spec[2] \in {"ro", "rw"})

parseSharedDirectoryShare(spec) ==
    [what |-> "share", name |-> "", path |-> <<spec[1]>>, ro |-> Len(spec) = 2 /\ spec[2] = "ro", tag |-> Auto]

DiskDevices(l) == [k \in DOMAIN l.disks |-> parseAdditionalDiskOptions(l.disks[k])]
Shares(l) ==
    [k \in DOMAIN l.dirs |-> parseDirectoryShare(l.dirs[k])]
    \o [k \in DOMAIN l.shared |-> parseSharedDirectoryShare(l.shared[k])]
Asked(l) == DiskDevices(l) \o Shares(l)

(* Two shares of one tag are told apart by their names. *)
sharesValid(l) ==
    /\ \A k \in DOMAIN l.shared : sharedValid(l.shared[k])
    /\ \A j, k \in DOMAIN Shares(l) :
        j # k /\ Shares(l)[j].tag = Shares(l)[k].tag => Shares(l)[j].name # ""

(* Looks at the extension of all that was given, options included. *)
isoAllowed(l) ==
    \A k \in DOMAIN l.disks : Len(l.disks[k]) = 1 /\ KindOf(l.disks[k]) \in {"arm64", "x64"} => KindOf(l.disks[k]) = "arm64"

-----------------------------------------------------------------------------
(* Options.Validate: what is suspended is run suspendable, which excludes  *)
(* flags about input devices.                                              *)

Suspendable(l) == l.suspendable \/ saved.there
ValidLine(l) == (Suspendable(l) => ~l.noInput) /\ isoAllowed(l)

Validate(r) ==
    /\ At(r, {"new"})
    /\ \E l \in lines :
        run' = [run EXCEPT ![r] = [pc |-> IF ValidLine(l) THEN "home" ELSE "failed", line |-> l,
                                   susp |-> Suspendable(l), next |-> 1, temp |-> 0]]
    /\ UNCHANGED <<mac, lines, built, saved, temps, holder>>

(* The home's flock, until the VM's lock is taken. *)
InHome == {"build", "lock", "fill", "lockvm"}
TakeHome(r) ==
    /\ At(r, {"home"})
    /\ \A q \in DevRuns : At(q, InHome) => holder = q
    /\ Goto(r, "build")
    /\ UNCHANGED <<mac, lines, built, saved, temps, holder>>

(* A process that ends frees its locks. *)
Leave(r, pc) ==
    /\ Goto(r, pc)
    /\ built' = [built EXCEPT ![r] = NotBuilt]
    /\ temps' = [i \in TempIds |-> IF temps[i].lock = r THEN [temps[i] EXCEPT !.lock = Nobody] ELSE temps[i]]
    /\ holder' = IF holder = r THEN Nobody ELSE holder

(* The device to be built next, with its temporary file or 0. *)
Device(r) == Asked(run[r].line)[run[r].next]
Built(r) == run[r].next > Len(Asked(run[r].line))
NeedsTemp(r) == KindOf(Device(r).path) \in {"remote", "archive"}
Add(r, i) ==
    /\ built' = [built EXCEPT ![r].devs = Append(@, [dev |-> Device(r), temp |-> i])]
    /\ run' = [run EXCEPT ![r].pc = "build", ![r].next = @ + 1]

BuildDevice(r) ==
    /\ At(r, {"build"}) /\ ~Built(r)
    /\ IF Device(r).what = "share" /\ ~sharesValid(run[r].line)
       THEN Leave(r, "failed")
       ELSE /\ ~NeedsTemp(r)
            /\ \/ Add(r, 0) /\ UNCHANGED <<temps, holder>>
               \/ \* mounted in Finder
                  /\ Device(r).what = "disk" /\ ~Device(r).ro
                  /\ Leave(r, "failed")
    /\ UNCHANGED <<mac, lines, saved>>

(* The disk of an image is copied, a directory made for an archive. *)
MakeTemp(r) ==
    /\ At(r, {"build"}) /\ ~Built(r) /\ NeedsTemp(r)
    /\ Device(r).what = "share" => sharesValid(run[r].line)
    /\ \E i \in TempIds :
        /\ temps[i] = NoTemp /\ \A j \in 1..(i - 1) : temps[j] # NoTemp
        /\ temps' = [temps EXCEPT ![i].there = TRUE]
        /\ run' = [run EXCEPT ![r].pc = "lock", ![r].temp = i]
    /\ UNCHANGED <<mac, lines, built, saved, holder>>

(* Faulty: the file is left to the next collection. *)
LockTempNot(r) ==
    /\ At(r, {"lock"})
    /\ Goto(r, "fill")
    /\ UNCHANGED <<mac, lines, built, saved, temps, holder>>

(* A file that is collected before it is locked, or while the lock is waited
   for, is missed here or by who opens it next. *)
LockTemp(r) ==
    /\ At(r, {"lock"})
    /\ LET i == run[r].temp IN
        IF temps[i].there
        THEN /\ temps[i].lock = Nobody
             /\ temps' = [temps EXCEPT ![i].lock = r]
             /\ Goto(r, "fill")
             /\ UNCHANGED <<built, holder>>
        ELSE Leave(r, "failed")
    /\ UNCHANGED <<mac, lines, saved>>

(* The attachment of the copy, or tar in the directory. *)
FillTemp(r) ==
    /\ At(r, {"fill"})
    /\ IF temps[run[r].temp].there
       THEN Add(r, run[r].temp) /\ UNCHANGED <<temps, holder>>
       ELSE Leave(r, "failed")
    /\ UNCHANGED <<mac, lines, saved>>

-----------------------------------------------------------------------------
(* The machine                                                             *)

(* macOS 14 saves machines of limited devices only. *)
craftConfiguration(l, susp) ==
    LET limitForSuspend == susp /\ mac < 15
    IN  [audio |-> ~l.noAudio /\ ~limitForSuspend, entropy |-> ~limitForSuspend,
         input |-> IF limitForSuspend THEN "mac" ELSE IF l.noInput THEN "none" ELSE "usb"]

(* The framework's answer. *)
CanSave(set) == mac >= 15 \/ (~set.entropy /\ ~set.audio /\ set.input = "mac")

Craft(r) ==
    /\ At(r, {"build"}) /\ Built(r)
    /\ built' = [built EXCEPT ![r].set = craftConfiguration(run[r].line, run[r].susp)]
    /\ Goto(r, IF holder = r THEN "start" ELSE "lockvm")
    /\ UNCHANGED <<mac, lines, saved, temps, holder>>

LockVM(r) ==
    /\ At(r, {"lockvm"})
    /\ IF holder = Nobody
       THEN holder' = r /\ Goto(r, "start") /\ UNCHANGED <<built, temps>>
       ELSE Leave(r, "failed")
    /\ UNCHANGED <<mac, lines, saved>>

(* A state of other devices is refused, and stays. *)
Start(r) ==
    /\ At(r, {"start"})
    /\ IF saved.there /\ saved.set # built[r].set
       THEN Leave(r, "unrestored") /\ UNCHANGED saved
       ELSE saved' = NotSaved /\ Goto(r, "running") /\ UNCHANGED <<built, temps, holder>>
    /\ UNCHANGED <<mac, lines>>

State(r) == [line |-> run[r].line, set |-> built[r].set, there |-> TRUE]

(* suspendVM: a machine that cannot be saved goes on. *)
Suspend(r) ==
    /\ At(r, {"running"})
    /\ CanSave(built[r].set)
    /\ saved' = State(r)
    /\ Leave(r, "done")
    /\ UNCHANGED <<mac, lines>>

(* To a snapshot of this machine, with its memory or without. *)
Revert(r) ==
    /\ At(r, {"running"})
    /\ saved' \in {NotSaved} \cup {s \in {State(r)} : CanSave(s.set)}
    /\ built' = [built EXCEPT ![r] = NotBuilt]
    /\ run' = [run EXCEPT ![r].pc = "build", ![r].next = 1]
    /\ UNCHANGED <<mac, lines, temps, holder>>

(* The guest shuts down or `weave stop` is given; or the process is killed. *)
Stop(r) ==
    /\ ~At(r, {"new", "failed", "unrestored", "done"})
    /\ Leave(r, "done")
    /\ UNCHANGED <<mac, lines, saved>>

-----------------------------------------------------------------------------
(* Config.GC of another command                                            *)

GCTry(i) ==
    /\ temps[i] = [there |-> TRUE, lock |-> Nobody]
    /\ temps' = [temps EXCEPT ![i].lock = "gc"]
    /\ UNCHANGED <<mac, lines, run, built, saved, holder>>

GCRemove(i) ==
    /\ temps[i].lock = "gc"
    /\ temps' = [temps EXCEPT ![i] = NoTemp]
    /\ UNCHANGED <<mac, lines, run, built, saved, holder>>

-----------------------------------------------------------------------------
Init ==
    /\ mac \in Hosts
    /\ lines \in Lines
    /\ run = [r \in DevRuns |-> [pc |-> "new", line |-> NoLine, susp |-> FALSE, next |-> 1, temp |-> 0]]
    /\ built = [r \in DevRuns |-> NotBuilt]
    /\ saved = NotSaved
    /\ temps = [i \in TempIds |-> NoTemp]
    /\ holder = Nobody

Next ==
    \/ \E r \in DevRuns :
        \/ Validate(r) \/ TakeHome(r) \/ BuildDevice(r) \/ MakeTemp(r) \/ LockTemp(r) \/ FillTemp(r)
        \/ Craft(r) \/ LockVM(r) \/ Start(r) \/ Suspend(r) \/ Revert(r) \/ Stop(r)
    \/ \E i \in TempIds : GCTry(i) \/ GCRemove(i)

Spec == Init /\ [][Next]_dvars

-----------------------------------------------------------------------------
(* Types; and no machine has more devices than were asked for. *)
TypeOK ==
    /\ mac \in Hosts /\ lines \in Lines
    /\ \A r \in DevRuns :
        /\ run[r].pc \in {"new", "home", "build", "lock", "fill", "lockvm", "start", "running", "done", "failed",
                          "unrestored"}
        /\ run[r].line \in lines \cup {NoLine}
        /\ run[r].susp \in BOOLEAN /\ run[r].next \in Nat /\ run[r].temp \in 0..MaxTemps
        /\ Len(built[r].devs) <= Len(Asked(run[r].line))
        /\ built[r].set \in [audio : BOOLEAN, entropy : BOOLEAN, input : {"none", "usb", "mac"}]
    /\ saved.there \in BOOLEAN
    /\ temps \in [TempIds -> [there : BOOLEAN, lock : DevRuns \cup {Nobody, "gc"}]]
    /\ holder \in DevRuns \cup {Nobody}

(* As long as a machine may use them, the temporary files it was built from are
   there and are its own, whichever command collects meanwhile (the flocks that
   craftAdditionalDisk and createConfiguration keep until the process ends). *)
BuiltPathsExist ==
    \A r \in DevRuns : At(r, {"lockvm", "start", "running"}) =>
        \A k \in DOMAIN built[r].devs :
            built[r].devs[k].temp # 0 => temps[built[r].devs[k].temp] = [there |-> TRUE, lock |-> r]

(* The disks of a list of devices in their order, and its shares, are those meant. *)
AsMeant(l, devs) ==
    LET disks == SelectSeq(devs, LAMBDA d : d.what = "disk")
        shares == {devs[k] : k \in {j \in DOMAIN devs : devs[j].what = "share"}}
    IN  /\ [k \in DOMAIN disks |-> [path |-> disks[k].path, ro |-> disks[k].ro]] = Means(l).disks
        /\ {[name |-> d.name, path |-> d.path, ro |-> d.ro, tag |-> d.tag] : d \in shares} = Means(l).shares

(* What is parsed of a valid line is what it means. *)
LinesParse == \A L \in Lines : \A l \in L : sharesValid(l) /\ isoAllowed(l) => AsMeant(l, Asked(l))

(* A machine, built for the first time or again after a revert, has exactly the
   disks in the order given and the shares that the line means: read-only what
   was to be read-only, under the names and tags asked for. *)
DevicesAsAsked ==
    \A r \in DevRuns : At(r, {"lockvm", "start", "running"}) =>
        AsMeant(run[r].line, [k \in DOMAIN built[r].devs |-> built[r].devs[k].dev])

(* A state that a run saved can be restored by a run with the same command line
   that comes to it, or by the run's own revert: the sets of devices agree, although
   the later run is suspendable because there is a state (craftConfiguration).  A run
   that is not and looked before there was a state is refused by macOS 14 (Validate
   looks before the lock). *)
RestoresAsSaved ==
    \A r \in DevRuns : At(r, {"start"}) /\ saved.there /\ saved.line = run[r].line /\ run[r].susp =>
        saved.set = built[r].set

(* The devices of a machine exist, are those asked for, and are those the  *)
(* state to restore was saved with.                                        *)
DevSafe == TypeOK /\ BuiltPathsExist /\ DevicesAsAsked /\ RestoresAsSaved
=============================================================================
