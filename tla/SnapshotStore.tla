--------------------------- MODULE SnapshotStore ---------------------------
(***************************************************************************)
(* The snapshots of one VM: a payload directory for each and an index that *)
(* is read, changed in memory and written back over itself.  A snapshot of *)
(* a stopped VM is taken by the client under the VM's lock; that of a      *)
(* running one by the run's process, which pauses the machine meanwhile.   *)
(* A revert puts disk, firmware and staged state back one after another.   *)
(*                                                                         *)
(* What a file holds is the moment of the machine it is of, 0 if the file  *)
(* is not there.  The guest's memory is of the moment of its disk, and     *)
(* what RunSession says of pauses and reverts that meet is not repeated:   *)
(* here a revert waits until the machine runs.                             *)
(***************************************************************************)
EXTENDS Naturals, Sequences

CONSTANTS
    SnapOps,       \* the commands under way at a time
    SnapIds,       \* the UUIDs, a bound on payloads
    SnapNames,
    MaxSnapshots,
    SnapMoments,   \* the bound on moments
    SnapMixes,     \* what may happen in one history
    NoId           \* no UUID

ASSUME SnapAssumption ==
    /\ MaxSnapshots \in Nat
    /\ SnapMoments \in Nat \ {0}
    /\ NoId \notin SnapIds

VARIABLES
    vdisk, vfw, vstate,       \* disk.img, the firmware and the staged state of the VM
    index,                    \* index.json: the entries
    json,                     \* "whole", or "cut": opened for writing and not written
    pdisk, pfw, pstate,       \* the files of every payload
    spc,                      \* where each command is
    slive,                    \* those that the run's process carries out
    sid, sname, sat, sholds,  \* the entry a command is about, its place in the index, and what it has
    sidx,                     \* the index as it was read
    phase,                    \* the VM: "off", "running", "paused", "reverting"
    moment,                   \* the last moment
    listed,                   \* history: what was created and not deleted
    emptied,                  \* history: entries whose payload was removed
    halved,                   \* history: a revert ended halfway
    snapmix

vmfiles == <<vdisk, vfw, vstate>>
indexfile == <<index, json>>
payloads == <<pdisk, pfw, pstate>>
about == <<slive, sid, sname, sat, sholds, sidx>>
history == <<listed, emptied, halved>>
snapvars == <<vmfiles, indexfile, payloads, spc, about, phase, moment, history, snapmix>>

Entries == [id : SnapIds, name : SnapNames, has : {"disk", "memory"}]

May(e) == e \in snapmix
Busy == {o \in SnapOps : spc[o] # "idle"}
Free(o) == spc[o] = "idle" /\ (May("alone") => Busy = {})

Creates(o) == spc[o] \in {"disk", "fw", "save", "trunc", "index"}
Deletes(o) == spc[o] \in {"payload", "d_trunc", "d_index"}
Reverts(o) == spc[o] \in {"r_disk", "r_fw", "r_state"}

(* Trylock of the VM: no run has it, and no command that found it stopped. *)
Unlocked == phase = "off" /\ \A o \in SnapOps : ~Creates(o) /\ ~Reverts(o)

IdsOf(idx) == {idx[k].id : k \in DOMAIN idx}

Goto(o, pc) == spc' = [spc EXCEPT ![o] = pc] /\ UNCHANGED about

(* The command is about an entry from now on, at k of the index it read.   *)
Starts(o, pc, e, k, live) ==
    /\ spc' = [spc EXCEPT ![o] = pc]
    /\ slive' = IF live THEN slive \cup {o} ELSE slive
    /\ sid' = [sid EXCEPT ![o] = e.id]
    /\ sname' = [sname EXCEPT ![o] = e.name]
    /\ sholds' = [sholds EXCEPT ![o] = e.has]
    /\ sat' = [sat EXCEPT ![o] = k]
    /\ sidx' = [sidx EXCEPT ![o] = index]

Ends(o) ==
    /\ spc' = [spc EXCEPT ![o] = "idle"]
    /\ slive' = slive \ {o}
    /\ sid' = [sid EXCEPT ![o] = NoId]
    /\ sname' = [sname EXCEPT ![o] = NoId]
    /\ sholds' = [sholds EXCEPT ![o] = "disk"]
    /\ sat' = [sat EXCEPT ![o] = 0]
    /\ sidx' = [sidx EXCEPT ![o] = <<>>]

-----------------------------------------------------------------------------
(* The machine, as far as its files go.                                    *)

(* What was staged is restored and removed.                                *)
Launch ==
    /\ May("run") /\ Unlocked
    /\ phase' = "running" /\ vstate' = 0
    /\ UNCHANGED <<vdisk, vfw, indexfile, payloads, spc, about, moment, history, snapmix>>

GuestWrites ==
    /\ phase = "running" /\ moment < SnapMoments
    /\ moment' = moment + 1
    /\ vdisk' = moment + 1 /\ vfw' = moment + 1
    /\ UNCHANGED <<vstate, indexfile, payloads, spc, about, phase, history, snapmix>>

(* A stop, or a suspension: the memory is staged.                          *)
RunEnds ==
    /\ phase = "running"
    /\ phase' = "off"
    /\ vstate' \in {vstate, vdisk}
    /\ UNCHANGED <<vdisk, vfw, indexfile, payloads, spc, about, moment, history, snapmix>>

-----------------------------------------------------------------------------
Acceptable(idx, name) ==
    Len(idx) < MaxSnapshots /\ \A k \in DOMAIN idx : idx[k].name # name

Missing(i) == pdisk[i] = 0 /\ pfw[i] = 0 /\ pstate[i] = 0

(* A UUID that nothing has. *)
FreeIds == {i \in SnapIds : Missing(i) /\ i \notin IdsOf(index) /\ \A q \in SnapOps : sid[q] # i}

NewUUID == CHOOSE i \in FreeIds : TRUE

Begin(o, live) == \E n \in SnapNames :
    /\ json = "whole" /\ Acceptable(index, n) /\ FreeIds # {}
    /\ Starts(o, "disk", [id |-> NewUUID, name |-> n, has |-> "disk"], 0, live)

(* CreateSnapshot with the lock of a stopped VM: no memory to be saved.    *)
CreateStopped(o) ==
    /\ May("create") /\ Free(o) /\ Unlocked
    /\ Begin(o, FALSE)
    /\ UNCHANGED <<vmfiles, indexfile, payloads, phase, moment, history, snapmix>>

(* ... or over the socket: CreateSnapshotPaused.                           *)
CreateLive(o) ==
    /\ May("create") /\ Free(o) /\ phase = "running"
    /\ phase' = "paused"
    /\ Begin(o, TRUE)
    /\ UNCHANGED <<vmfiles, indexfile, payloads, moment, history, snapmix>>

(* The machine is resumed whether or not there was an error.               *)
Resumes(o) == phase' = IF o \in slive THEN "running" ELSE phase

Removed(i) ==
    /\ pdisk' = [pdisk EXCEPT ![i] = 0]
    /\ pfw' = [pfw EXCEPT ![i] = 0]
    /\ pstate' = [pstate EXCEPT ![i] = 0]

(* A clone, the saving or the write fails: the payload is removed.  What   *)
(* the write of the index has done so far is not undone.                   *)
Fail(o) ==
    /\ May("fault") /\ Creates(o)
    /\ Removed(sid[o])
    /\ Ends(o) /\ Resumes(o)
    /\ UNCHANGED <<vmfiles, indexfile, moment, history, snapmix>>

CreateDisk(o) ==
    /\ spc[o] = "disk"
    /\ pdisk' = [pdisk EXCEPT ![sid[o]] = vdisk]
    /\ Goto(o, "fw")
    /\ UNCHANGED <<vmfiles, indexfile, pfw, pstate, phase, moment, history, snapmix>>

CreateFirmware(o) ==
    /\ spc[o] = "fw"
    /\ pfw' = [pfw EXCEPT ![sid[o]] = vfw]
    /\ Goto(o, IF o \in slive THEN "save" ELSE "trunc")
    /\ UNCHANGED <<vmfiles, indexfile, pdisk, pstate, phase, moment, history, snapmix>>

(* Faulty: a memory that cannot be saved is said to be there.              *)
CreateSaveLenient(o) ==
    /\ spc[o] = "save"
    /\ pstate' \in {[pstate EXCEPT ![sid[o]] = vdisk], pstate}
    /\ spc' = [spc EXCEPT ![o] = "trunc"] /\ sholds' = [sholds EXCEPT ![o] = "memory"]
    /\ UNCHANGED <<vmfiles, indexfile, pdisk, pfw, slive, sid, sname, sat, sidx, phase, moment, history, snapmix>>

(* SaveState: saveMachineStateToURL of the paused machine.                 *)
CreateSave(o) ==
    /\ spc[o] = "save"
    /\ pstate' = [pstate EXCEPT ![sid[o]] = vdisk]
    /\ spc' = [spc EXCEPT ![o] = "trunc"] /\ sholds' = [sholds EXCEPT ![o] = "memory"]
    /\ UNCHANGED <<vmfiles, indexfile, pdisk, pfw, slive, sid, sname, sat, sidx, phase, moment, history, snapmix>>

(* writeIndex: os.WriteFile truncates the index, and then writes it.       *)
Truncates == index' = <<>> /\ json' = "cut"
Writes(idx) == index' = idx /\ json' = "whole"

CreateTruncate(o) ==
    /\ spc[o] = "trunc"
    /\ Truncates
    /\ Goto(o, "index")
    /\ UNCHANGED <<vmfiles, payloads, phase, moment, history, snapmix>>

CreateIndex(o) ==
    /\ spc[o] = "index"
    /\ Writes(Append(sidx[o], [id |-> sid[o], name |-> sname[o], has |-> sholds[o]]))
    /\ listed' = listed \cup {sid[o]}
    /\ Ends(o) /\ Resumes(o)
    /\ UNCHANGED <<vmfiles, payloads, moment, emptied, halved, snapmix>>

-----------------------------------------------------------------------------
(* Delete, at any state of the VM and without its lock: the payload, then  *)
(* the entry.                                                              *)
Delete(o) == \E k \in DOMAIN index :
    /\ May("delete") /\ Free(o)
    /\ Starts(o, "payload", index[k], k, FALSE)
    /\ UNCHANGED <<vmfiles, indexfile, payloads, phase, moment, history, snapmix>>

DeletePayload(o) ==
    /\ spc[o] = "payload"
    /\ Removed(sid[o])
    /\ emptied' = emptied \cup {sid[o]}
    /\ Goto(o, "d_trunc")
    /\ UNCHANGED <<vmfiles, indexfile, phase, moment, listed, halved, snapmix>>

DeleteTruncate(o) ==
    /\ spc[o] = "d_trunc"
    /\ Truncates
    /\ Goto(o, "d_index")
    /\ UNCHANGED <<vmfiles, payloads, phase, moment, history, snapmix>>

Without(idx, k) == SubSeq(idx, 1, k - 1) \o SubSeq(idx, k + 1, Len(idx))

DeleteIndex(o) ==
    /\ spc[o] = "d_index"
    /\ Writes(Without(sidx[o], sat[o]))
    /\ listed' = listed \ {sid[o]}
    /\ emptied' = emptied \ {sid[o]}
    /\ Ends(o)
    /\ UNCHANGED <<vmfiles, payloads, phase, moment, halved, snapmix>>

-----------------------------------------------------------------------------
(* Revert, of a stopped VM under its lock: nothing is done for an entry    *)
(* that is not there or has no disk.                                       *)
RevertBegins(o, live) == \E k \in DOMAIN index :
    /\ pdisk[index[k].id] # 0
    /\ Starts(o, "r_disk", index[k], k, live)

RevertStopped(o) ==
    /\ May("revert") /\ Free(o) /\ Unlocked
    /\ RevertBegins(o, FALSE)
    /\ UNCHANGED <<vmfiles, indexfile, payloads, phase, moment, history, snapmix>>

(* ... or in the run's process, which stops the machine first.             *)
RevertLive(o) ==
    /\ May("revert") /\ Free(o) /\ phase = "running"
    /\ RevertBegins(o, TRUE)
    /\ phase' = "reverting"
    /\ UNCHANGED <<vmfiles, indexfile, payloads, moment, history, snapmix>>

(* A name that is not listed is only looked up when the machine is down:   *)
(* the run is over.                                                        *)
RevertMissing(o) ==
    /\ May("revert") /\ Free(o) /\ phase = "running"
    /\ phase' = "off"
    /\ UNCHANGED <<vmfiles, indexfile, payloads, spc, about, moment, history, snapmix>>

(* relaunchWithRevert: the run ends, and a shell it leaves behind reverts  *)
(* after three seconds and runs the VM again.                              *)
Relaunch(o) ==
    /\ May("relaunch") /\ Free(o) /\ phase = "running"
    /\ phase' = "off"
    /\ Goto(o, "sleep")
    /\ UNCHANGED <<vmfiles, indexfile, payloads, moment, history, snapmix>>

(* By then somebody else may have started it, and the revert is asked of   *)
(* that run; or hold its lock, and nothing comes of it.                    *)
WakesStopped(o) ==
    /\ spc[o] = "sleep" /\ Unlocked
    /\ RevertBegins(o, FALSE)
    /\ UNCHANGED <<vmfiles, indexfile, payloads, phase, moment, history, snapmix>>

WakesLive(o) ==
    /\ spc[o] = "sleep" /\ phase = "running"
    /\ RevertBegins(o, TRUE)
    /\ phase' = "reverting"
    /\ UNCHANGED <<vmfiles, indexfile, payloads, moment, history, snapmix>>

WakesLate(o) ==
    /\ spc[o] = "sleep"
    /\ Ends(o)
    /\ UNCHANGED <<vmfiles, indexfile, payloads, phase, moment, history, snapmix>>

RelaunchWakes(o) == WakesStopped(o) \/ WakesLive(o) \/ WakesLate(o)

RevertDisk(o) ==
    /\ spc[o] = "r_disk"
    /\ vdisk' = pdisk[sid[o]]
    /\ Goto(o, "r_fw")
    /\ UNCHANGED <<vfw, vstate, indexfile, payloads, phase, moment, history, snapmix>>

RevertFirmware(o) ==
    /\ spc[o] = "r_fw"
    /\ vfw' = IF pfw[sid[o]] # 0 THEN pfw[sid[o]] ELSE vfw
    /\ Goto(o, "r_state")
    /\ UNCHANGED <<vdisk, vstate, indexfile, payloads, phase, moment, history, snapmix>>

(* The state is staged or cleared; the run's process starts the machine    *)
(* from it and removes it.                                                 *)
RevertState(o) ==
    /\ spc[o] = "r_state"
    /\ vstate' = IF o \in slive \/ sholds[o] = "disk" THEN 0 ELSE pstate[sid[o]]
    /\ Ends(o) /\ Resumes(o)
    /\ UNCHANGED <<vdisk, vfw, indexfile, payloads, moment, history, snapmix>>

(* A file cannot be cloned back, and the run that reverts is over.         *)
RevertFails(o) ==
    /\ May("fault") /\ Reverts(o)
    /\ halved' = (halved \/ spc[o] # "r_disk")
    /\ Ends(o)
    /\ phase' = "off"
    /\ UNCHANGED <<vmfiles, indexfile, payloads, moment, listed, emptied, snapmix>>

-----------------------------------------------------------------------------
(* A command is killed, or the run's process with what it carries out.     *)
Cut(o) ==
    /\ Ends(o)
    /\ halved' = (halved \/ spc[o] \in {"r_fw", "r_state"})

KillRun ==
    /\ May("kill") /\ phase # "off" /\ slive = {}
    /\ phase' = "off"
    /\ UNCHANGED <<vmfiles, indexfile, payloads, spc, about, moment, history, snapmix>>

KillRunWith(o) ==
    /\ May("kill") /\ o \in slive
    /\ Cut(o)
    /\ phase' = "off"
    /\ UNCHANGED <<vmfiles, indexfile, payloads, moment, listed, emptied, snapmix>>

KillOp(o) ==
    /\ May("kill") /\ o \in Busy \ slive
    /\ Cut(o)
    /\ UNCHANGED <<vmfiles, indexfile, payloads, phase, moment, listed, emptied, snapmix>>

Init ==
    /\ vdisk = 1 /\ vfw = 1 /\ vstate = 0
    /\ index = <<>> /\ json = "whole"
    /\ pdisk = [i \in SnapIds |-> 0] /\ pfw = pdisk /\ pstate = pdisk
    /\ spc = [o \in SnapOps |-> "idle"] /\ slive = {}
    /\ sid = [o \in SnapOps |-> NoId] /\ sname = sid
    /\ sholds = [o \in SnapOps |-> "disk"]
    /\ sat = [o \in SnapOps |-> 0]
    /\ sidx = [o \in SnapOps |-> <<>>]
    /\ phase = "off" /\ moment = 1
    /\ listed = {} /\ emptied = {} /\ halved = FALSE
    /\ snapmix \in SnapMixes

CreateSteps(o) ==
    \/ CreateStopped(o) \/ CreateLive(o) \/ CreateDisk(o) \/ CreateFirmware(o) \/ CreateSave(o)
    \/ CreateTruncate(o) \/ CreateIndex(o) \/ Fail(o)

DeleteSteps(o) == Delete(o) \/ DeletePayload(o) \/ DeleteTruncate(o) \/ DeleteIndex(o)

RevertSteps(o) ==
    \/ RevertStopped(o) \/ RevertLive(o) \/ RevertMissing(o) \/ Relaunch(o) \/ RelaunchWakes(o)
    \/ RevertDisk(o) \/ RevertFirmware(o) \/ RevertState(o) \/ RevertFails(o)

Next ==
    \/ Launch \/ GuestWrites \/ RunEnds \/ KillRun
    \/ \E o \in SnapOps : CreateSteps(o) \/ DeleteSteps(o) \/ RevertSteps(o) \/ KillRunWith(o) \/ KillOp(o)

Spec == Init /\ [][Next]_snapvars

-----------------------------------------------------------------------------
(* The types of the variables (Snapshot, snapshotIndex).                   *)
IndexTyped == index \in Seq(Entries) /\ sidx \in [SnapOps -> Seq(Entries)]

TypeOK ==
    /\ IndexTyped /\ json \in {"whole", "cut"}
    /\ moment \in 1..SnapMoments
    /\ vdisk \in 1..SnapMoments /\ vfw \in 1..SnapMoments /\ vstate \in 0..SnapMoments
    /\ pdisk \in [SnapIds -> 0..SnapMoments] /\ pfw \in [SnapIds -> 0..SnapMoments]
    /\ pstate \in [SnapIds -> 0..SnapMoments]
    /\ spc \in [SnapOps -> {"idle", "disk", "fw", "save", "trunc", "index", "payload", "d_trunc", "d_index",
                            "sleep", "r_disk", "r_fw", "r_state"}]
    /\ slive \subseteq SnapOps
    /\ sid \in [SnapOps -> SnapIds \cup {NoId}] /\ sname \in [SnapOps -> SnapNames \cup {NoId}]
    /\ sholds \in [SnapOps -> {"disk", "memory"}] /\ sat \in [SnapOps -> Nat]
    /\ phase \in {"off", "running", "paused", "reverting"}
    /\ listed \subseteq SnapIds /\ emptied \subseteq SnapIds
    /\ halved \in BOOLEAN

(* An entry that is listed leads to a payload with a disk, a firmware and  *)
(* the memory it promises, whatever failed or was killed, now or before:   *)
(* only one whose deletion removed the payload leads nowhere (snapshot.go, *)
(* Create, Delete).                                                        *)
Leads(e) ==
    IF e.id \in emptied THEN Missing(e.id)
    ELSE pdisk[e.id] # 0 /\ pfw[e.id] # 0 /\ (e.has = "memory" <=> pstate[e.id] # 0)

EntriesLead == \A k \in DOMAIN index : Leads(index[k])

(* "Reverting later resumes this exact moment": what a payload has is of   *)
(* one moment, unless the machine it was taken of was put back by halves   *)
(* (vm_snapshot.go).                                                       *)
Exact(e) == pfw[e.id] = pdisk[e.id] /\ pstate[e.id] \in {0, pdisk[e.id]}

EntriesExact == halved \/ \A k \in DOMAIN index : Exact(index[k])

(* The limit is kept and no two snapshots have one name, however commands  *)
(* and the run's own snapshots alternate (snapshot.go, MaxSnapshots).      *)
Distinct(idx) ==
    /\ Len(idx) <= MaxSnapshots
    /\ \A j, k \in DOMAIN idx : j # k => idx[j].name # idx[k].name /\ idx[j].id # idx[k].id

LimitAndNames == Distinct(index)

(* The index is read, changed and written without a lock of its own, and   *)
(* loses nothing: the lock of the VM and the pause of its machine let one  *)
(* snapshot be taken at a time (CreateSnapshot, CreateSnapshotPaused).  A  *)
(* deletion has neither, and is only promised this when it is alone.       *)
IndexCurrent == IF json = "whole" THEN IdsOf(index) = listed ELSE index = <<>>

(* A creation that fails leaves no payload: each belongs to an entry or to *)
(* a command under way, unless a process was killed (snapshot.go, cleanup).*)
PayloadsOwned ==
    \A i \in SnapIds : Missing(i) \/ i \in listed \/ May("kill") \/ \E o \in SnapOps : Creates(o) /\ sid[o] = i

(* Whatever a run starts from is of one moment: disk, firmware, and the    *)
(* staged memory if there is one, unless a revert ended halfway            *)
(* (snapshot.go, Revert; suspensions).                                     *)
MachineOfOneMoment ==
    halved \/ (\E o \in SnapOps : spc[o] \in {"r_fw", "r_state"}) \/ (vfw = vdisk /\ vstate \in {0, vdisk})

(* A snapshot in the index can be reverted to, the index loses nothing and *)
(* has no payload beside it, and the machine is of one moment.             *)
SnapSafe ==
    /\ TypeOK
    /\ EntriesLead
    /\ EntriesExact
    /\ LimitAndNames
    /\ IndexCurrent
    /\ PayloadsOwned
    /\ MachineOfOneMoment

-----------------------------------------------------------------------------
(* The inductive invariant, for histories in which whoever deletes is alone. *)
DeletesAlone == \A m \in SnapMixes : "delete" \in m => "alone" \in m

(* Deletions come from their own histories, where commands take turns.     *)
Turns ==
    /\ snapmix \in SnapMixes
    /\ \A o \in SnapOps : Deletes(o) => May("delete")
    /\ May("alone") => \A o, q \in Busy : o = q

(* The lock of a stopped VM, or the pause of a running one, is one         *)
(* command's that creates or reverts.                                      *)
OneHolder ==
    /\ \A o, q \in SnapOps : (Creates(o) \/ Reverts(o)) /\ (Creates(q) \/ Reverts(q)) => o = q
    /\ \A o \in SnapOps \ slive : Creates(o) \/ Reverts(o) => phase = "off"
    /\ \A o \in slive : \/ Creates(o) /\ phase = "paused"
                        \/ Reverts(o) /\ phase = "reverting"
    /\ phase \in {"running", "paused"} => vstate = 0

(* What a command read of the index is what is there, or was until the     *)
(* command itself truncated it.                                            *)
CopyCurrent(o) ==
    /\ Distinct(sidx[o]) /\ IdsOf(sidx[o]) = listed
    /\ \A k \in DOMAIN sidx[o] : Leads(sidx[o][k]) /\ (halved \/ Exact(sidx[o][k]))
    /\ spc[o] \notin {"index", "d_index"} => json = "whole" /\ sidx[o] = index

CopiesCurrent == \A o \in SnapOps : Creates(o) \/ Deletes(o) => CopyCurrent(o)

(* The payload of a new snapshot is its command's alone, and of the moment *)
(* the machine rests at.                                                   *)
NewPayload ==
    \A o \in SnapOps : Creates(o) =>
        /\ sid[o] \in SnapIds \ listed /\ Acceptable(sidx[o], sname[o]) /\ sname[o] \in SnapNames
        /\ spc[o] # "disk" => pdisk[sid[o]] = vdisk
        /\ spc[o] \notin {"disk", "fw"} => pfw[sid[o]] = vfw
        /\ IF spc[o] \in {"trunc", "index"} /\ sholds[o] = "memory"
           THEN pstate[sid[o]] = vdisk ELSE pstate[sid[o]] = 0 /\ sholds[o] = "disk"

(* A deletion is about the entry at its place, and has emptied it.         *)
Emptied ==
    /\ emptied \subseteq listed
    /\ \A o \in SnapOps : Deletes(o) =>
          /\ sat[o] \in DOMAIN sidx[o] /\ sidx[o][sat[o]].id = sid[o]
          /\ spc[o] # "payload" => Missing(sid[o])

(* A revert puts back the files of one entry, in order.                    *)
PutBack ==
    \A o \in SnapOps : Reverts(o) =>
        /\ sid[o] \in SnapIds /\ pdisk[sid[o]] # 0 /\ pfw[sid[o]] # 0
        /\ sholds[o] = "memory" <=> pstate[sid[o]] # 0
        /\ halved \/ (pfw[sid[o]] = pdisk[sid[o]] /\ pstate[sid[o]] \in {0, pdisk[sid[o]]})
        /\ spc[o] # "r_disk" => vdisk = pdisk[sid[o]]
        /\ spc[o] = "r_state" => vfw = pfw[sid[o]]

SnapIInv ==
    /\ SnapSafe
    /\ Turns
    /\ OneHolder
    /\ CopiesCurrent
    /\ NewPayload
    /\ Emptied
    /\ PutBack
=============================================================================
