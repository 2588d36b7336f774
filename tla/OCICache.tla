----------------------------- MODULE OCICache -----------------------------
(***************************************************************************)
(* ~/.weave/cache/OCIs: images in directories named by their digest, and   *)
(* tags that are symbolic links to them. A pull fills a directory under    *)
(* ~/.weave/tmp that its reference determines and moves it into place,     *)
(* under an flock on the directory of the registry's host; collections,    *)
(* deletes and prunes take no lock at all. Directories under tmp have an   *)
(* flock too: every command but pull and clone first removes those whose   *)
(* flock it gets.                                                          *)
(***************************************************************************)
EXTENDS Naturals, FiniteSets

CONSTANTS
    Procs,       \* goroutines, each running one command
    Tags,        \* references by tag
    Digests,     \* references by digest, and the images they name
    HostOf,      \* the registry host of a reference
    None,        \* no process, no image
    Mixes,       \* what each process does, and to what
    MaxRetags    \* times a tag may move in the registry: a bound

Refs == Tags \cup Digests
Hosts == {HostOf[n] : n \in Refs}
Ops == {"pull", "pull_kill", "pull_reclaim", "delete", "prune", "gc"}

ASSUME ConstantsAssumption ==
    /\ None \notin Procs \cup Digests
    /\ Tags \cap Digests = {}
    /\ Mixes \subseteq [Procs -> [op : Ops, name : Refs]]
    /\ MaxRetags \in Nat

VARIABLES
    image,    \* is the image of each digest in the cache, and marked as explicitly pulled
    link,     \* where each tag's link leads
    lock,     \* the flock on each host's directory
    dirs,     \* the references that have a directory under tmp
    flock,    \* who has the flock of that directory
    tag,      \* the registry: the image of each tag
    retags,   \* how often a tag has moved
    job,      \* what each command does, and to what
    pc,       \* where it is
    digest,   \* the image a pull found in the manifest
    todo,     \* the entries a command listed and has not come to
    fd,       \* what a pull has open of tmp
    sweeps    \* what a sweep is removing

store == <<image, link>>
tmp == <<dirs, flock>>
registry == <<tag, retags>>
known == <<digest, fd, sweeps>>
cvars == <<image, link, lock, dirs, flock, tag, retags, job, pc, digest, todo, fd, sweeps>>

Working == {"manifest", "lock", "locked", "opentmp", "locktmp", "space", "reclaim", "download", "move",
            "unlink", "symlink", "mark", "walk", "collect", "open",
            "sweep", "sweeping", "rmtmp", "delete", "list", "prune"}
Ended == {"ok", "failed", "dead"}

(* A tag's images are in its own repository.                               *)
Images(t) == {d \in Digests : HostOf[d] = HostOf[t]}

IsPull(p) == job[p].op \in {"pull", "pull_kill", "pull_reclaim"}
Name(p) == job[p].name
Host(p) == HostOf[Name(p)]

Here(d) == image[d] # "gone"

Exists(n) == IF n \in Digests THEN Here(n) ELSE link[n] # None /\ Here(link[n])

Linked(n, d) == n \in Tags /\ link[n] = d

(* A command goes on, with what it has listed or with another list.        *)
Goto(p, s) == pc' = [pc EXCEPT ![p] = s] /\ UNCHANGED <<job, todo, known>>

GoWith(p, s, list) ==
    /\ pc' = [pc EXCEPT ![p] = s]
    /\ todo' = [todo EXCEPT ![p] = list]
    /\ UNCHANGED <<job, known>>

(* What a command's deferred calls give back when it returns.              *)
Free(p) ==
    /\ lock' = [h \in Hosts |-> IF lock[h] = p THEN None ELSE lock[h]]
    /\ flock' = [n \in Refs |-> IF flock[n] = p THEN None ELSE flock[n]]
    /\ UNCHANGED dirs

(* Faulty: the host's lock is released on success only.                    *)
FreeOnSuccess(p, result) ==
    /\ lock' = [h \in Hosts |-> IF lock[h] = p /\ result = "ok" THEN None ELSE lock[h]]
    /\ flock' = [n \in Refs |-> IF flock[n] = p THEN None ELSE flock[n]]
    /\ UNCHANGED dirs

Release(p, result) == Free(p)

End(p, result) == Release(p, result) /\ GoWith(p, result, {})

Fail(p) == End(p, "failed") /\ UNCHANGED <<store, registry>>

-----------------------------------------------------------------------------
(* Pulls *)

(* Faulty: the check before any lock goes by the reference alone.          *)
CachedByName(p, d) == Exists(Name(p)) /\ Name(p) \in Tags

Cached(p, d) == Exists(Name(p)) /\ Exists(d) /\ Linked(Name(p), d)

PullManifest(p) ==
    /\ pc[p] = "manifest"
    /\ \/ /\ digest' = [digest EXCEPT ![p] = IF Name(p) \in Tags THEN tag[Name(p)] ELSE Name(p)]
          /\ pc' = [pc EXCEPT ![p] = IF Cached(p, digest'[p]) THEN "ok" ELSE "lock"]
          /\ UNCHANGED <<store, registry, lock, tmp, job, todo, fd, sweeps>>
       \/ Fail(p)

PullLock(p) ==
    /\ pc[p] = "lock"
    /\ lock[Host(p)] = None
    /\ lock' = [lock EXCEPT ![Host(p)] = p]
    /\ Goto(p, "locked")
    /\ UNCHANGED <<store, registry, tmp>>

(* A pull with its image in the cache marks it, or links its tag to it.    *)
Arrive(p) == Goto(p, IF Name(p) = digest[p] THEN "mark" ELSE "unlink")

PullExists(p) ==
    /\ pc[p] = "locked"
    /\ Exists(digest[p])
    /\ Arrive(p)
    /\ UNCHANGED <<store, registry, lock, tmp>>

MakeTmp(p) ==
    /\ pc[p] = "locked"
    /\ ~Exists(digest[p])
    /\ dirs' = dirs \cup {Name(p)}
    /\ Goto(p, "opentmp")
    /\ UNCHANGED <<store, registry, lock, flock>>

OpenTmp(p) ==
    /\ pc[p] = "opentmp"
    /\ Name(p) \in dirs
    /\ pc' = [pc EXCEPT ![p] = "locktmp"]
    /\ fd' = [fd EXCEPT ![p] = "this"]
    /\ UNCHANGED <<store, registry, lock, tmp, job, digest, todo, sweeps>>

OpenTmpFails(p) ==
    /\ pc[p] = "opentmp"
    /\ Name(p) \notin dirs
    /\ Fail(p)

(* A directory removed since it was opened is locked by nobody else.       *)
LockTmp(p) ==
    /\ pc[p] = "locktmp"
    /\ \/ fd[p] = "gone" /\ UNCHANGED flock
       \/ /\ fd[p] = "this"
          /\ flock[Name(p)] = None
          /\ flock' = [flock EXCEPT ![Name(p)] = p]
    /\ Goto(p, "space")
    /\ UNCHANGED <<store, registry, lock, dirs>>

(* Space is enough, is reclaimed from the images listed now, or the pull   *)
(* is refused. Refused, or failing to reclaim, it leaves its directory.    *)
PullSpace(p) ==
    /\ pc[p] = "space"
    /\ \/ /\ Goto(p, "download")
          /\ UNCHANGED <<store, registry, lock, tmp>>
       \/ /\ job[p].op = "pull_reclaim"
          /\ \E ds \in SUBSET {d \in Digests : Here(d)} : GoWith(p, "reclaim", ds)
          /\ UNCHANGED <<store, registry, lock, tmp>>
       \/ Fail(p)

(* The directory has to be there to be written to.                         *)
Download(p) ==
    /\ pc[p] = "download"
    /\ fd[p] = "this"
    /\ Goto(p, "move")
    /\ UNCHANGED <<store, registry, lock, tmp>>

(* The directory goes, and the flock with it.                              *)
DropTmp(n) == dirs' = dirs \ {n} /\ flock' = [flock EXCEPT ![n] = None]

DownloadFails(p) ==
    /\ pc[p] = "download"
    /\ lock' = [lock EXCEPT ![Host(p)] = None]
    /\ DropTmp(Name(p))
    /\ Goto(p, "failed")
    /\ UNCHANGED <<store, registry>>

Move(p) ==
    /\ pc[p] = "move"
    /\ image' = [image EXCEPT ![digest[p]] = "cached"]
    /\ DropTmp(Name(p))
    /\ Arrive(p)
    /\ UNCHANGED <<link, lock, registry>>

PullUnlink(p) ==
    /\ pc[p] = "unlink"
    /\ link' = [link EXCEPT ![Name(p)] = None]
    /\ Goto(p, "symlink")
    /\ UNCHANGED <<image, lock, tmp, registry>>

PullSymlink(p) ==
    /\ pc[p] = "symlink"
    /\ IF link[Name(p)] = None
       THEN /\ link' = [link EXCEPT ![Name(p)] = digest[p]]
            /\ Goto(p, "walk")
            /\ UNCHANGED <<image, lock, tmp, registry>>
       ELSE Fail(p)

(* Faulty: an image that was cached already is taken to be marked.         *)
NothingMarked(p) == UNCHANGED image

Mark(p) == image' = [image EXCEPT ![Name(p)] = IF Here(Name(p)) THEN "marked" ELSE "gone"]

MarkExplicitlyPulled(p) ==
    /\ pc[p] = "mark"
    /\ Mark(p)
    /\ Goto(p, "open")
    /\ UNCHANGED <<link, lock, tmp, registry>>

PullOpen(p) ==
    /\ pc[p] = "open"
    /\ End(p, IF Exists(Name(p)) THEN "ok" ELSE "failed")
    /\ UNCHANGED <<store, registry>>

-----------------------------------------------------------------------------
(* Collections *)

(* Faulty: marked images count for nothing: the mark is forgotten.         *)
CollectableUnmarked(d, unreferenced) == d \in unreferenced

Collectable(d, unreferenced) == d \in unreferenced /\ image[d] # "marked"

Broken(t) == link[t] # None /\ ~Here(link[t])

Unreferenced == {d \in Digests : Here(d) /\ \A t \in Tags : link[t] # d}

(* Faulty: the collection a pull ends with leaves the image its tag led to before. *)
CollectCheckBefore(p) ==
    /\ pc[p] = "walk"
    /\ link' = [t \in Tags |-> IF Broken(t) THEN None ELSE link[t]]
    /\ GoWith(p, "collect", IF IsPull(p) THEN {} ELSE Unreferenced)
    /\ UNCHANGED <<image, lock, tmp, registry>>

(* One walk over the store: broken links go, the others are counted.       *)
CollectCheck(p) ==
    /\ pc[p] = "walk"
    /\ link' = [t \in Tags |-> IF Broken(t) THEN None ELSE link[t]]
    /\ GoWith(p, "collect", Unreferenced)
    /\ UNCHANGED <<image, lock, tmp, registry>>

CollectRemove(p) ==
    /\ pc[p] = "collect"
    /\ \E d \in todo[p] :
          /\ image' = IF Collectable(d, todo[p]) THEN [image EXCEPT ![d] = "gone"] ELSE image
          /\ GoWith(p, "collect", todo[p] \ {d})
    /\ UNCHANGED <<link, lock, tmp, registry>>

Collected(p) ==
    /\ pc[p] = "collect"
    /\ todo[p] = {}
    /\ IF IsPull(p) THEN Goto(p, "open") /\ UNCHANGED <<lock, tmp>> ELSE End(p, "ok")
    /\ UNCHANGED <<store, registry>>

-----------------------------------------------------------------------------
(* The other commands: the sweep of tmp they begin with, and what they do. *)

SweepList(p) ==
    /\ pc[p] = "sweep"
    /\ GoWith(p, "sweeping", dirs)
    /\ UNCHANGED <<store, registry, lock, tmp>>

(* Faulty: the flock of a directory is not asked for.                      *)
SweepableAny(n) == TRUE

Sweepable(n) == flock[n] = None

(* An entry that is gone ends the sweep, not the command; one whose flock  *)
(* another has is left alone.                                              *)
SweepPass(p) ==
    /\ pc[p] = "sweeping"
    /\ \E n \in todo[p] :
          /\ n \notin dirs \/ ~Sweepable(n)
          /\ GoWith(p, "sweeping", IF n \in dirs THEN todo[p] \ {n} ELSE {})
    /\ UNCHANGED <<store, registry, lock, tmp>>

SweepTake(p) ==
    /\ pc[p] = "sweeping"
    /\ \E n \in todo[p] \cap dirs :
          /\ Sweepable(n)
          /\ flock' = [flock EXCEPT ![n] = p]
          /\ sweeps' = [sweeps EXCEPT ![p] = n]
          /\ todo' = [todo EXCEPT ![p] = @ \ {n}]
    /\ pc' = [pc EXCEPT ![p] = "rmtmp"]
    /\ UNCHANGED <<store, registry, lock, dirs, job, digest, fd>>

SweepRemove(p) ==
    /\ pc[p] = "rmtmp"
    /\ DropTmp(sweeps[p])
    /\ fd' = [q \in Procs |-> IF fd[q] = "this" /\ Name(q) = sweeps[p] THEN "gone" ELSE fd[q]]
    /\ sweeps' = [sweeps EXCEPT ![p] = None]
    /\ pc' = [pc EXCEPT ![p] = "sweeping"]
    /\ UNCHANGED <<store, registry, lock, job, digest, todo>>

Swept(p) ==
    /\ pc[p] = "sweeping"
    /\ todo[p] = {}
    /\ Goto(p, CASE job[p].op = "delete" -> "delete" [] job[p].op = "prune" -> "list" [] OTHER -> "walk")
    /\ UNCHANGED <<store, registry, lock, tmp>>

Delete(p) ==
    /\ pc[p] = "delete"
    /\ IF Name(p) \in Tags
       THEN link' = [link EXCEPT ![Name(p)] = None] /\ UNCHANGED image
       ELSE image' = [image EXCEPT ![Name(p)] = "gone"] /\ UNCHANGED link
    /\ Goto(p, "walk")
    /\ UNCHANGED <<registry, lock, tmp>>

(* Which images age or a budget condemns is any set of those listed.       *)
PruneList(p) ==
    /\ pc[p] = "list"
    /\ \E ds \in SUBSET {d \in Digests : Here(d)} : GoWith(p, "prune", ds)
    /\ UNCHANGED <<store, registry, lock, tmp>>

(* Removes one image of a prune's or a reclaim's list; one that is gone    *)
(* already has no config.json to lock, and is an error.                    *)
PruneOne(p) ==
    /\ pc[p] \in {"prune", "reclaim"}
    /\ \E d \in todo[p] :
          IF Here(d)
          THEN /\ image' = [image EXCEPT ![d] = "gone"]
               /\ GoWith(p, pc[p], todo[p] \ {d})
               /\ UNCHANGED <<link, lock, tmp, registry>>
          ELSE Fail(p)

Pruned(p) ==
    /\ todo[p] = {}
    /\ \/ pc[p] = "prune" /\ End(p, "ok") /\ UNCHANGED <<store, registry>>
       \/ pc[p] = "reclaim" /\ Goto(p, "download") /\ UNCHANGED <<store, registry, lock, tmp>>
       \/ pc[p] = "reclaim" /\ Fail(p)

-----------------------------------------------------------------------------
(* What happens around the commands. *)

Kill(p) ==
    /\ job[p].op = "pull_kill"
    /\ pc[p] \in Working
    /\ Free(p)
    /\ GoWith(p, "dead", {})
    /\ UNCHANGED <<store, registry>>

(* Somebody pushes another image under a tag.                              *)
Retag(t) ==
    /\ retags < MaxRetags
    /\ \E d \in Images(t) \ {tag[t]} : tag' = [tag EXCEPT ![t] = d]
    /\ retags' = retags + 1
    /\ UNCHANGED <<store, lock, tmp, job, pc, todo, known>>

Pull(p) ==
    \/ PullManifest(p) \/ PullLock(p) \/ PullExists(p) \/ MakeTmp(p) \/ OpenTmp(p) \/ OpenTmpFails(p) \/ LockTmp(p)
    \/ PullSpace(p) \/ Download(p) \/ DownloadFails(p) \/ Move(p) \/ PullUnlink(p) \/ PullSymlink(p)
    \/ MarkExplicitlyPulled(p) \/ PullOpen(p)

Collect(p) == CollectCheck(p) \/ CollectRemove(p) \/ Collected(p)

Sweep(p) == SweepList(p) \/ SweepPass(p) \/ SweepTake(p) \/ SweepRemove(p) \/ Swept(p)

Step(p) == Pull(p) \/ Collect(p) \/ Sweep(p) \/ Delete(p) \/ PruneList(p) \/ PruneOne(p) \/ Pruned(p)

First(op) == IF op \in {"delete", "prune", "gc"} THEN "sweep" ELSE "manifest"

(* Every image in the cache is marked or has a tag's link; links may be    *)
(* broken, and a killed pull may have left its directory.                  *)
Init ==
    /\ image \in [Digests -> {"gone", "cached", "marked"}]
    /\ link \in [Tags -> Digests \cup {None}]
    /\ \A d \in Digests : image[d] = "cached" => \E t \in Tags : link[t] = d
    /\ lock = [h \in Hosts |-> None]
    /\ dirs = {} \/ \E n \in Refs : dirs = {n}
    /\ flock = [n \in Refs |-> None]
    /\ tag \in [Tags -> Digests] /\ \A t \in Tags : tag[t] \in Images(t)
    /\ retags = 0
    /\ job \in Mixes
    /\ pc = [p \in Procs |-> First(job[p].op)]
    /\ digest = [p \in Procs |-> None]
    /\ todo = [p \in Procs |-> {}]
    /\ fd = [p \in Procs |-> "none"]
    /\ sweeps = [p \in Procs |-> None]

Next == (\E p \in Procs : Step(p) \/ Kill(p)) \/ \E t \in Tags : Retag(t)

(* Goroutines are scheduled.                                               *)
Fairness == \A p \in Procs : WF_cvars(Step(p))

Spec == Init /\ [][Next]_cvars /\ Fairness

-----------------------------------------------------------------------------
(* What must hold *)

(* The types of the variables.                                             *)
TypeOK ==
    /\ image \in [Digests -> {"gone", "cached", "marked"}]
    /\ link \in [Tags -> Digests \cup {None}]
    /\ lock \in [Hosts -> Procs \cup {None}]
    /\ dirs \subseteq Refs
    /\ flock \in [Refs -> Procs \cup {None}]
    /\ tag \in [Tags -> Digests]
    /\ retags \in 0..MaxRetags
    /\ job \in [Procs -> [op : Ops, name : Refs]]
    /\ pc \in [Procs -> Working \cup Ended]
    /\ digest \in [Procs -> Digests \cup {None}]
    /\ todo \in [Procs -> SUBSET Refs]
    /\ fd \in [Procs -> {"none", "this", "gone"}]
    /\ sweeps \in [Procs -> Refs \cup {None}]

(* A directory a pull fills is there and is the pull's: no sweep and no    *)
(* other pull of the reference has it (oci.go:341, config.go:85).          *)
TmpDirOwned ==
    \A p \in Procs :
        pc[p] \in {"space", "reclaim", "download", "move"} /\ fd[p] = "this" =>
            Name(p) \in dirs /\ flock[Name(p)] = p

(* When all commands are over and none was killed, every image left in the *)
(* cache is marked or some tag leads to it (oci.go:431, 195).              *)
NoGarbage ==
    (\A p \in Procs : pc[p] \in {"ok", "failed"}) =>
        \A d \in Digests : image[d] = "cached" => \E t \in Tags : link[t] = d

(* An image that a pull by digest reported cached stays until it is        *)
(* deleted, pruned or reclaimed, whatever tags leave it and whichever      *)
(* pull cached it (oci.go:400, 197).                                       *)
MarksStay ==
    \A p \in Procs :
        /\ pc[p] = "ok" /\ IsPull(p) /\ Name(p) \in Digests
        /\ \A q \in Procs : job[q].op \notin {"delete", "prune", "pull_reclaim"}
        => Here(Name(p))

(* When a pull reports success, the image of the manifest it fetched is in *)
(* the cache and its tag leads there (oci.go:287, 409).                    *)
PullOkMeansCached ==
    [][\A p \in Procs :
          IsPull(p) /\ pc[p] # "ok" /\ pc'[p] = "ok" =>
              /\ Here(digest'[p])
              /\ Name(p) \in Tags => link[Name(p)] = digest'[p]]_cvars

(* A collection never removes an image that is marked, or that a tag leads *)
(* to at that moment, although it counted before (oci.go:197).             *)
GCKeepsPulled ==
    [][\A p \in Procs, d \in Digests :
          pc[p] = "collect" /\ d \in todo[p] \ todo'[p] /\ Here(d) /\ image'[d] = "gone" =>
              image[d] # "marked" /\ \A t \in Tags : link[t] # d]_cvars

(* After a collection's walk no tag leads to an image that is gone: such a *)
(* link would make a later pull of the tag's old image find it linked      *)
(* (oci.go:169).                                                           *)
TagsLead ==
    [][\A p \in Procs : pc[p] = "walk" /\ pc'[p] = "collect" =>
          \A t \in Tags : link'[t] # None => image'[link'[t]] # "gone"]_cvars

(* The collection spares what is pulled and leaves no broken link. *)
CollectionsSpare == GCKeepsPulled /\ TagsLead

-----------------------------------------------------------------------------
(* The inductive invariant *)

Ready == {"opentmp", "locktmp", "space", "reclaim", "download", "move"}
Holding == Ready \cup {"locked", "unlink", "symlink", "mark", "walk", "collect", "open"}

(* A command is at a step of its own, and a pull past its lock has it.     *)
Placed ==
    \A p \in Procs :
        /\ IsPull(p) => pc[p] \in Holding \cup Ended \cup {"manifest", "lock"}
        /\ IsPull(p) /\ pc[p] \in Holding => lock[Host(p)] = p
        /\ ~IsPull(p) =>
              pc[p] \in Ended \cup {"sweep", "sweeping", "rmtmp", "delete", "list", "prune", "walk", "collect"}
        /\ pc[p] = "delete" => job[p].op = "delete"
        /\ pc[p] \in {"list", "prune"} => job[p].op = "prune"
        /\ pc[p] = "reclaim" => job[p].op = "pull_reclaim"

(* After its manifest a pull knows an image of its own repository.         *)
Known ==
    /\ \A t \in Tags : tag[t] \in Images(t)
    /\ \A p \in Procs : IsPull(p) /\ pc[p] \in Holding \cup {"lock", "ok"} =>
          /\ digest[p] \in Digests /\ HostOf[digest[p]] = Host(p)
          /\ Name(p) \in Digests => digest[p] = Name(p)
          /\ pc[p] = "mark" => Name(p) \in Digests
          /\ pc[p] \in {"unlink", "symlink", "walk", "collect"} => Name(p) \in Tags

(* What a pull opened under tmp is there as long as its descriptor is of   *)
(* it, and what is being swept is the sweep's.                             *)
TmpHeld ==
    \A p \in Procs :
        /\ pc[p] = "rmtmp" => sweeps[p] \in dirs /\ flock[sweeps[p]] = p
        /\ pc[p] = "locktmp" => fd[p] = (IF Name(p) \in dirs THEN "this" ELSE "gone")
        /\ pc[p] \in {"space", "reclaim", "download", "move"} =>
              \/ fd[p] = "this" /\ Name(p) \in dirs /\ flock[Name(p)] = p
              \/ fd[p] = "gone" /\ Name(p) \notin dirs /\ pc[p] # "move"

(* A directory's flock is a directory's.                                   *)
FlocksOfDirs == \A n \in Refs : flock[n] # None => n \in dirs

(* What a pull is about to bring is not there: only pulls bring images.    *)
Fresh == \A p \in Procs : pc[p] \in Ready => ~Here(digest[p])

(* A tag's link is its pull's until the pull ends, or is removed.          *)
LinksHeld ==
    \A p \in Procs : IsPull(p) /\ Name(p) \in Tags =>
        /\ pc[p] = "symlink" => link[Name(p)] = None
        /\ pc[p] \in {"walk", "collect", "open"} => link[Name(p)] \in {digest[p], None}

(* Where no image is deleted or pruned, one pulled by digest is marked.    *)
Marked ==
    (\A q \in Procs : job[q].op \notin {"delete", "prune", "pull_reclaim"}) =>
        \A p \in Procs : IsPull(p) /\ Name(p) \in Digests =>
            /\ pc[p] = "open" => image[Name(p)] # "cached"
            /\ pc[p] = "ok" => image[Name(p)] = "marked"

(* Who is going to link, mark or collect an image that has neither.        *)
Owes(p, d) ==
    \/ pc[p] \in {"unlink", "symlink", "walk", "dead"}
    \/ pc[p] = "mark" /\ Name(p) = d
    \/ pc[p] = "collect" /\ d \in todo[p]

Accounted ==
    \A d \in Digests :
        image[d] = "cached" => (\E t \in Tags : link[t] = d) \/ \E p \in Procs : Owes(p, d)

IInv ==
    /\ TypeOK
    /\ Placed
    /\ Known
    /\ TmpHeld
    /\ FlocksOfDirs
    /\ Fresh
    /\ LinksHeld
    /\ Marked
    /\ Accounted

(* Every command ends: a pull that fails does not leave the next one       *)
(* waiting for its host (oci.go:316).                                      *)
CommandsEnd == \A p \in Procs : <>(pc[p] \in Ended)
=============================================================================
