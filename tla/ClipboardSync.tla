---------------------------- MODULE ClipboardSync ----------------------------
(***************************************************************************)
(* The clipboard engine of a run: one goroutine that once a second carries *)
(* what changed on the host to the guest, or else what changed in the      *)
(* guest to the host, while the users of both copy at any moment, the      *)
(* guest comes and goes, and control requests change the policy.           *)
(*                                                                         *)
(* What is copied is an item: a content, numbered, by whom it was copied,  *)
(* and the formats it is offered in.  The hash of an item is the item.     *)
(* A guest's tools take one format per copy, the richest (backend_linux).  *)
(***************************************************************************)
EXTENDS Naturals, FiniteSets

CONSTANTS
    Offers,        \* the sets of formats an application offers a copy in
    Policies,      \* the policies users ask for: [dir, formats]
    Requests,      \* control requests handled at the same time
    ClipMixes,     \* [copies, policy, down, sets]: who copies, the first policy,
                   \* whether the guest goes away, whether the policy changes
    MaxCopies, MaxDowns, MaxSets

VARIABLES
    host, guest,   \* the clipboards: an item and a change count
    up,            \* the guest answers
    eng,           \* the engine
    ctl,           \* the control requests: the policy each has read
    clipmix,
    copies, downs, sets,  \* bounds
    reached,       \* history: contents the engine has put on the other side
    asked          \* history: the policy with every override asked for

cvars == <<host, guest, up, eng, ctl, clipmix, copies, downs, sets, reached, asked>>

NoItem == [c |-> 0, by |-> "nobody", f |-> {}]
NoPolicy == [dir |-> "none", formats |-> {}]
NoCtl == [pc |-> "idle", seen |-> NoPolicy, want |-> NoPolicy]

AllowHostToGuest(p) == p.dir \in {"bidirectional", "hostToGuest"}
AllowGuestToHost(p) == p.dir \in {"bidirectional", "guestToHost"}

(* What macpb.Read and the guest's Read make of a clipboard: the formats    *)
(* the policy allows, and files alone if there are any.                     *)
Captured(item, allowed) ==
    LET f == IF "files" \in item.f \cap allowed THEN {"files"} ELSE item.f \cap allowed IN
    IF f = {} THEN NoItem ELSE [item EXCEPT !.f = f]

(* The guest's side of it. *)
GuestRead(item, allowed) == Captured(item, allowed)

Richness == [files |-> 4, image |-> 3, rich |-> 2, plain |-> 1]

(* richestItem, and Write: a guest's clipboard holds one representation. *)
Written(item) ==
    [item EXCEPT !.f = {CHOOSE x \in item.f : \A y \in item.f : Richness[x] >= Richness[y]}]

-----------------------------------------------------------------------------
(* The users, and the guest, which is not there before somebody has logged  *)
(* in, while it restarts, or once its session has ended.                    *)
UserCopies(f) == [c |-> copies + 1, by |-> "host", f |-> f]

HostCopy ==
    /\ "host" \in clipmix.copies /\ copies < MaxCopies
    /\ \E f \in Offers : host' = [item |-> UserCopies(f), cc |-> host.cc + 1]
    /\ copies' = copies + 1
    /\ UNCHANGED <<guest, up, eng, ctl, clipmix, downs, sets, reached, asked>>

GuestCopy ==
    /\ "guest" \in clipmix.copies /\ copies < MaxCopies
    /\ \E f \in Offers : guest' = [item |-> [UserCopies(f) EXCEPT !.by = "guest"], cc |-> guest.cc + 1]
    /\ copies' = copies + 1
    /\ UNCHANGED <<host, up, eng, ctl, clipmix, downs, sets, reached, asked>>

GuestDown ==
    /\ clipmix.down /\ up /\ downs < MaxDowns /\ up' = FALSE /\ downs' = downs + 1
    /\ UNCHANGED <<host, guest, eng, ctl, clipmix, copies, sets, reached, asked>>

GuestUp ==
    /\ ~up /\ up' = TRUE
    /\ UNCHANGED <<host, guest, eng, ctl, clipmix, copies, downs, sets, reached, asked>>

-----------------------------------------------------------------------------
(* serveClipboardControl: the override is applied to the policy the engine  *)
(* has, or is about to have, and the result is queued for its next cycle.   *)
EnginePolicy == IF eng.pending # NoPolicy THEN eng.pending ELSE eng.policy

ControlRead(r) ==
    /\ clipmix.sets /\ ctl[r].pc = "idle" /\ sets < MaxSets
    /\ \E p \in Policies : ctl' = [ctl EXCEPT ![r] = [pc |-> "set", seen |-> EnginePolicy, want |-> p]]
    /\ sets' = sets + 1
    /\ UNCHANGED <<host, guest, up, eng, clipmix, copies, downs, reached, asked>>

(* Override.Apply, for an override of the direction, of the formats or both *)
ApplyOverride(seen, want) ==
    [dir     |-> IF want.dir = "same" THEN seen.dir ELSE want.dir,
     formats |-> IF want.formats = {"same"} THEN seen.formats ELSE want.formats]

(* Faulty: the policy takes effect at once. *)
SetPolicyNow(p) == eng' = [eng EXCEPT !.policy = p]

SetPolicy(p) == eng' = [eng EXCEPT !.pending = p]

ControlSet(r) ==
    /\ ctl[r].pc = "set"
    /\ SetPolicy(ApplyOverride(ctl[r].seen, ctl[r].want))
    /\ asked' = ApplyOverride(asked, ctl[r].want)
    /\ ctl' = [ctl EXCEPT ![r] = NoCtl]
    /\ UNCHANGED <<host, guest, up, clipmix, copies, downs, sets, reached>>

-----------------------------------------------------------------------------
(* A cycle: the queued policy first, taken out of the queue and then put in *)
(* force, the second without the lock.                                      *)
TakePending ==
    /\ eng.pc = "wait"
    /\ eng' = [eng EXCEPT !.taken = eng.pending, !.pending = NoPolicy,
                          !.pc = IF eng.pending = NoPolicy THEN "connect" ELSE "policy"]
    /\ UNCHANGED <<host, guest, up, ctl, clipmix, copies, downs, sets, reached, asked>>

applyPendingPolicy ==
    /\ eng.pc = "policy"
    /\ eng' = [eng EXCEPT !.policy = eng.taken, !.taken = NoPolicy, !.pc = "connect"]
    /\ UNCHANGED <<host, guest, up, ctl, clipmix, copies, downs, sets, reached, asked>>

(* Without a connection there is nothing to do but to try to make one; the  *)
(* steps of that (address, installation, hello) are one, since each is      *)
(* tried again in the next cycle.                                           *)
SyncConnect ==
    /\ eng.pc = "connect"
    /\ eng' = IF ~eng.client /\ ~up THEN [eng EXCEPT !.pc = "wait"]
              ELSE [eng EXCEPT !.client = TRUE, !.pc = IF AllowHostToGuest(eng.policy) THEN "count" ELSE "stat"]
    /\ UNCHANGED <<host, guest, up, ctl, clipmix, copies, downs, sets, reached, asked>>

ToGuestSide == IF eng.client /\ AllowGuestToHost(eng.policy) THEN "stat" ELSE "wait"

HostCount ==
    /\ eng.pc = "count"
    /\ eng' = IF host.cc = eng.lastHostCC THEN [eng EXCEPT !.pc = ToGuestSide]
              ELSE [eng EXCEPT !.cc = host.cc, !.pc = "capture"]
    /\ UNCHANGED <<host, guest, up, ctl, clipmix, copies, downs, sets, reached, asked>>

(* The clipboard is read after its count, so that a copy in between is met  *)
(* again in the next cycle.                                                 *)
CaptureHost ==
    /\ eng.pc = "capture"
    /\ LET p == Captured(host.item, eng.policy.formats) IN
       eng' = IF p = NoItem \/ p = eng.lastHostHash \/ p = eng.lastGuestHash
              THEN [eng EXCEPT !.lastHostCC = eng.cc, !.pc = ToGuestSide]
              ELSE [eng EXCEPT !.held = p, !.pc = "push"]
    /\ UNCHANGED <<host, guest, up, ctl, clipmix, copies, downs, sets, reached, asked>>

(* setGuest: an answer, an error of the guest's, after which the guest is   *)
(* asked for its side all the same, or a broken connection, of which the    *)
(* engine does not know whether the guest had the item.                     *)
Pushed ==
    /\ guest' = [item |-> Written(eng.held), cc |-> guest.cc + 1] /\ reached' = reached \cup {eng.held.c}
    /\ eng' = [eng EXCEPT !.lastHostCC = eng.cc, !.lastHostHash = eng.held, !.lastGuestHash = eng.held,
                          !.held = NoItem, !.pc = "wait"]

(* Faulty: the hashes and the count are remembered before the answer. *)
NotPushedForgotten ==
    /\ eng' = [eng EXCEPT !.lastHostCC = eng.cc, !.lastHostHash = eng.held, !.held = NoItem, !.pc = ToGuestSide]
    /\ UNCHANGED <<guest, reached>>

NotPushed ==
    /\ eng' = [eng EXCEPT !.held = NoItem, !.pc = ToGuestSide] /\ UNCHANGED <<guest, reached>>

dropClient ==
    /\ eng' = [eng EXCEPT !.client = FALSE, !.held = NoItem, !.pc = "wait"] /\ UNCHANGED <<guest, reached>>

SetGuest ==
    /\ eng.pc = "push"
    /\ IF up THEN Pushed ELSE NotPushed \/ dropClient
    /\ UNCHANGED <<host, up, ctl, clipmix, copies, downs, sets, asked>>

StatGuest ==
    /\ eng.pc = "stat"
    /\ eng' = IF ~AllowGuestToHost(eng.policy) \/ ~up THEN [eng EXCEPT !.pc = "wait", !.client = up]
              ELSE IF guest.cc = eng.lastGuestCC THEN [eng EXCEPT !.pc = "wait"]
              ELSE [eng EXCEPT !.cc = guest.cc, !.pc = "get"]
    /\ UNCHANGED <<host, guest, up, ctl, clipmix, copies, downs, sets, reached, asked>>

Fresh(p) == p # NoItem /\ p # eng.lastGuestHash /\ p # eng.lastHostHash

GetGuest ==
    /\ eng.pc = "get"
    /\ LET p == GuestRead(guest.item, eng.policy.formats) IN
       eng' = IF ~up THEN [eng EXCEPT !.pc = "wait", !.client = FALSE]
              ELSE IF Fresh(p) THEN [eng EXCEPT !.held = p, !.pc = "apply"]
              ELSE [eng EXCEPT !.lastGuestCC = eng.cc, !.pc = "wait"]
    /\ UNCHANGED <<host, guest, up, ctl, clipmix, copies, downs, sets, reached, asked>>

(* applyHost: the host's clipboard is written, and then its count read. *)
ApplyHost ==
    /\ eng.pc = "apply"
    /\ host' = [item |-> eng.held, cc |-> host.cc + 1] /\ reached' = reached \cup {eng.held.c}
    /\ eng' = [eng EXCEPT !.pc = "applied"]
    /\ UNCHANGED <<guest, up, ctl, clipmix, copies, downs, sets, asked>>

Applied ==
    /\ eng.pc = "applied"
    /\ eng' = [eng EXCEPT !.lastHostCC = host.cc, !.lastHostHash = eng.held, !.lastGuestHash = eng.held,
                          !.lastGuestCC = eng.cc, !.held = NoItem, !.pc = "wait"]
    /\ UNCHANGED <<host, guest, up, ctl, clipmix, copies, downs, sets, reached, asked>>

-----------------------------------------------------------------------------
(* initHostState: nothing is carried at the start; the guest is taken to    *)
(* match the host.                                                          *)
Init ==
    /\ host = [item |-> NoItem, cc |-> 1] /\ guest = [item |-> NoItem, cc |-> 1] /\ up = TRUE
    /\ clipmix \in ClipMixes
    /\ eng = [pc |-> "wait", policy |-> clipmix.policy, pending |-> NoPolicy, taken |-> NoPolicy, client |-> FALSE, cc |-> 0,
              lastHostCC |-> 1, lastGuestCC |-> 0, lastHostHash |-> NoItem, lastGuestHash |-> NoItem, held |-> NoItem]
    /\ ctl = [r \in Requests |-> NoCtl]
    /\ copies = 0 /\ downs = 0 /\ sets = 0 /\ reached = {} /\ asked = clipmix.policy

Sync == TakePending \/ applyPendingPolicy \/ SyncConnect \/ HostCount \/ CaptureHost \/ SetGuest \/ StatGuest \/ GetGuest \/ ApplyHost \/ Applied

Next ==
    \/ HostCopy \/ GuestCopy \/ GuestDown \/ GuestUp \/ Sync
    \/ \E r \in Requests : ControlRead(r) \/ ControlSet(r)

(* The engine's loop goes on; a guest that went away comes back. *)
Fairness == WF_cvars(Sync) /\ WF_cvars(GuestUp)

Spec == Init /\ [][Next]_cvars /\ Fairness

-----------------------------------------------------------------------------
Items == [c : 0..MaxCopies, by : {"nobody", "host", "guest"}, f : SUBSET DOMAIN Richness]
EngPolicies == [dir : {"none", "disabled", "bidirectional", "hostToGuest", "guestToHost"}, formats : SUBSET DOMAIN Richness]

TypeOK ==
    /\ {host.item, guest.item, eng.held, eng.lastHostHash, eng.lastGuestHash} \subseteq Items
    /\ {host.cc, guest.cc} \subseteq Nat /\ up \in BOOLEAN
    /\ eng.pc \in {"wait", "policy", "connect", "count", "capture", "push", "stat", "get", "apply", "applied"}
    /\ eng.policy \in EngPolicies /\ {eng.pending, eng.taken} \subseteq EngPolicies /\ eng.client \in BOOLEAN
    /\ eng.lastHostCC <= host.cc /\ eng.lastGuestCC <= guest.cc
    /\ \A r \in Requests : ctl[r].seen \in EngPolicies
    /\ reached \subseteq 1..MaxCopies

(* Nothing crosses against the policy in force, in its direction or in its  *)
(* formats, whenever requests change it (SetPolicy and applyPendingPolicy,  *)
(* engine.go 261-300: the derived state never changes in mid-cycle).        *)
NothingAgainstPolicy ==
    [][ /\ (guest' # guest /\ eng'.pc # eng.pc)
             => AllowHostToGuest(eng.policy) /\ guest'.item.f \subseteq eng.policy.formats
        /\ (host' # host /\ eng'.pc # eng.pc)
             => AllowGuestToHost(eng.policy) /\ host'.item.f \subseteq eng.policy.formats ]_cvars

(* The host's clipboard is only ever replaced by something copied in the    *)
(* guest, never by the engine's own copy coming back (the loop prevention   *)
(* of lines 142-146 and 370) - unless that copy had several formats, of     *)
(* which the guest keeps one: what it kept comes back, once.                *)
HostKeepsItsCopy ==
    [][ (host' # host /\ eng'.pc # eng.pc) =>
            \/ host'.item.by = "guest"
            \/ host'.item = Written(eng.lastGuestHash) /\ host'.item # eng.lastGuestHash ]_cvars

Sendable(item, p) == Captured(item, p.formats) # NoItem

(* Where the policy lets the host's copies cross, each one gets to the      *)
(* guest, or a later copy has taken its place; a failure in between, the    *)
(* guest's restart or a copy made at any point of the cycle loses none      *)
(* (lines 314-318).                                                         *)
HostCopiesArrive ==
    (clipmix.policy.dir = "hostToGuest" /\ ~clipmix.sets) =>
        \A n \in 1..MaxCopies :
            (host.item.c = n /\ Sendable(host.item, eng.policy)) ~> (n \in reached \/ host.item.c # n)

(* The same the other way (lines 347-350). *)
GuestCopiesArrive ==
    (clipmix.policy.dir = "guestToHost" /\ ~clipmix.sets) =>
        \A n \in 1..MaxCopies :
            (guest.item.c = n /\ Sendable(guest.item, eng.policy)) ~> (n \in reached \/ guest.item.c # n)

Wanted == {ApplyOverride(ApplyOverride(m.policy, v), w) : m \in {x \in ClipMixes : x.sets}, v, w \in Policies}

(* A change that is queued takes effect unless another replaces it,         *)
(* whatever the state of the guest: "The change applies within one sync     *)
(* cycle" (docs/manual/clipboard.md:98).                                    *)
ChangesApply ==
    \A p \in Wanted : (eng.pending = p) ~> (eng.policy = p \/ eng.pending \notin {p, NoPolicy})
=============================================================================
