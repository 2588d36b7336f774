--------------------------- MODULE GuestSideProofs ---------------------------
(***************************************************************************)
(* What runs beside the guest, proved: the clipboard (ClipSteps), the      *)
(* agent's channel (ChanSafe), the addresses (AddrSafe), the hypervisor    *)
(* (MachinesSafe) and its devices (DevicesSafe).  The components share no  *)
(* variable: the invariant of each is inductive by itself, and holds       *)
(* whichever component a history is of.                                    *)
(***************************************************************************)
EXTENDS GuestSide, TLAPS, FiniteSetTheorems

-----------------------------------------------------------------------------
ClipCopies == [c : 1..MaxCopies, by : {"host", "guest"}, f : SUBSET DOMAIN Clip!Richness]
ClipItems == {Clip!NoItem} \cup ClipCopies
ClipSides == [item : ClipItems, cc : Nat]

ClipSteps_ ==
    {"wait", "policy", "connect", "count", "capture", "push", "stat", "get", "apply", "applied"}

ClipEngines ==
    [pc : ClipSteps_, policy : Clip!EngPolicies, pending : Clip!EngPolicies, taken : Clip!EngPolicies, client : BOOLEAN,
     cc : Nat, lastHostCC : Nat, lastGuestCC : Nat, lastHostHash : ClipItems, lastGuestHash : ClipItems,
     held : ClipItems]

ClipRequests == [pc : {"idle", "set"}, seen : Clip!EngPolicies, want : Clip!EngPolicies \cup Policies]

ClipTypes ==
    /\ host \in ClipSides /\ guest \in ClipSides /\ up \in BOOLEAN
    /\ eng \in ClipEngines
    /\ ctl \in [Requests -> ClipRequests]
    /\ copies \in 0..MaxCopies
    /\ reached \subseteq 1..MaxCopies

(* The counts the engine remembers have been. *)
ClipCounts ==
    /\ eng.lastHostCC <= host.cc /\ eng.lastGuestCC <= guest.cc
    /\ eng.pc \in {"capture", "push"} => eng.cc <= host.cc
    /\ eng.pc \in {"get", "apply", "applied"} => eng.cc <= guest.cc

(* A policy holds for the whole of a cycle. *)
ClipAllowed ==
    /\ eng.pc \in {"count", "capture", "push"} => Clip!AllowHostToGuest(eng.policy)
    /\ eng.pc \in {"get", "apply", "applied"} => Clip!AllowGuestToHost(eng.policy)
    /\ eng.pc \in {"push", "apply", "applied"} =>
        eng.held \in ClipCopies /\ eng.held.f # {} /\ eng.held.f \subseteq eng.policy.formats

ClipKept(item) == item = Clip!Written(eng.lastGuestHash) /\ eng.lastGuestHash \in ClipCopies /\ eng.lastGuestHash.f # {}

(* The engine knows what it put in the guest, and what it fetched is not that. *)
ClipKnown ==
    /\ guest.item.by = "host" => ClipKept(guest.item)
    /\ eng.pc \in {"apply", "applied"} =>
        \/ eng.held.by = "guest" /\ guest.item.by = "guest"
        \/ ClipKept(eng.held) /\ eng.held # eng.lastGuestHash

ClipInv == ClipTypes /\ ClipCounts /\ ClipAllowed /\ ClipKnown

-----------------------------------------------------------------------------
LEMMA ClipNone == Clip!NoItem.by = "nobody" /\ Clip!NoItem.f = {} /\ Clip!NoItem \notin ClipCopies /\ Clip!NoItem \in ClipItems /\ Clip!NoItem \in Clip!Items
  BY ClipAssumption DEF Clip!NoItem, ClipCopies, ClipItems, Clip!Items

LEMMA ClipFormats == DOMAIN Clip!Richness = {"files", "image", "rich", "plain"}
      /\ Clip!Richness["files"] = 4 /\ Clip!Richness["image"] = 3 /\ Clip!Richness["rich"] = 2 /\ Clip!Richness["plain"] = 1
  BY DEF Clip!Richness

(* The guest keeps one format. *)
LEMMA ClipWritten ==
    ASSUME NEW i \in ClipCopies, i.f # {}
    PROVE  /\ Clip!Written(i) \in ClipCopies
           /\ Clip!Written(i).f # {} /\ Clip!Written(i).f \subseteq i.f
           /\ Clip!Written(i).c = i.c /\ Clip!Written(i).by = i.by
           /\ \A x, y \in Clip!Written(i).f : x = y
<1> DEFINE Best(x) == \A y \in i.f : Clip!Richness[x] >= Clip!Richness[y]
           best == CHOOSE x \in i.f : Best(x)
<1>1. i.f \subseteq {"files", "image", "rich", "plain"}
  BY ClipFormats DEF ClipCopies
<1>2. \E x \in i.f : Best(x)
  <2>1. CASE "files" \in i.f
    BY <1>1, <2>1, ClipFormats
  <2>2. CASE "files" \notin i.f /\ "image" \in i.f
    BY <1>1, <2>2, ClipFormats
  <2>3. CASE "files" \notin i.f /\ "image" \notin i.f /\ "rich" \in i.f
    BY <1>1, <2>3, ClipFormats
  <2>4. CASE "files" \notin i.f /\ "image" \notin i.f /\ "rich" \notin i.f
    <3>1. i.f = {"plain"}
      BY <1>1, <2>4
    <3> QED BY <3>1, ClipFormats
  <2> QED BY <2>1, <2>2, <2>3, <2>4
<1>3. best \in i.f
  BY <1>2
<1> HIDE DEF best
<1>4. Clip!Written(i) = [i EXCEPT !.f = {best}]
  BY DEF Clip!Written, best
<1> QED BY <1>3, <1>4 DEF ClipCopies

LEMMA ClipOneWritten ==
    ASSUME NEW i \in ClipCopies, i.f # {}, \A x, y \in i.f : x = y
    PROVE  Clip!Written(i) = i
<1>1. PICK x \in i.f : i.f = {x}
  OBVIOUS
<1>2. /\ Clip!Written(i) \in ClipCopies /\ Clip!Written(i).f = i.f
      /\ Clip!Written(i).c = i.c /\ Clip!Written(i).by = i.by
  BY <1>1, ClipWritten
<1> QED BY <1>2 DEF ClipCopies

LEMMA ClipCaptured ==
    ASSUME NEW i \in ClipItems, NEW A
    PROVE  \/ Clip!Captured(i, A) = Clip!NoItem
           \/ /\ i \in ClipCopies /\ Clip!Captured(i, A) \in ClipCopies
              /\ Clip!Captured(i, A).f # {} /\ Clip!Captured(i, A).f \subseteq A
              /\ Clip!Captured(i, A).f \subseteq i.f
              /\ Clip!Captured(i, A).by = i.by /\ Clip!Captured(i, A).c = i.c
<1> DEFINE f == IF "files" \in i.f \cap A THEN {"files"} ELSE i.f \cap A
<1>1. f \subseteq i.f /\ f \subseteq A
  OBVIOUS
<1>2. Clip!Captured(i, A) = IF f = {} THEN Clip!NoItem ELSE [i EXCEPT !.f = f]
  BY DEF Clip!Captured
<1> HIDE DEF f
<1>3. CASE i = Clip!NoItem
  BY <1>1, <1>2, <1>3, ClipNone
<1>4. CASE i \in ClipCopies
  BY <1>1, <1>2, <1>4 DEF ClipCopies
<1> QED BY <1>3, <1>4 DEF ClipItems

(* What the guest kept is read as it is, or not at all. *)
LEMMA ClipReadBack ==
    ASSUME NEW i \in ClipCopies, \A x, y \in i.f : x = y, NEW A
    PROVE  Clip!Captured(i, A) \in {i, Clip!NoItem}
<1>1. i \in ClipItems
  BY DEF ClipItems
<1>2. CASE Clip!Captured(i, A) # Clip!NoItem
  <2>1. /\ Clip!Captured(i, A) \in ClipCopies
        /\ Clip!Captured(i, A).f # {} /\ Clip!Captured(i, A).f \subseteq i.f
        /\ Clip!Captured(i, A).by = i.by /\ Clip!Captured(i, A).c = i.c
    BY <1>1, <1>2, ClipCaptured
  <2>2. Clip!Captured(i, A).f = i.f
    BY <2>1
  <2> QED BY <2>1, <2>2 DEF ClipCopies
<1> QED BY <1>2

-----------------------------------------------------------------------------
LEMMA ClipInitInv == Clip!Init => ClipInv
<1> SUFFICES ASSUME Clip!Init PROVE ClipInv
  OBVIOUS
<1>1. Clip!NoPolicy \in Clip!EngPolicies /\ clipmix.policy \in Clip!EngPolicies
  BY ClipAssumption DEF Clip!Init, Clip!NoPolicy, Clip!EngPolicies
<1>2. eng \in ClipEngines /\ eng.pc = "wait" /\ eng.lastHostCC = 1 /\ eng.lastGuestCC = 0
  BY <1>1, ClipNone DEF Clip!Init, ClipEngines, ClipSteps_
<1>3. host \in ClipSides /\ guest \in ClipSides /\ guest.item = Clip!NoItem /\ host.cc = 1 /\ guest.cc = 1
  BY ClipNone DEF Clip!Init, ClipSides
<1>4. ctl \in [Requests -> ClipRequests]
  BY <1>1 DEF Clip!Init, ClipRequests, Clip!NoCtl
<1>5. ClipTypes
  BY <1>2, <1>3, <1>4, ClipAssumption DEF Clip!Init, ClipTypes
<1>6. ClipCounts /\ ClipAllowed /\ ClipKnown
  BY <1>2, <1>3, ClipNone DEF ClipCounts, ClipAllowed, ClipKnown
<1> QED BY <1>5, <1>6 DEF ClipInv

(* The users, the guest and the requests, who leave the engine's step alone. *)
LEMMA ClipUsers ==
    ASSUME ClipInv, Clip!HostCopy \/ Clip!GuestCopy \/ Clip!GuestDown \/ Clip!GuestUp
    PROVE  ClipInv'
<1>1. \A f \in Offers : copies < MaxCopies => Clip!UserCopies(f) \in ClipCopies
                        /\ [Clip!UserCopies(f) EXCEPT !.by = "guest"] \in ClipCopies
                        /\ [Clip!UserCopies(f) EXCEPT !.by = "guest"].by = "guest"
  BY ClipAssumption DEF Clip!UserCopies, ClipCopies, ClipInv, ClipTypes
<1>2. CASE Clip!HostCopy
  <2>1. host' \in ClipSides /\ host'.cc = host.cc + 1
    <3>1. PICK f \in Offers : host' = [item |-> Clip!UserCopies(f), cc |-> host.cc + 1]
      BY <1>2 DEF Clip!HostCopy
    <3>2. Clip!UserCopies(f) \in ClipItems
      BY <1>1, <1>2 DEF Clip!HostCopy, ClipItems
    <3>3. host.cc + 1 \in Nat
      BY DEF ClipInv, ClipTypes, ClipSides
    <3> QED BY <3>1, <3>2, <3>3 DEF ClipSides
  <2>2. ClipTypes'
    BY <2>1, <1>2, ClipAssumption DEF Clip!HostCopy, ClipInv, ClipTypes
  <2>3. host.cc \in Nat /\ eng.cc \in Nat /\ eng.lastHostCC \in Nat
    BY DEF ClipInv, ClipTypes, ClipSides, ClipEngines
  <2>4. ClipCounts'
    BY <2>1, <2>3, <1>2 DEF Clip!HostCopy, ClipInv, ClipCounts
  <2>5. ClipAllowed' /\ ClipKnown'
    BY <1>2 DEF Clip!HostCopy, ClipInv, ClipAllowed, ClipKnown, ClipKept
  <2> QED BY <2>2, <2>4, <2>5 DEF ClipInv
<1>3. CASE Clip!GuestCopy
  <2>1. guest' \in ClipSides /\ guest'.cc = guest.cc + 1 /\ guest'.item.by = "guest"
    <3>1. PICK f \in Offers : guest' = [item |-> [Clip!UserCopies(f) EXCEPT !.by = "guest"], cc |-> guest.cc + 1]
      BY <1>3 DEF Clip!GuestCopy
    <3>2. /\ [Clip!UserCopies(f) EXCEPT !.by = "guest"] \in ClipItems /\ guest.cc + 1 \in Nat
          /\ [Clip!UserCopies(f) EXCEPT !.by = "guest"].by = "guest"
      BY <1>1, <1>3 DEF Clip!GuestCopy, ClipItems, ClipInv, ClipTypes, ClipSides
    <3> QED BY <3>1, <3>2 DEF ClipSides
  <2>2. ClipTypes'
    BY <2>1, <1>3, ClipAssumption DEF Clip!GuestCopy, ClipInv, ClipTypes
  <2>3. guest.cc \in Nat /\ eng.cc \in Nat /\ eng.lastGuestCC \in Nat
    BY DEF ClipInv, ClipTypes, ClipSides, ClipEngines
  <2>4. ClipCounts'
    BY <2>1, <2>3, <1>3 DEF Clip!GuestCopy, ClipInv, ClipCounts
  <2>5. ClipAllowed' /\ ClipKnown'
    BY <2>1, <1>3 DEF Clip!GuestCopy, ClipInv, ClipAllowed, ClipKnown, ClipKept
  <2> QED BY <2>2, <2>4, <2>5 DEF ClipInv
<1>4. CASE Clip!GuestDown \/ Clip!GuestUp
  BY <1>4 DEF Clip!GuestDown, Clip!GuestUp, ClipInv, ClipTypes, ClipCounts, ClipAllowed, ClipKnown, ClipKept
<1> QED BY <1>2, <1>3, <1>4

LEMMA ClipRequestsKeep ==
    ASSUME ClipInv, NEW r \in Requests, Clip!ControlRead(r) \/ Clip!ControlSet(r)
    PROVE  ClipInv'
<1>1. /\ eng \in ClipEngines /\ ctl \in [Requests -> ClipRequests]
      /\ Clip!EnginePolicy \in Clip!EngPolicies
  BY DEF ClipInv, ClipTypes, ClipEngines, Clip!EnginePolicy
<1>2. CASE Clip!ControlRead(r)
  <2>1. PICK p \in Policies : ctl' = [ctl EXCEPT ![r] = [pc |-> "set", seen |-> Clip!EnginePolicy, want |-> p]]
    BY <1>2 DEF Clip!ControlRead
  <2>2. [pc |-> "set", seen |-> Clip!EnginePolicy, want |-> p] \in ClipRequests
    BY <1>1 DEF ClipRequests
  <2>3. ctl' \in [Requests -> ClipRequests]
    BY <1>1, <2>1, <2>2
  <2> QED BY <2>3, <1>2 DEF Clip!ControlRead, ClipInv, ClipTypes, ClipCounts, ClipAllowed, ClipKnown, ClipKept
<1>3. CASE Clip!ControlSet(r)
  <2> DEFINE p == Clip!ApplyOverride(ctl[r].seen, ctl[r].want)
  <2>1. p \in Clip!EngPolicies
    <3>1. ctl[r].seen \in Clip!EngPolicies /\ ctl[r].want \in Clip!EngPolicies \cup Policies
      BY <1>1 DEF ClipRequests
    <3>2. (IF ctl[r].want.dir = "same" THEN ctl[r].seen.dir ELSE ctl[r].want.dir)
              \in {"none", "disabled", "bidirectional", "hostToGuest", "guestToHost"}
      BY <3>1, ClipAssumption DEF Clip!EngPolicies
    <3>3. (IF ctl[r].want.formats = {"same"} THEN ctl[r].seen.formats ELSE ctl[r].want.formats) \in SUBSET DOMAIN Clip!Richness
      BY <3>1, ClipAssumption DEF Clip!EngPolicies
    <3> QED BY <3>2, <3>3 DEF Clip!ApplyOverride, Clip!EngPolicies
  <2>2. Clip!NoPolicy \in Clip!EngPolicies
    BY DEF Clip!NoPolicy, Clip!EngPolicies
  <2>3. ctl' \in [Requests -> ClipRequests]
    <3>1. Clip!NoCtl \in ClipRequests
      BY <2>2 DEF Clip!NoCtl, ClipRequests
    <3> QED BY <1>1, <1>3, <3>1 DEF Clip!ControlSet
  <2>4. eng' = [eng EXCEPT !.pending = p]
    BY <1>3 DEF Clip!ControlSet, Clip!SetPolicy
  <2> HIDE DEF p
  <2>5. /\ eng' \in ClipEngines /\ eng'.pc = eng.pc /\ eng'.policy = eng.policy /\ eng'.held = eng.held /\ eng'.cc = eng.cc
        /\ eng'.lastHostCC = eng.lastHostCC /\ eng'.lastGuestCC = eng.lastGuestCC /\ eng'.lastGuestHash = eng.lastGuestHash
    BY <1>1, <2>1, <2>4 DEF ClipEngines
  <2> QED BY <2>3, <2>5, <1>3 DEF Clip!ControlSet, ClipInv, ClipTypes, ClipCounts, ClipAllowed, ClipKnown, ClipKept
<1> QED BY <1>2, <1>3

(* The steps of a cycle that carry nothing over. *)
LEMMA ClipCycles ==
    ASSUME ClipInv, Clip!TakePending \/ Clip!applyPendingPolicy \/ Clip!SyncConnect \/ Clip!HostCount \/ Clip!StatGuest
    PROVE  ClipInv'
<1>1. /\ eng \in ClipEngines /\ Clip!NoPolicy \in Clip!EngPolicies /\ host.cc \in Nat /\ guest.cc \in Nat
  BY DEF ClipInv, ClipTypes, ClipSides, Clip!NoPolicy, Clip!EngPolicies
<1> DEFINE Same == /\ eng'.held = eng.held /\ eng'.lastHostCC = eng.lastHostCC /\ eng'.lastGuestCC = eng.lastGuestCC
                   /\ eng'.lastGuestHash = eng.lastGuestHash
<1>2. CASE Clip!TakePending
  <2>1. eng' \in ClipEngines /\ eng'.pc \in {"connect", "policy"} /\ Same
    BY <1>1, <1>2 DEF Clip!TakePending, ClipEngines, ClipSteps_
  <2> QED BY <2>1, <1>2 DEF Clip!TakePending, ClipInv, ClipTypes, ClipCounts, ClipAllowed, ClipKnown, ClipKept
<1>3. CASE Clip!applyPendingPolicy
  <2>1. eng' \in ClipEngines /\ eng'.pc = "connect" /\ Same
    BY <1>1, <1>3 DEF Clip!applyPendingPolicy, ClipEngines, ClipSteps_
  <2> QED BY <2>1, <1>3 DEF Clip!applyPendingPolicy, ClipInv, ClipTypes, ClipCounts, ClipAllowed, ClipKnown, ClipKept
<1>4. CASE Clip!SyncConnect
  <2>1. /\ eng' \in ClipEngines /\ eng'.pc \in {"wait", "count", "stat"} /\ Same
        /\ eng'.pc = "count" => Clip!AllowHostToGuest(eng'.policy)
    BY <1>1, <1>4 DEF Clip!SyncConnect, ClipEngines, ClipSteps_
  <2> QED BY <2>1, <1>4 DEF Clip!SyncConnect, ClipInv, ClipTypes, ClipCounts, ClipAllowed, ClipKnown, ClipKept
<1>5. CASE Clip!HostCount
  <2>1. /\ eng' \in ClipEngines /\ eng'.pc \in {"wait", "stat", "capture"} /\ Same /\ eng'.policy = eng.policy
        /\ eng'.pc = "capture" => eng'.cc = host.cc
    BY <1>1, <1>5 DEF Clip!HostCount, ClipEngines, ClipSteps_, Clip!ToGuestSide
  <2> QED BY <2>1, <1>1, <1>5 DEF Clip!HostCount, ClipInv, ClipTypes, ClipCounts, ClipAllowed, ClipKnown, ClipKept
<1>6. CASE Clip!StatGuest
  <2>0. up \in BOOLEAN
    BY DEF ClipInv, ClipTypes
  <2>1. /\ eng' \in ClipEngines /\ eng'.pc \in {"wait", "get"} /\ Same
        /\ eng'.pc = "get" => eng'.cc = guest.cc /\ Clip!AllowGuestToHost(eng'.policy)
    BY <2>0, <1>1, <1>6 DEF Clip!StatGuest, ClipEngines, ClipSteps_
  <2> QED BY <2>1, <1>1, <1>6 DEF Clip!StatGuest, ClipInv, ClipTypes, ClipCounts, ClipAllowed, ClipKnown, ClipKept
<1> QED BY <1>2, <1>3, <1>4, <1>5, <1>6

LEMMA ClipCaptureHost == ClipInv /\ Clip!CaptureHost => ClipInv'
<1> SUFFICES ASSUME ClipInv, Clip!CaptureHost PROVE ClipInv'
  OBVIOUS
<1> DEFINE p == Clip!Captured(host.item, eng.policy.formats)
<1>1. /\ eng \in ClipEngines /\ host.item \in ClipItems /\ host.cc \in Nat /\ guest.cc \in Nat
      /\ eng.pc = "capture"
  BY DEF ClipInv, ClipTypes, ClipSides, Clip!CaptureHost
<1>2. p \in ClipItems
  BY <1>1, ClipCaptured DEF ClipItems
<1>3. p # Clip!NoItem => p \in ClipCopies /\ p.f # {} /\ p.f \subseteq eng.policy.formats
  BY <1>1, ClipCaptured
<1>4. CASE p = Clip!NoItem \/ p = eng.lastHostHash \/ p = eng.lastGuestHash
  <2>1. eng' = [eng EXCEPT !.lastHostCC = eng.cc, !.pc = Clip!ToGuestSide]
    BY <1>4 DEF Clip!CaptureHost
  <2>2. /\ eng' \in ClipEngines /\ eng'.pc \in {"wait", "stat"} /\ eng'.lastHostCC = eng.cc
        /\ eng'.lastGuestCC = eng.lastGuestCC /\ eng'.lastGuestHash = eng.lastGuestHash
    BY <1>1, <2>1 DEF ClipEngines, ClipSteps_, Clip!ToGuestSide
  <2> QED BY <2>2, <1>1 DEF Clip!CaptureHost, ClipInv, ClipTypes, ClipCounts, ClipAllowed, ClipKnown, ClipKept
<1>5. CASE ~(p = Clip!NoItem \/ p = eng.lastHostHash \/ p = eng.lastGuestHash)
  <2>1. eng' = [eng EXCEPT !.held = p, !.pc = "push"]
    BY <1>5 DEF Clip!CaptureHost
  <2> HIDE DEF p
  <2>2. /\ eng' \in ClipEngines /\ eng'.pc = "push" /\ eng'.held = p /\ eng'.policy = eng.policy /\ eng'.cc = eng.cc
        /\ eng'.lastHostCC = eng.lastHostCC /\ eng'.lastGuestCC = eng.lastGuestCC /\ eng'.lastGuestHash = eng.lastGuestHash
    BY <1>1, <1>2, <2>1 DEF ClipEngines, ClipSteps_
  <2> QED BY <2>2, <1>1, <1>3, <1>5 DEF Clip!CaptureHost, ClipInv, ClipTypes, ClipCounts, ClipAllowed, ClipKnown, ClipKept
<1> QED BY <1>4, <1>5

LEMMA ClipSetGuest == ClipInv /\ Clip!SetGuest => ClipInv'
<1> SUFFICES ASSUME ClipInv, Clip!SetGuest PROVE ClipInv'
  OBVIOUS
<1>1. /\ eng \in ClipEngines /\ guest \in ClipSides /\ host.cc \in Nat /\ guest.cc \in Nat
      /\ eng.pc = "push" /\ eng.cc <= host.cc
      /\ eng.held \in ClipCopies /\ eng.held.f # {} /\ Clip!NoItem \in ClipItems /\ eng.held \in ClipItems
  BY ClipNone DEF ClipInv, ClipTypes, ClipSides, ClipCounts, ClipAllowed, Clip!SetGuest, ClipItems
<1>2. CASE Clip!Pushed
  <2>1. eng' = [eng EXCEPT !.lastHostCC = eng.cc, !.lastHostHash = eng.held, !.lastGuestHash = eng.held,
                          !.held = Clip!NoItem, !.pc = "wait"]
    BY <1>2 DEF Clip!Pushed
  <2>2. /\ eng' \in ClipEngines /\ eng'.pc = "wait" /\ eng'.lastHostCC = eng.cc
        /\ eng'.lastGuestCC = eng.lastGuestCC /\ eng'.lastGuestHash = eng.held
    BY <1>1, <2>1 DEF ClipEngines, ClipSteps_
  <2>3. guest' \in ClipSides /\ guest'.cc = guest.cc + 1 /\ guest'.item = Clip!Written(eng.held)
    BY <1>1, <1>2, ClipWritten DEF Clip!Pushed, ClipSides, ClipItems
  <2>4. reached' \subseteq 1..MaxCopies
    BY <1>1, <1>2 DEF Clip!Pushed, ClipCopies, ClipInv, ClipTypes
  <2>5. eng.lastGuestCC \in Nat /\ eng.lastGuestCC <= guest.cc
    BY <1>1 DEF ClipEngines, ClipInv, ClipCounts
  <2>6. ClipTypes'
    BY <2>2, <2>3, <2>4 DEF Clip!SetGuest, ClipInv, ClipTypes
  <2>7. ClipCounts'
    BY <2>2, <2>3, <2>5, <1>1 DEF Clip!SetGuest, ClipCounts
  <2>8. ClipAllowed' /\ ClipKnown'
    BY <2>2, <2>3, <1>1 DEF ClipAllowed, ClipKnown, ClipKept
  <2> QED BY <2>6, <2>7, <2>8 DEF ClipInv
<1>3. CASE Clip!NotPushed \/ Clip!dropClient
  <2>1. /\ eng' \in ClipEngines /\ eng'.pc \in {"wait", "stat"} /\ eng'.lastHostCC = eng.lastHostCC
        /\ eng'.lastGuestCC = eng.lastGuestCC /\ eng'.lastGuestHash = eng.lastGuestHash
    <3>1. CASE Clip!NotPushed
      BY <1>1, <3>1 DEF Clip!NotPushed, ClipEngines, ClipSteps_, Clip!ToGuestSide
    <3>2. CASE Clip!dropClient
      BY <1>1, <3>2 DEF Clip!dropClient, ClipEngines, ClipSteps_
    <3> QED BY <3>1, <3>2, <1>3
  <2>2. UNCHANGED <<host, guest, up, ctl, copies, reached>>
    BY <1>3 DEF Clip!SetGuest, Clip!NotPushed, Clip!dropClient
  <2> QED BY <2>1, <2>2 DEF ClipInv, ClipTypes, ClipCounts, ClipAllowed, ClipKnown, ClipKept
<1> QED BY <1>2, <1>3 DEF Clip!SetGuest

LEMMA ClipGetGuest == ClipInv /\ Clip!GetGuest => ClipInv'
<1> SUFFICES ASSUME ClipInv, Clip!GetGuest PROVE ClipInv'
  OBVIOUS
<1> DEFINE p == Clip!Captured(guest.item, eng.policy.formats)
<1>1. /\ eng \in ClipEngines /\ guest.item \in ClipItems /\ host.cc \in Nat /\ guest.cc \in Nat
      /\ eng.pc = "get"
  BY DEF ClipInv, ClipTypes, ClipSides, Clip!GetGuest
<1>2. p \in ClipItems
  BY <1>1, ClipCaptured DEF ClipItems
<1>3. p # Clip!NoItem => p \in ClipCopies /\ p.f # {} /\ p.f \subseteq eng.policy.formats /\ guest.item \in ClipCopies
                   /\ p.by = guest.item.by
  BY <1>1, ClipCaptured
<1>4. CASE ~(up /\ Clip!Fresh(p))
  <2>1. eng' = [eng EXCEPT !.pc = "wait", !.client = FALSE] \/ eng' = [eng EXCEPT !.lastGuestCC = eng.cc, !.pc = "wait"]
    BY <1>4 DEF Clip!GetGuest, Clip!GuestRead
  <2>2. /\ eng' \in ClipEngines /\ eng'.pc = "wait" /\ eng'.lastGuestCC \in {eng.lastGuestCC, eng.cc}
        /\ eng'.lastHostCC = eng.lastHostCC /\ eng'.lastGuestHash = eng.lastGuestHash
    BY <1>1, <2>1 DEF ClipEngines, ClipSteps_
  <2> QED BY <2>2, <1>1 DEF Clip!GetGuest, ClipInv, ClipTypes, ClipCounts, ClipAllowed, ClipKnown, ClipKept
<1>5. CASE up /\ Clip!Fresh(p)
  <2>1. eng' = [eng EXCEPT !.held = p, !.pc = "apply"] /\ p # Clip!NoItem /\ p # eng.lastGuestHash
    BY <1>5 DEF Clip!GetGuest, Clip!GuestRead, Clip!Fresh
  <2>2. guest.item.by = "guest" \/ guest.item.by = "host"
    BY <2>1, <1>3 DEF ClipCopies
  <2>3. guest.item.by = "host" => ClipKept(p)
    <3> SUFFICES ASSUME guest.item.by = "host" PROVE ClipKept(p)
      OBVIOUS
    <3>1. ClipKept(guest.item)
      BY DEF ClipInv, ClipKnown
    <3>2. \A x, y \in guest.item.f : x = y
      BY <3>1, ClipWritten DEF ClipKept
    <3>3. p = guest.item
      BY <3>2, <2>1, <1>3, ClipReadBack
    <3> QED BY <3>1, <3>3
  <2> HIDE DEF p
  <2>4. /\ eng' \in ClipEngines /\ eng'.pc = "apply" /\ eng'.held = p /\ eng'.policy = eng.policy /\ eng'.cc = eng.cc
        /\ eng'.lastHostCC = eng.lastHostCC /\ eng'.lastGuestCC = eng.lastGuestCC /\ eng'.lastGuestHash = eng.lastGuestHash
    BY <1>1, <1>2, <2>1 DEF ClipEngines, ClipSteps_
  <2>5. ClipKnown'
    <3>1. guest' = guest
      BY DEF Clip!GetGuest
    <3>2. ClipKept(guest.item) => ClipKept(guest.item)'
      BY <2>4, <3>1 DEF ClipKept
    <3>3. ClipKept(p) => eng'.held = Clip!Written(eng'.lastGuestHash) /\ eng'.lastGuestHash \in ClipCopies /\ eng'.lastGuestHash.f # {}
      BY <2>4 DEF ClipKept
    <3>4. eng'.held # eng'.lastGuestHash
      BY <2>4, <2>1
    <3>5. guest.item.by = "guest" => eng'.held.by = "guest"
      BY <2>4, <2>1, <1>3
    <3> QED BY <3>1, <3>2, <3>3, <3>4, <3>5, <2>2, <2>3 DEF ClipInv, ClipKnown, ClipKept
  <2> QED BY <2>4, <2>5, <2>1, <1>1, <1>3 DEF Clip!GetGuest, ClipInv, ClipTypes, ClipCounts, ClipAllowed
<1> QED BY <1>4, <1>5

LEMMA ClipApplied == ClipInv /\ (Clip!ApplyHost \/ Clip!Applied) => ClipInv'
<1> SUFFICES ASSUME ClipInv, Clip!ApplyHost \/ Clip!Applied PROVE ClipInv'
  OBVIOUS
<1>1. /\ eng \in ClipEngines /\ host \in ClipSides /\ host.cc \in Nat /\ guest.cc \in Nat
      /\ eng.pc \in {"apply", "applied"} /\ eng.cc <= guest.cc
      /\ eng.held \in ClipCopies /\ eng.held.f # {} /\ Clip!NoItem \in ClipItems /\ eng.held \in ClipItems
      /\ eng.lastHostCC \in Nat /\ eng.lastHostCC <= host.cc
  BY ClipNone DEF ClipInv, ClipTypes, ClipSides, ClipCounts, ClipAllowed, Clip!ApplyHost, Clip!Applied, ClipItems, ClipEngines
<1>2. CASE Clip!ApplyHost
  <2>1. /\ eng' \in ClipEngines /\ eng'.pc = "applied" /\ eng'.held = eng.held /\ eng'.policy = eng.policy /\ eng'.cc = eng.cc
        /\ eng'.lastHostCC = eng.lastHostCC /\ eng'.lastGuestCC = eng.lastGuestCC /\ eng'.lastGuestHash = eng.lastGuestHash
    BY <1>1, <1>2 DEF Clip!ApplyHost, ClipEngines, ClipSteps_
  <2>2. host' \in ClipSides /\ host'.cc = host.cc + 1
    BY <1>1, <1>2 DEF Clip!ApplyHost, ClipSides
  <2>3. reached' \subseteq 1..MaxCopies
    BY <1>1, <1>2 DEF Clip!ApplyHost, ClipCopies, ClipInv, ClipTypes
  <2>4. ClipTypes'
    BY <2>1, <2>2, <2>3, <1>2 DEF Clip!ApplyHost, ClipInv, ClipTypes
  <2>5. ClipCounts'
    BY <2>1, <2>2, <1>1, <1>2 DEF Clip!ApplyHost, ClipInv, ClipCounts
  <2>6. ClipAllowed' /\ ClipKnown'
    BY <2>1, <1>1, <1>2 DEF Clip!ApplyHost, ClipInv, ClipAllowed, ClipKnown, ClipKept
  <2> QED BY <2>4, <2>5, <2>6 DEF ClipInv
<1>3. CASE Clip!Applied
  <2>1. eng' = [eng EXCEPT !.lastHostCC = host.cc, !.lastHostHash = eng.held, !.lastGuestHash = eng.held,
                          !.lastGuestCC = eng.cc, !.held = Clip!NoItem, !.pc = "wait"]
    BY <1>3 DEF Clip!Applied
  <2>2. /\ eng' \in ClipEngines /\ eng'.pc = "wait" /\ eng'.lastHostCC = host.cc
        /\ eng'.lastGuestCC = eng.cc /\ eng'.lastGuestHash = eng.held
    BY <1>1, <2>1 DEF ClipEngines, ClipSteps_
  <2>3. guest.item.by = "host" => Clip!Written(eng.held) = eng.held /\ guest.item = eng.held
    <3> SUFFICES ASSUME guest.item.by = "host" PROVE Clip!Written(eng.held) = eng.held /\ guest.item = eng.held
      OBVIOUS
    <3>1. ClipKept(eng.held) /\ ClipKept(guest.item)
      BY <1>1 DEF ClipInv, ClipKnown
    <3>2. eng.held = guest.item /\ \A x, y \in eng.held.f : x = y
      BY <3>1, ClipWritten DEF ClipKept
    <3> QED BY <3>2, <1>1, ClipOneWritten
  <2>4. UNCHANGED <<host, guest, up, ctl, copies, reached>>
    BY <1>3 DEF Clip!Applied
  <2>5. ClipTypes' /\ ClipCounts'
    BY <2>2, <2>4, <1>1 DEF ClipInv, ClipTypes, ClipCounts
  <2>6. ClipAllowed' /\ ClipKnown'
    BY <2>2, <2>3, <2>4, <1>1 DEF ClipAllowed, ClipKnown, ClipKept
  <2> QED BY <2>5, <2>6 DEF ClipInv
<1> QED BY <1>2, <1>3

LEMMA ClipNextInv == ClipInv /\ Clip!Next => ClipInv'
  BY ClipUsers, ClipRequestsKeep, ClipCycles, ClipCaptureHost, ClipSetGuest, ClipGetGuest, ClipApplied DEF Clip!Next, Clip!Sync

LEMMA ClipStutterInv == ClipInv /\ UNCHANGED Clip!cvars => ClipInv'
  BY DEF Clip!cvars, ClipInv, ClipTypes, ClipCounts, ClipAllowed, ClipKnown, ClipKept

LEMMA ClipTyped == ClipInv => Clip!TypeOK
<1> SUFFICES ASSUME ClipInv PROVE Clip!TypeOK
  OBVIOUS
<1>1. ClipItems \subseteq Clip!Items
  BY ClipNone, ClipAssumption DEF ClipItems, ClipCopies, Clip!Items
<1>2. {host.item, guest.item, eng.held, eng.lastHostHash, eng.lastGuestHash} \subseteq Clip!Items
  BY <1>1 DEF ClipInv, ClipTypes, ClipSides, ClipEngines
<1>3. {host.cc, guest.cc} \subseteq Nat /\ up \in BOOLEAN /\ reached \subseteq 1..MaxCopies
      /\ eng.lastHostCC <= host.cc /\ eng.lastGuestCC <= guest.cc
  BY DEF ClipInv, ClipTypes, ClipSides, ClipCounts
<1>4. /\ eng.pc \in {"wait", "policy", "connect", "count", "capture", "push", "stat", "get", "apply", "applied"}
      /\ eng.policy \in Clip!EngPolicies /\ {eng.pending, eng.taken} \subseteq Clip!EngPolicies /\ eng.client \in BOOLEAN
  BY DEF ClipInv, ClipTypes, ClipEngines, ClipSteps_
<1>5. \A r \in Requests : ctl[r].seen \in Clip!EngPolicies
  BY DEF ClipInv, ClipTypes, ClipRequests
<1> QED BY <1>2, <1>3, <1>4, <1>5 DEF Clip!TypeOK

-----------------------------------------------------------------------------
(* What a cycle puts on either side. *)
LEMMA ClipCarries ==
    ASSUME ClipInv, Clip!Next
    PROVE  /\ guest' # guest /\ eng'.pc # eng.pc
                 => Clip!AllowHostToGuest(eng.policy) /\ guest'.item.f \subseteq eng.policy.formats
           /\ host' # host /\ eng'.pc # eng.pc
                 => /\ Clip!AllowGuestToHost(eng.policy) /\ host'.item.f \subseteq eng.policy.formats
                    /\ \/ host'.item.by = "guest"
                       \/ host'.item = Clip!Written(eng.lastGuestHash) /\ host'.item # eng.lastGuestHash
<1>0. eng \in ClipEngines
  BY DEF ClipInv, ClipTypes
<1>1. CASE Clip!SetGuest
  <2>1. eng.held \in ClipCopies /\ eng.held.f # {} /\ eng.held.f \subseteq eng.policy.formats /\ Clip!AllowHostToGuest(eng.policy)
    BY <1>1 DEF Clip!SetGuest, ClipInv, ClipAllowed
  <2>2. guest' # guest => guest'.item = Clip!Written(eng.held)
    BY <1>1 DEF Clip!SetGuest, Clip!Pushed, Clip!NotPushed, Clip!dropClient
  <2>3. host' = host
    BY <1>1 DEF Clip!SetGuest
  <2> QED BY <2>1, <2>2, <2>3, ClipWritten
<1>2. CASE Clip!ApplyHost
  <2>1. host'.item = eng.held /\ guest' = guest /\ eng.pc = "apply"
    BY <1>2 DEF Clip!ApplyHost
  <2> QED BY <2>1 DEF ClipInv, ClipAllowed, ClipKnown, ClipKept
<1>3. CASE Clip!HostCopy \/ Clip!GuestCopy
  BY <1>3 DEF Clip!HostCopy, Clip!GuestCopy
<1>4. CASE \E r \in Requests : Clip!ControlRead(r) \/ Clip!ControlSet(r)
  BY <1>4 DEF Clip!ControlRead, Clip!ControlSet
<1>5. CASE Clip!GuestDown \/ Clip!GuestUp \/ Clip!TakePending \/ Clip!applyPendingPolicy \/ Clip!SyncConnect \/ Clip!HostCount \/ Clip!CaptureHost \/ Clip!StatGuest \/ Clip!GetGuest \/ Clip!Applied
  BY <1>5 DEF Clip!GuestDown, Clip!GuestUp, Clip!TakePending, Clip!applyPendingPolicy, Clip!SyncConnect, Clip!HostCount, Clip!CaptureHost, Clip!StatGuest, Clip!GetGuest, Clip!Applied
<1> QED BY <1>1, <1>2, <1>3, <1>4, <1>5 DEF Clip!Next, Clip!Sync
-----------------------------------------------------------------------------
FWStates == {"array", "status", "program", "bufcount", "bufdata", "erasesetup"}
FWArrays == [FW!Addr -> SUBSET Bits]

FWTypes ==
    /\ flash \in [data : FWArrays, state : FWStates, left : 0 .. 2]
    /\ flashdrv = [todo |-> flashdrv.todo, ops |-> flashdrv.ops, want |-> flashdrv.want]
    /\ flashdrv.want \in FWArrays
    /\ fwcfg \in [selector : DOMAIN ReadOnlyItems \cup {RamfbKey, 0}, offset : Nat, ramfb : Nat \X Nat]
    /\ dma = [count |-> dma.count, key |-> dma.key, from |-> dma.from, got |-> dma.got]
    /\ dma.from \in Nat /\ Len(dma.got) \in Nat
    /\ ramfb \in [owner : {"none", "guest", "render"}, addr : Nat, geometry : Nat]
    /\ frame \in [pc : {"idle", "copy", "draw"}, addr : Nat, geometry : Nat, drawn : Nat \X Nat]
    /\ uart \in [typed : Nat, pumped : Nat, queue : Seq(Nat), read : Seq(Nat)]

Calm == flash.state \in {"array", "status"}
Clears(d, a, p) == [d EXCEPT ![a] = @ \cap p]
ErasedOf(d, a) == [w \in FW!Addr |-> IF w \in FW!BlockOf(a) THEN Bits ELSE d[w]]

(* How far the driver is in a word, in a buffer and in a block. *)
InWord(a, p) ==
    \/ /\ flashdrv.todo = << <<a, FW!Command("word")>>, <<a, FW!Write("data", p, 0)>> >>
       /\ Calm /\ flashdrv.want = Clears(flash.data, a, p)
    \/ /\ flashdrv.todo = << <<a, FW!Write("data", p, 0)>> >>
       /\ flash.state = "program" /\ flashdrv.want = Clears(flash.data, a, p)

InBuffer(a, p, q) ==
    /\ a + 1 \in FW!Addr
    /\ \/ /\ flashdrv.todo = << <<a, FW!Command("buffer")>>, <<a, FW!Write("data", Bits, 1)>>,
                                <<a, FW!Write("data", p, 0)>>, <<a + 1, FW!Write("data", q, 0)>>,
                                <<a, FW!Command("confirm")>> >>
          /\ Calm /\ flashdrv.want = Clears(Clears(flash.data, a, p), a + 1, q)
       \/ /\ flashdrv.todo = << <<a, FW!Write("data", Bits, 1)>>, <<a, FW!Write("data", p, 0)>>,
                                <<a + 1, FW!Write("data", q, 0)>>, <<a, FW!Command("confirm")>> >>
          /\ flash.state = "bufcount"
          /\ flashdrv.want = Clears(Clears(flash.data, a, p), a + 1, q)
       \/ /\ flashdrv.todo = << <<a, FW!Write("data", p, 0)>>, <<a + 1, FW!Write("data", q, 0)>>,
                                <<a, FW!Command("confirm")>> >>
          /\ flash.state = "bufdata" /\ flash.left = 2
          /\ flashdrv.want = Clears(Clears(flash.data, a, p), a + 1, q)
       \/ /\ flashdrv.todo = << <<a + 1, FW!Write("data", q, 0)>>, <<a, FW!Command("confirm")>> >>
          /\ flash.state = "bufdata" /\ flash.left = 1
          /\ flashdrv.want = Clears(flash.data, a + 1, q)
       \/ /\ flashdrv.todo = << <<a, FW!Command("confirm")>> >>
          /\ flash.state = "status" /\ flashdrv.want = flash.data

InBlock(a) ==
    \/ /\ flashdrv.todo = << <<a, FW!Command("erase")>>, <<a, FW!Command("confirm")>> >>
       /\ Calm /\ flashdrv.want = ErasedOf(flash.data, a)
    \/ /\ flashdrv.todo = << <<a, FW!Command("confirm")>> >>
       /\ flash.state = "erasesetup" /\ flashdrv.want = ErasedOf(flash.data, a)

FWFlash ==
    /\ flash.state = "bufdata" => flash.left > 0
    /\ \/ flashdrv.todo = <<>> /\ Calm /\ flashdrv.want = flash.data
       \/ \E a \in FW!Addr, p, q \in Patterns : InWord(a, p) \/ InBuffer(a, p, q) \/ InBlock(a)

FWConfig ==
    /\ fwcfg.selector = dma.key /\ fwcfg.offset = dma.from + Len(dma.got)
    /\ FW!ItemBytes

FWDisplay ==
    /\ IF ramfb.owner = "guest" THEN fwcfg.ramfb[2] = ramfb.addr ELSE ramfb.geometry = ramfb.addr
    /\ (frame.pc = "copy") = (ramfb.owner = "render")
    /\ frame.pc = "copy" => frame.addr = ramfb.addr
    /\ frame.pc = "draw" => frame.geometry = frame.addr
    /\ FW!OneConfiguration

FWSerial ==
    /\ FW!KeysInOrder
    /\ \A j \in DOMAIN uart.queue : uart.queue[j] = Len(uart.read) + j
    /\ Len(uart.read) + Len(uart.queue) = uart.pumped
    /\ Len(uart.queue) <= InputCap

FWInv == FWTypes /\ FWFlash /\ FWConfig /\ FWDisplay /\ FWSerial

-----------------------------------------------------------------------------
(* What the driver writes, one after the other. *)
LEMMA FWTails ==
    ASSUME NEW x1, NEW x2, NEW x3, NEW x4, NEW x5
    PROVE /\ <<x1>>[1] = x1 /\ Tail(<<x1>>) = <<>>
          /\ <<x1, x2>>[1] = x1 /\ Tail(<<x1, x2>>) = <<x2>>
          /\ <<x1, x2, x3>>[1] = x1 /\ Tail(<<x1, x2, x3>>) = <<x2, x3>>
          /\ <<x1, x2, x3, x4>>[1] = x1 /\ Tail(<<x1, x2, x3, x4>>) = <<x2, x3, x4>>
          /\ <<x1, x2, x3, x4, x5>>[1] = x1 /\ Tail(<<x1, x2, x3, x4, x5>>) = <<x2, x3, x4, x5>>
  OBVIOUS

(* What a transfer returns is as long as it asked for. *)
LEMMA FWGot ==
    ASSUME NEW n \in Nat, NEW d, NEW o
    PROVE Len([i \in 1 .. n |-> FW!ByteAt(d, o + i - 1)]) = n
<1> DEFINE S == {FW!ByteAt(d, o + i - 1) : i \in 1 .. n}
<1> DEFINE f == [i \in 1 .. n |-> FW!ByteAt(d, o + i - 1)]
<1>1. f \in [1 .. n -> S]
  OBVIOUS
<1>2. DOMAIN f = 1 .. n
  OBVIOUS
<1> HIDE DEF S, f
<1>3. f \in Seq(S)
  BY <1>1
<1>4. DOMAIN f = 1 .. Len(f) /\ Len(f) \in Nat
  BY <1>3
<1>5. Len(f) = n
  BY <1>2, <1>4
<1> QED
  BY <1>5 DEF f

LEMMA FWClears ==
    ASSUME NEW d \in FWArrays, NEW a \in FW!Addr, NEW p
    PROVE Clears(d, a, p) \in FWArrays
  BY DEF Clears, FWArrays

LEMMA FWErases ==
    ASSUME NEW d \in FWArrays, NEW a
    PROVE ErasedOf(d, a) \in FWArrays
  BY DEF ErasedOf, FWArrays

LEMMA FWInitInv == FW!Init => FWInv
<1> SUFFICES ASSUME FW!Init PROVE FWInv
  OBVIOUS
<1>1. [a \in FW!Addr |-> Bits] \in FWArrays
  BY DEF FWArrays
<1>2. <<>> \in Seq(Nat) /\ Len(<<>>) = 0
  OBVIOUS
<1>3. FWTypes
  BY <1>1, <1>2 DEF FWTypes, FW!Init, FWStates
<1>4. FWFlash
  BY DEF FWFlash, FW!Init, Calm
<1>5. FWConfig
  BY DEF FWConfig, FW!Init, FW!ItemBytes
<1>6. FWDisplay /\ FWSerial
  BY FWAssumption DEF FWDisplay, FWSerial, FW!Init, FW!OneConfiguration, FW!KeysInOrder
<1> QED
  BY <1>3, <1>4, <1>5, <1>6 DEF FWInv

-----------------------------------------------------------------------------
(* A write, in each state of the protocol. *)
LEMMA FWData ==
    ASSUME FWTypes, NEW a \in FW!Addr, NEW w, flash' = [flash EXCEPT !.data = FW!program(a, w), !.state = "status"]
    PROVE /\ flash' \in [data : FWArrays, state : FWStates, left : 0 .. 2]
          /\ flash'.data = Clears(flash.data, a, w) /\ flash'.state = "status"
<1>1. flash.data \in FWArrays
  BY DEF FWTypes
<1>2. FW!program(a, w) = Clears(flash.data, a, w) /\ FW!program(a, w) \in FWArrays
  BY <1>1, FWClears DEF FW!program, Clears
<1> HIDE DEF FW!program
<1> QED
  BY <1>2 DEF FWTypes, FWStates

LEMMA FWCommand ==
    ASSUME FWTypes, NEW c, flash' = [flash EXCEPT !.state = FW!CommandState(c)]
    PROVE /\ flash' \in [data : FWArrays, state : FWStates, left : 0 .. 2]
          /\ flash'.data = flash.data /\ flash'.state = FW!CommandState(c)
<1>1. FW!CommandState(c) \in FWStates
  BY DEF FW!CommandState, FWStates
<1> QED
  BY <1>1 DEF FWTypes

LEMMA FWBuffered ==
    ASSUME FWTypes, NEW d \in FWArrays, NEW l \in 0 .. 2, NEW s \in FWStates,
           flash' = [flash EXCEPT !.data = d, !.left = l, !.state = s]
    PROVE /\ flash' \in [data : FWArrays, state : FWStates, left : 0 .. 2]
          /\ flash'.data = d /\ flash'.left = l /\ flash'.state = s
<1>1. flash' = [data |-> d, state |-> s, left |-> l]
  BY DEF FWTypes
<1> QED
  BY <1>1

LEMMA FWDriven ==
    ASSUME FWTypes, flashdrv' = [flashdrv EXCEPT !.todo = Tail(@)]
    PROVE /\ flashdrv' = [todo |-> flashdrv'.todo, ops |-> flashdrv'.ops, want |-> flashdrv'.want]
          /\ flashdrv'.todo = Tail(flashdrv.todo) /\ flashdrv'.want = flashdrv.want
  BY DEF FWTypes

LEMMA FWWordStep ==
    ASSUME FWTypes, FW!DriveFlash, NEW a \in FW!Addr, NEW p \in Patterns, InWord(a, p)
    PROVE /\ flash' \in [data : FWArrays, state : FWStates, left : 0 .. 2]
          /\ FWFlash'
<1> DEFINE w == FW!Write("data", p, 0)
           c == FW!Command("word")
<1>d. w.word = p /\ c.command = "word"
  BY DEF FW!Write, FW!Command
<1>t. flashdrv'.todo = Tail(flashdrv.todo) /\ flashdrv'.want = flashdrv.want
  BY FWDriven DEF FW!DriveFlash
<1>1. CASE flashdrv.todo = << <<a, c>>, <<a, w>> >> /\ Calm /\ flashdrv.want = Clears(flash.data, a, p)
  <2>1. flashdrv.todo[1] = <<a, c>> /\ flashdrv'.todo = << <<a, w>> >>
    BY <1>1, <1>t, FWTails
  <2> HIDE DEF w, c
  <2>2. FW!FlashWrite(a, c)
    BY <2>1 DEF FW!DriveFlash
  <2>3. flash' = [flash EXCEPT !.state = FW!CommandState("word")]
    BY <2>2, <1>1, <1>d DEF FW!FlashWrite, Calm
  <2>4. /\ flash' \in [data : FWArrays, state : FWStates, left : 0 .. 2]
        /\ flash'.data = flash.data /\ flash'.state = FW!CommandState("word")
    BY <2>3, FWCommand
  <2>5. flash'.state = "program"
    BY <2>4 DEF FW!CommandState
  <2>6. InWord(a, p)'
    BY <2>1, <2>4, <2>5, <1>t, <1>1 DEF InWord, w
  <2> QED
    BY <2>4, <2>5, <2>6 DEF FWFlash
<1>2. CASE flashdrv.todo = << <<a, w>> >> /\ flash.state = "program" /\ flashdrv.want = Clears(flash.data, a, p)
  <2>1. flashdrv.todo[1] = <<a, w>> /\ flashdrv'.todo = <<>>
    BY <1>2, <1>t, FWTails
  <2> HIDE DEF w, c
  <2>2. FW!FlashWrite(a, w)
    BY <2>1 DEF FW!DriveFlash
  <2>3. flash' = [flash EXCEPT !.data = FW!program(a, p), !.state = "status"]
    BY <2>2, <1>2, <1>d DEF FW!FlashWrite
  <2>4. /\ flash' \in [data : FWArrays, state : FWStates, left : 0 .. 2]
        /\ flash'.data = Clears(flash.data, a, p) /\ flash'.state = "status"
    BY <2>3, FWData
  <2> QED
    BY <2>1, <2>4, <1>t, <1>2 DEF FWFlash, Calm
<1> QED
  BY <1>1, <1>2 DEF InWord

LEMMA FWBufferLeft ==
    ASSUME NEW a, NEW p, NEW q, InBuffer(a, p, q)
    PROVE flashdrv.todo # <<>>
<1>1. \A x1, x2, x3, x4, x5 : /\ <<x1, x2, x3, x4, x5>> # <<>> /\ <<x1, x2, x3, x4>> # <<>>
                              /\ <<x1, x2, x3>> # <<>> /\ <<x1, x2>> # <<>> /\ <<x1>> # <<>>
  BY SMT
<1> QED
  BY Zenon, <1>1 DEF InBuffer

LEMMA FWBufferStep ==
    ASSUME FWTypes, FW!DriveFlash, NEW a \in FW!Addr, NEW p \in Patterns, NEW q \in Patterns,
           InBuffer(a, p, q)
    PROVE /\ flash' \in [data : FWArrays, state : FWStates, left : 0 .. 2]
          /\ FWFlash'
<1> DEFINE b == FW!Command("buffer")
           n == FW!Write("data", Bits, 1)
           v == FW!Write("data", p, 0)
           w == FW!Write("data", q, 0)
           c == FW!Command("confirm")
           k == a + 1
<1>d. /\ b.command = "buffer" /\ n.count = 1 /\ v.word = p /\ w.word = q /\ c.command = "confirm"
      /\ k \in FW!Addr
  BY DEF FW!Write, FW!Command, InBuffer
<1>t. flashdrv'.todo = Tail(flashdrv.todo) /\ flashdrv'.want = flashdrv.want
  BY FWDriven DEF FW!DriveFlash
<1>k. a + 1 \in FW!Addr
  BY DEF InBuffer
<1>1. CASE /\ flashdrv.todo = << <<a, b>>, <<a, n>>, <<a, v>>, <<k, w>>, <<a, c>> >>
           /\ Calm /\ flashdrv.want = Clears(Clears(flash.data, a, p), a + 1, q)
  <2>1. flashdrv.todo[1] = <<a, b>> /\ flashdrv'.todo = << <<a, n>>, <<a, v>>, <<k, w>>, <<a, c>> >>
    BY <1>1, <1>t, FWTails
  <2> HIDE DEF b, n, v, w, c
  <2>2. FW!FlashWrite(a, b)
    BY <2>1 DEF FW!DriveFlash
  <2>3. flash' = [flash EXCEPT !.state = FW!CommandState("buffer")]
    BY <2>2, <1>1, <1>d DEF FW!FlashWrite, Calm
  <2>4. /\ flash' \in [data : FWArrays, state : FWStates, left : 0 .. 2]
        /\ flash'.data = flash.data /\ flash'.state = FW!CommandState("buffer")
    BY <2>3, FWCommand
  <2>5. flash'.state = "bufcount"
    BY <2>4 DEF FW!CommandState
  <2>6. InBuffer(a, p, q)'
    BY <2>1, <2>4, <2>5, <1>t, <1>1, <1>k DEF InBuffer, n, v, w, c
  <2> QED
    BY <2>4, <2>5, <2>6 DEF FWFlash
<1>2. CASE /\ flashdrv.todo = << <<a, n>>, <<a, v>>, <<k, w>>, <<a, c>> >>
           /\ flash.state = "bufcount" /\ flashdrv.want = Clears(Clears(flash.data, a, p), a + 1, q)
  <2>1. flashdrv.todo[1] = <<a, n>> /\ flashdrv'.todo = << <<a, v>>, <<k, w>>, <<a, c>> >>
    BY <1>2, <1>t, FWTails
  <2> HIDE DEF b, n, v, w, c
  <2>2. FW!FlashWrite(a, n)
    BY <2>1 DEF FW!DriveFlash
  <2>3. flash' = [flash EXCEPT !.left = 2, !.state = "bufdata"]
    BY <2>2, <1>2, <1>d DEF FW!FlashWrite, FW!BufferWords
  <2>4. /\ flash' \in [data : FWArrays, state : FWStates, left : 0 .. 2]
        /\ flash'.data = flash.data /\ flash'.state = "bufdata" /\ flash'.left = 2
    <3>1. flash' = [flash EXCEPT !.data = flash.data, !.left = 2, !.state = "bufdata"]
      BY <2>3 DEF FWTypes
    <3>2. flash.data \in FWArrays /\ 2 \in 0 .. 2 /\ "bufdata" \in FWStates
      BY DEF FWTypes, FWStates
    <3> QED
      BY <3>1, <3>2, FWBuffered
  <2>6. InBuffer(a, p, q)'
    BY <2>1, <2>4, <1>t, <1>2, <1>k DEF InBuffer, n, v, w, c
  <2> QED
    BY <2>4, <2>6 DEF FWFlash
<1>3. CASE /\ flashdrv.todo = << <<a, v>>, <<k, w>>, <<a, c>> >>
           /\ flash.state = "bufdata" /\ flash.left = 2
           /\ flashdrv.want = Clears(Clears(flash.data, a, p), a + 1, q)
  <2>1. flashdrv.todo[1] = <<a, v>> /\ flashdrv'.todo = << <<k, w>>, <<a, c>> >>
    BY <1>3, <1>t, FWTails
  <2> HIDE DEF b, n, v, w, c
  <2>2. FW!FlashWrite(a, v)
    BY <2>1 DEF FW!DriveFlash
  <2>3. flash' = [flash EXCEPT !.data = FW!program(a, p), !.left = 1, !.state = "bufdata"]
    <3>1. flash' = [flash EXCEPT !.data = FW!program(a, p), !.left = @ - 1,
                                 !.state = IF flash.left <= 1 THEN "status" ELSE @]
      BY <2>2, <1>3, <1>d DEF FW!FlashWrite
    <3> QED
      BY <3>1, <1>3 DEF FWTypes
  <2>4. FW!program(a, p) = Clears(flash.data, a, p) /\ FW!program(a, p) \in FWArrays
    BY FWClears DEF FW!program, Clears, FWTypes
  <2>5. /\ flash' \in [data : FWArrays, state : FWStates, left : 0 .. 2]
        /\ flash'.data = Clears(flash.data, a, p) /\ flash'.state = "bufdata" /\ flash'.left = 1
    <3> HIDE DEF FW!program
    <3>1. 1 \in 0 .. 2 /\ "bufdata" \in FWStates
      BY DEF FWStates
    <3> QED
      BY <2>3, <2>4, <3>1, FWBuffered
  <2>6. InBuffer(a, p, q)'
    BY <2>1, <2>5, <1>t, <1>3, <1>k DEF InBuffer, w, c
  <2> QED
    BY <2>5, <2>6 DEF FWFlash
<1>4. CASE /\ flashdrv.todo = << <<k, w>>, <<a, c>> >>
           /\ flash.state = "bufdata" /\ flash.left = 1
           /\ flashdrv.want = Clears(flash.data, a + 1, q)
  <2>1. flashdrv.todo[1] = <<k, w>> /\ flashdrv'.todo = << <<a, c>> >>
    BY <1>4, <1>t, FWTails
  <2> HIDE DEF b, n, v, w, c
  <2>2. FW!FlashWrite(k, w)
    BY <2>1 DEF FW!DriveFlash
  <2>3. flash' = [flash EXCEPT !.data = FW!program(a + 1, q), !.left = 0, !.state = "status"]
    <3>1. flash' = [flash EXCEPT !.data = FW!program(k, q), !.left = @ - 1,
                                 !.state = IF flash.left <= 1 THEN "status" ELSE @]
      BY <2>2, <1>4, <1>d DEF FW!FlashWrite
    <3> QED
      BY <3>1, <1>4 DEF FWTypes
  <2>4. FW!program(a + 1, q) = Clears(flash.data, a + 1, q) /\ FW!program(a + 1, q) \in FWArrays
    BY <1>k, FWClears DEF FW!program, Clears, FWTypes
  <2>5. /\ flash' \in [data : FWArrays, state : FWStates, left : 0 .. 2]
        /\ flash'.data = Clears(flash.data, a + 1, q) /\ flash'.state = "status"
    <3> HIDE DEF FW!program
    <3>1. 0 \in 0 .. 2 /\ "status" \in FWStates
      BY DEF FWStates
    <3> QED
      BY <2>3, <2>4, <3>1, FWBuffered
  <2>6. InBuffer(a, p, q)'
    BY <2>1, <2>5, <1>t, <1>4, <1>k DEF InBuffer, c
  <2> QED
    BY <2>5, <2>6 DEF FWFlash
<1>5. CASE flashdrv.todo = << <<a, c>> >> /\ flash.state = "status" /\ flashdrv.want = flash.data
  <2>1. flashdrv.todo[1] = <<a, c>> /\ flashdrv'.todo = <<>>
    BY <1>5, <1>t, FWTails
  <2> HIDE DEF b, n, v, w, c
  <2>2. FW!FlashWrite(a, c)
    BY <2>1 DEF FW!DriveFlash
  <2>3. flash' = [flash EXCEPT !.state = FW!CommandState("confirm")]
    BY <2>2, <1>5, <1>d DEF FW!FlashWrite
  <2>4. /\ flash' \in [data : FWArrays, state : FWStates, left : 0 .. 2]
        /\ flash'.data = flash.data /\ flash'.state = FW!CommandState("confirm")
    BY <2>3, FWCommand
  <2>5. flash'.state = "status"
    BY <2>4 DEF FW!CommandState
  <2> QED
    BY <2>1, <2>4, <2>5, <1>t, <1>5 DEF FWFlash, Calm
<1> QED
  BY <1>1, <1>2, <1>3, <1>4, <1>5 DEF InBuffer

LEMMA FWBlockStep ==
    ASSUME FWTypes, FW!DriveFlash, NEW a \in FW!Addr, NEW p \in Patterns, InBlock(a)
    PROVE /\ flash' \in [data : FWArrays, state : FWStates, left : 0 .. 2]
          /\ FWFlash'
<1> DEFINE e == FW!Command("erase")
           c == FW!Command("confirm")
<1>d. e.command = "erase" /\ c.command = "confirm"
  BY DEF FW!Write, FW!Command
<1>t. flashdrv'.todo = Tail(flashdrv.todo) /\ flashdrv'.want = flashdrv.want
  BY FWDriven DEF FW!DriveFlash
<1>1. CASE flashdrv.todo = << <<a, e>>, <<a, c>> >> /\ Calm /\ flashdrv.want = ErasedOf(flash.data, a)
  <2>1. flashdrv.todo[1] = <<a, e>> /\ flashdrv'.todo = << <<a, c>> >>
    BY <1>1, <1>t, FWTails
  <2> HIDE DEF e, c
  <2>2. FW!FlashWrite(a, e)
    BY <2>1 DEF FW!DriveFlash
  <2>3. flash' = [flash EXCEPT !.state = FW!CommandState("erase")]
    BY <2>2, <1>1, <1>d DEF FW!FlashWrite, Calm
  <2>4. /\ flash' \in [data : FWArrays, state : FWStates, left : 0 .. 2]
        /\ flash'.data = flash.data /\ flash'.state = FW!CommandState("erase")
    BY <2>3, FWCommand
  <2>5. flash'.state = "erasesetup"
    BY <2>4 DEF FW!CommandState
  <2>6. InBlock(a)'
    BY <2>1, <2>4, <2>5, <1>t, <1>1 DEF InBlock, c
  <2> QED
    BY <2>4, <2>5, <2>6 DEF FWFlash
<1>2. CASE flashdrv.todo = << <<a, c>> >> /\ flash.state = "erasesetup" /\ flashdrv.want = ErasedOf(flash.data, a)
  <2>1. flashdrv.todo[1] = <<a, c>> /\ flashdrv'.todo = <<>>
    BY <1>2, <1>t, FWTails
  <2> HIDE DEF e, c
  <2>2. FW!FlashWrite(a, c)
    BY <2>1 DEF FW!DriveFlash
  <2>3. flash' = [flash EXCEPT !.data = FW!Erased(a), !.state = "status"]
    BY <2>2, <1>2, <1>d DEF FW!FlashWrite
  <2>4. FW!Erased(a) = ErasedOf(flash.data, a) /\ FW!Erased(a) \in FWArrays
    BY FWErases DEF FW!Erased, ErasedOf, FWTypes
  <2> HIDE DEF FW!Erased
  <2>5. /\ flash' \in [data : FWArrays, state : FWStates, left : 0 .. 2]
        /\ flash'.data = ErasedOf(flash.data, a) /\ flash'.state = "status"
    BY <2>3, <2>4 DEF FWTypes, FWStates
  <2> QED
    BY <2>1, <2>5, <1>t, <1>2 DEF FWFlash, Calm
<1> QED
  BY <1>1, <1>2 DEF InBlock

LEMMA FWDrives ==
    ASSUME FWTypes, FWFlash, FW!DriveFlash
    PROVE /\ flash' \in [data : FWArrays, state : FWStates, left : 0 .. 2]
          /\ FWFlash'
<1>1. PICK a \in FW!Addr, p \in Patterns, q \in Patterns : InWord(a, p) \/ InBuffer(a, p, q) \/ InBlock(a)
  BY DEF FWFlash, FW!DriveFlash
<1> QED
  BY <1>1, FWWordStep, FWBufferStep, FWBlockStep

LEMMA FWStarts ==
    ASSUME FWTypes, FWFlash, FW!StartFlash
    PROVE /\ flashdrv' = [todo |-> flashdrv'.todo, ops |-> flashdrv'.ops, want |-> flashdrv'.want]
          /\ flashdrv'.want \in FWArrays /\ FWFlash'
<1> DEFINE Word(a, p) == flashdrv' = [todo |-> FW!WordProgram(a, p), ops |-> flashdrv.ops + 1,
                          want |-> [flashdrv.want EXCEPT ![a] = @ \cap p]]
           Buffer(a, p, q) == /\ a + 1 \in FW!Addr
                 /\ flashdrv' = [todo |-> FW!BufferProgram(a, p, q), ops |-> flashdrv.ops + 1,
                          want |-> [flashdrv.want EXCEPT ![a] = @ \cap p,
                                                            ![a + 1] = @ \cap q]]
           Block(a) == flashdrv' = [todo |-> FW!BlockErase(a), ops |-> flashdrv.ops + 1,
                          want |-> [w \in FW!Addr |-> IF w \in FW!BlockOf(a) THEN Bits
                                                   ELSE flashdrv.want[w]]]
<1>0. PICK a \in FW!Addr, p \in Patterns, q \in Patterns : Word(a, p) \/ Buffer(a, p, q) \/ Block(a)
  BY DEF FW!StartFlash
<1>c. Calm /\ flashdrv.want = flash.data /\ flash.data \in FWArrays /\ flash' = flash
  <2>1. flashdrv.todo = <<>>
    BY DEF FW!StartFlash
  <2>2. \A x, y : InWord(x, y) => flashdrv.todo # <<>>
    BY DEF InWord
  <2>3. \A x, y, z : InBuffer(x, y, z) => flashdrv.todo # <<>>
    BY FWBufferLeft
  <2>4. \A x : InBlock(x) => flashdrv.todo # <<>>
    BY DEF InBlock
  <2> QED
    BY <2>1, <2>2, <2>3, <2>4 DEF FWFlash, FWTypes, FW!StartFlash
<1>l. (flash.state = "bufdata" => flash.left > 0)'
  BY <1>c DEF FWFlash
<1>1. CASE Word(a, p)
  <2>1. flashdrv'.want = Clears(flash.data, a, p) /\ flashdrv'.todo = FW!WordProgram(a, p)
    BY <1>1, <1>c DEF Clears
  <2>2. InWord(a, p)'
    BY <2>1, <1>c DEF InWord, FW!WordProgram, Calm
  <2> QED
    BY <1>1, <2>1, <2>2, <1>c, <1>l, FWClears DEF FWFlash
<1>2. CASE Buffer(a, p, q)
  <2>0. a # a + 1 /\ a + 1 \in FW!Addr
    BY <1>2, FWAssumption DEF FW!Addr
  <2>a. [flash.data EXCEPT ![a] = @ \cap p, ![a + 1] = @ \cap q] = Clears(Clears(flash.data, a, p), a + 1, q)
    BY <2>0, <1>c DEF Clears, FWArrays
  <2>1. flashdrv'.want = Clears(Clears(flash.data, a, p), a + 1, q) /\ flashdrv'.todo = FW!BufferProgram(a, p, q)
    BY <1>2, <1>c, <2>a
  <2>2. InBuffer(a, p, q)'
    BY <2>1, <1>2, <1>c DEF InBuffer, FW!BufferProgram, Calm
  <2>3. flashdrv'.want \in FWArrays
    BY <2>1, <1>2, <1>c, FWClears
  <2> QED
    BY <1>2, <2>2, <2>3, <1>c, <1>l DEF FWFlash
<1>3. CASE Block(a)
  <2>1. flashdrv'.want = ErasedOf(flash.data, a) /\ flashdrv'.todo = FW!BlockErase(a)
    BY <1>3, <1>c DEF ErasedOf
  <2>2. InBlock(a)'
    BY <2>1, <1>c DEF InBlock, FW!BlockErase, Calm
  <2> QED
    BY <1>3, <2>1, <2>2, <1>c, <1>l, FWErases DEF FWFlash
<1> QED
  BY <1>0, <1>1, <1>2, <1>3

LEMMA FWBack ==
    ASSUME FWTypes, FWFlash, FW!BackToArray
    PROVE /\ flash' \in [data : FWArrays, state : FWStates, left : 0 .. 2]
          /\ FWFlash'
<1>c. Calm /\ flashdrv.want = flash.data /\ flashdrv.todo = <<>> /\ flashdrv' = flashdrv
  <2>1. flashdrv.todo = <<>>
    BY DEF FW!BackToArray
  <2>2. \A x, y : InWord(x, y) => flashdrv.todo # <<>>
    BY DEF InWord
  <2>3. \A x, y, z : InBuffer(x, y, z) => flashdrv.todo # <<>>
    BY FWBufferLeft
  <2>4. \A x : InBlock(x) => flashdrv.todo # <<>>
    BY DEF InBlock
  <2> QED
    BY <2>1, <2>2, <2>3, <2>4 DEF FWFlash, FW!BackToArray
<1>1. flash' = [flash EXCEPT !.state = FW!CommandState("readarray")]
  BY <1>c DEF FW!BackToArray, FW!FlashWrite, FW!Command, FW!Write, Calm
<1>2. /\ flash' \in [data : FWArrays, state : FWStates, left : 0 .. 2]
      /\ flash'.data = flash.data /\ flash'.state = FW!CommandState("readarray")
  BY <1>1, FWCommand
<1>3. flash'.state = "array"
  BY <1>2 DEF FW!CommandState
<1> QED
  BY <1>c, <1>2, <1>3 DEF FWFlash, Calm

-----------------------------------------------------------------------------
(* The flash's steps leave the rest alone. *)
LEMMA FWFlashInv ==
    ASSUME FWInv, FW!Flash
    PROVE FWInv'
<1>1. UNCHANGED <<fwcfg, dma, ramfb, frame, uart>>
  BY DEF FW!Flash, FW!StartFlash, FW!DriveFlash, FW!BackToArray
<1>2. /\ flash' \in [data : FWArrays, state : FWStates, left : 0 .. 2]
      /\ flashdrv' = [todo |-> flashdrv'.todo, ops |-> flashdrv'.ops, want |-> flashdrv'.want]
      /\ flashdrv'.want \in FWArrays /\ FWFlash'
  <2>1. CASE FW!StartFlash
    BY <2>1, FWStarts DEF FWInv, FW!StartFlash, FWTypes
  <2>2. CASE FW!DriveFlash
    BY <2>2, FWDrives, FWDriven DEF FWInv, FW!DriveFlash, FWTypes
  <2>3. CASE FW!BackToArray
    BY <2>3, FWBack DEF FWInv, FW!BackToArray, FWTypes
  <2> QED
    BY <2>1, <2>2, <2>3 DEF FW!Flash
<1>3. FWTypes'
  BY <1>1, <1>2 DEF FWInv, FWTypes
<1>4. FWConfig'
  BY <1>1 DEF FWInv, FWConfig, FW!ItemBytes
<1>5. FWDisplay' /\ FWSerial'
  BY <1>1 DEF FWInv, FWDisplay, FWSerial, FW!OneConfiguration, FW!KeysInOrder
<1> QED
  BY <1>2, <1>3, <1>4, <1>5 DEF FWInv

(* The rest leaves the flash alone. *)
LEMMA FWFlashStays ==
    ASSUME FWInv, UNCHANGED <<flash, flashdrv>>
    PROVE FWFlash'
<1> FWFlash
  BY DEF FWInv
<1>1. \A a, p : InWord(a, p) => InWord(a, p)'
  BY DEF InWord, Calm
<1>2. \A a, p, q : InBuffer(a, p, q) => InBuffer(a, p, q)'
  BY SMTT(30) DEF InBuffer, Calm
<1>3. \A a : InBlock(a) => InBlock(a)'
  BY DEF InBlock, Calm
<1> QED
  BY <1>1, <1>2, <1>3 DEF FWFlash, Calm

LEMMA FWTypesStay ==
    ASSUME FWInv, UNCHANGED <<flash, flashdrv>>,
           fwcfg' \in [selector : DOMAIN ReadOnlyItems \cup {RamfbKey, 0}, offset : Nat, ramfb : Nat \X Nat],
           dma' = [count |-> dma'.count, key |-> dma'.key, from |-> dma'.from, got |-> dma'.got],
           dma'.from \in Nat /\ Len(dma'.got) \in Nat,
           ramfb' \in [owner : {"none", "guest", "render"}, addr : Nat, geometry : Nat],
           frame' \in [pc : {"idle", "copy", "draw"}, addr : Nat, geometry : Nat, drawn : Nat \X Nat],
           uart' \in [typed : Nat, pumped : Nat, queue : Seq(Nat), read : Seq(Nat)]
    PROVE FWTypes'
  BY DEF FWInv, FWTypes

-----------------------------------------------------------------------------
(* The transfers of fw_cfg: each begins where the one before it ended. *)
FWReads(f, k, from, n) ==
    /\ fwcfg' = [f EXCEPT !.offset = @ + n]
    /\ dma' = [count |-> dma.count + 1, key |-> k, from |-> from,
               got |-> [i \in 1 .. n |-> FW!ByteAt(FW!item(k), f.offset + i - 1)]]

LEMMA FWReadStep ==
    ASSUME FWInv, NEW f \in [selector : DOMAIN ReadOnlyItems \cup {RamfbKey, 0}, offset : Nat, ramfb : Nat \X Nat],
           NEW n \in 1 .. 3, f.ramfb = fwcfg.ramfb, FWReads(f, f.selector, f.offset, n),
           UNCHANGED <<flash, flashdrv, ramfb, frame, uart>>
    PROVE FWInv'
<1> DEFINE g == [i \in 1 .. n |-> FW!ByteAt(FW!item(f.selector), f.offset + i - 1)]
<1>n. n \in Nat
  OBVIOUS
<1>1. dma' = [count |-> dma.count + 1, key |-> f.selector, from |-> f.offset, got |-> g]
  BY DEF FWReads
<1>2. Len(g) = n
  BY <1>n, FWGot
<1>3. DOMAIN g = 1 .. n /\ \A i \in 1 .. n : g[i] = FW!ByteAt(FW!item(f.selector), f.offset + i - 1)
  OBVIOUS
<1> HIDE DEF g
<1>4. fwcfg' = [selector |-> f.selector, offset |-> f.offset + n, ramfb |-> f.ramfb]
  BY DEF FWReads
<1>5. /\ dma'.key = f.selector /\ dma'.from = f.offset /\ dma'.got = g /\ dma'.count = dma.count + 1
      /\ fwcfg'.selector = f.selector /\ fwcfg'.offset = f.offset + n /\ fwcfg'.ramfb = fwcfg.ramfb
  BY <1>1, <1>4
<1>6. FWTypes'
  <2>1. fwcfg' \in [selector : DOMAIN ReadOnlyItems \cup {RamfbKey, 0}, offset : Nat, ramfb : Nat \X Nat]
    BY <1>4
  <2>2. dma' = [count |-> dma'.count, key |-> dma'.key, from |-> dma'.from, got |-> dma'.got]
    BY <1>1, <1>5
  <2>3. dma'.from \in Nat /\ Len(dma'.got) \in Nat
    BY <1>5, <1>2
  <2>4. /\ ramfb' \in [owner : {"none", "guest", "render"}, addr : Nat, geometry : Nat]
        /\ frame' \in [pc : {"idle", "copy", "draw"}, addr : Nat, geometry : Nat, drawn : Nat \X Nat]
        /\ uart' \in [typed : Nat, pumped : Nat, queue : Seq(Nat), read : Seq(Nat)]
    BY DEF FWInv, FWTypes
  <2> QED
    BY <2>1, <2>2, <2>3, <2>4, FWTypesStay
<1>7. FW!ItemBytes'
  <2> SUFFICES ASSUME NEW i \in DOMAIN dma'.got, dma'.key \in DOMAIN ReadOnlyItems
               PROVE dma'.got[i] = FW!ByteAt(ReadOnlyItems[dma'.key], dma'.from + i - 1)
    BY DEF FW!ItemBytes
  <2>1. FW!item(f.selector) = ReadOnlyItems[f.selector]
    BY <1>5, FWAssumption DEF FW!item
  <2> QED
    BY <2>1, <1>3, <1>5
<1>8. FWConfig'
  BY <1>5, <1>2, <1>7 DEF FWConfig
<1>9. FWDisplay' /\ FWSerial'
  BY <1>5 DEF FWInv, FWDisplay, FWSerial, FW!OneConfiguration, FW!KeysInOrder
<1> QED
  BY <1>6, <1>8, <1>9, FWFlashStays DEF FWInv

LEMMA FWSelected ==
    ASSUME FWInv, NEW s \in DOMAIN ReadOnlyItems
    PROVE /\ FW!Selected(s) \in [selector : DOMAIN ReadOnlyItems \cup {RamfbKey, 0}, offset : Nat, ramfb : Nat \X Nat]
          /\ FW!Selected(s).selector = s /\ FW!Selected(s).offset = 0 /\ FW!Selected(s).ramfb = fwcfg.ramfb
<1>1. /\ fwcfg = [selector |-> fwcfg.selector, offset |-> fwcfg.offset, ramfb |-> fwcfg.ramfb]
      /\ fwcfg.ramfb \in Nat \X Nat
  BY DEF FWInv, FWTypes
<1>2. FW!Selected(s) = [selector |-> s, offset |-> 0, ramfb |-> fwcfg.ramfb]
  <2> DEFINE g == [fwcfg EXCEPT !.selector = s]
  <2>1. g = [selector |-> s, offset |-> fwcfg.offset, ramfb |-> fwcfg.ramfb]
    BY <1>1
  <2> HIDE DEF g
  <2>2. [g EXCEPT !.offset = 0] = [selector |-> s, offset |-> 0, ramfb |-> fwcfg.ramfb]
    BY <2>1
  <2> QED
    BY <2>2 DEF g, FW!Selected
<1> QED
  BY <1>1, <1>2

LEMMA FWTransfers ==
    ASSUME FWInv, FW!SelectRead \/ FW!DMARead
    PROVE FWInv'
<1>1. CASE FW!SelectRead
  <2>1. PICK s \in DOMAIN ReadOnlyItems, n \in 1 .. 2 : FWReads(FW!Selected(s), s, 0, n)
    BY <1>1 DEF FW!SelectRead, FWReads
  <2>2. FWReads(FW!Selected(s), FW!Selected(s).selector, FW!Selected(s).offset, n) /\ n \in 1 .. 3
    BY <2>1, FWSelected
  <2> QED
    BY <2>2, <1>1, FWSelected, FWReadStep DEF FW!SelectRead
<1>2. CASE FW!DMARead
  <2>1. PICK s \in DOMAIN ReadOnlyItems, sel \in BOOLEAN, n \in 1 .. 3 :
          LET f == IF sel THEN FW!Selected(s) ELSE fwcfg IN
          FWReads(f, f.selector, IF sel THEN 0 ELSE dma.from + Len(dma.got), n)
    BY <1>2 DEF FW!DMARead, FWReads
  <2>2. CASE sel
    <3>1. FWReads(FW!Selected(s), FW!Selected(s).selector, 0, n)
      BY <2>1, <2>2
    <3>2. FWReads(FW!Selected(s), FW!Selected(s).selector, FW!Selected(s).offset, n)
      BY <3>1, FWSelected
    <3> QED
      BY <3>2, <1>2, FWSelected, FWReadStep DEF FW!DMARead
  <2>3. CASE ~sel
    <3>1. FWReads(fwcfg, fwcfg.selector, fwcfg.offset, n)
      BY <2>1, <2>3 DEF FWInv, FWConfig
    <3>2. fwcfg \in [selector : DOMAIN ReadOnlyItems \cup {RamfbKey, 0}, offset : Nat, ramfb : Nat \X Nat]
      BY DEF FWInv, FWTypes
    <3> QED
      BY <3>1, <3>2, <1>2, FWReadStep DEF FW!DMARead
  <2> QED
    BY <2>2, <2>3
<1> QED
  BY <1>1, <1>2

LEMMA FWSkips ==
    ASSUME FWInv, FW!DMASkip
    PROVE FWInv'
<1>1. /\ fwcfg' = [selector |-> fwcfg.selector, offset |-> fwcfg.offset + 1, ramfb |-> fwcfg.ramfb]
      /\ dma' = [count |-> dma.count + 1, key |-> dma.key, from |-> dma.from + Len(dma.got) + 1, got |-> <<>>]
  BY DEF FWInv, FWTypes, FW!DMASkip
<1>2. UNCHANGED <<flash, flashdrv, ramfb, frame, uart>>
  BY DEF FW!DMASkip
<1>3. /\ dma'.key = dma.key /\ dma'.from = dma.from + Len(dma.got) + 1 /\ dma'.got = <<>>
      /\ fwcfg'.selector = fwcfg.selector /\ fwcfg'.offset = fwcfg.offset + 1 /\ fwcfg'.ramfb = fwcfg.ramfb
  BY <1>1
<1>4. Len(<<>>) = 0 /\ DOMAIN <<>> = {}
  OBVIOUS
<1>5. FWTypes'
  <2>1. fwcfg' \in [selector : DOMAIN ReadOnlyItems \cup {RamfbKey, 0}, offset : Nat, ramfb : Nat \X Nat]
    BY SMTT(30), <1>1 DEF FWInv, FWTypes
  <2>2. dma' = [count |-> dma'.count, key |-> dma'.key, from |-> dma'.from, got |-> dma'.got]
    BY <1>1
  <2>3. dma'.from \in Nat /\ Len(dma'.got) \in Nat
    BY SMTT(30), <1>3, <1>4 DEF FWInv, FWTypes
  <2> QED
    BY <2>1, <2>2, <2>3, <1>2, FWTypesStay DEF FWInv, FWTypes
<1>6. FWConfig'
  <2>1. fwcfg.selector = dma.key /\ fwcfg.offset = dma.from + Len(dma.got) /\ dma.from \in Nat /\ Len(dma.got) \in Nat
    BY DEF FWInv, FWTypes, FWConfig
  <2>2. Len(dma'.got) = 0
    BY <1>3, <1>4
  <2> QED
    BY <1>3, <1>4, <2>1, <2>2 DEF FWConfig, FW!ItemBytes
<1>7. FWDisplay' /\ FWSerial'
  BY <1>2, <1>3 DEF FWInv, FWDisplay, FWSerial, FW!OneConfiguration, FW!KeysInOrder
<1> QED
  BY <1>2, <1>5, <1>6, <1>7, FWFlashStays DEF FWInv

LEMMA FWWrites ==
    ASSUME FWInv, FW!DMAWrite
    PROVE FWInv'
<1>0. PICK c \in 1 .. 2 :
         /\ fwcfg' = [FW!Selected(RamfbKey) EXCEPT !.ramfb = <<c, c>>, !.offset = 2]
         /\ ramfb' = [ramfb EXCEPT !.owner = "guest", !.addr = c]
  BY DEF FW!DMAWrite
<1>1. /\ fwcfg' = [selector |-> RamfbKey, offset |-> 2, ramfb |-> <<c, c>>]
      /\ ramfb' = [owner |-> "guest", addr |-> c, geometry |-> ramfb.geometry]
      /\ dma' = [count |-> dma.count + 1, key |-> RamfbKey, from |-> 2, got |-> <<>>]
  BY <1>0 DEF FWInv, FWTypes, FW!DMAWrite, FW!Selected
<1>2. UNCHANGED <<flash, flashdrv, frame, uart>> /\ ramfb.owner = "none"
  BY DEF FW!DMAWrite
<1>3. /\ dma'.key = RamfbKey /\ dma'.from = 2 /\ dma'.got = <<>>
      /\ fwcfg'.selector = RamfbKey /\ fwcfg'.offset = 2 /\ fwcfg'.ramfb = <<c, c>>
      /\ ramfb'.owner = "guest" /\ ramfb'.addr = c
  BY <1>1
<1>4. Len(<<>>) = 0 /\ DOMAIN <<>> = {} /\ c \in Nat
  OBVIOUS
<1>5. FWTypes'
  <2>1. fwcfg' \in [selector : DOMAIN ReadOnlyItems \cup {RamfbKey, 0}, offset : Nat, ramfb : Nat \X Nat]
    BY <1>1, <1>4
  <2>2. dma' = [count |-> dma'.count, key |-> dma'.key, from |-> dma'.from, got |-> dma'.got]
    BY <1>1
  <2>3. dma'.from \in Nat /\ Len(dma'.got) \in Nat
    BY <1>3, <1>4
  <2>4. ramfb' \in [owner : {"none", "guest", "render"}, addr : Nat, geometry : Nat]
    BY <1>1, <1>4 DEF FWInv, FWTypes
  <2> QED
    BY <2>1, <2>2, <2>3, <2>4, <1>2, FWTypesStay DEF FWInv, FWTypes
<1>6. FWConfig'
  <2>1. Len(dma'.got) = 0
    BY <1>3, <1>4
  <2> QED
    BY <1>3, <1>4, <2>1 DEF FWConfig, FW!ItemBytes
<1>7. FWDisplay'
  BY <1>2, <1>3 DEF FWInv, FWDisplay, FW!OneConfiguration
<1>8. FWSerial'
  BY <1>2 DEF FWInv, FWSerial, FW!KeysInOrder
<1> QED
  BY <1>2, <1>5, <1>6, <1>7, <1>8, FWFlashStays DEF FWInv

(* The goroutine that draws. *)
LEMMA FWFrames ==
    ASSUME FWInv, FW!SetConfigEnds \/ FW!Snapshot \/ FW!SnapshotCopied \/ FW!Draw
    PROVE FWInv'
<1>1. UNCHANGED <<flash, flashdrv, fwcfg, dma, uart>>
  BY DEF FW!SetConfigEnds, FW!Snapshot, FW!SnapshotCopied, FW!Draw
<1>t. /\ ramfb \in [owner : {"none", "guest", "render"}, addr : Nat, geometry : Nat]
      /\ frame \in [pc : {"idle", "copy", "draw"}, addr : Nat, geometry : Nat, drawn : Nat \X Nat]
      /\ fwcfg.ramfb \in Nat \X Nat /\ fwcfg.ramfb[2] \in Nat
  BY DEF FWInv, FWTypes
<1>2. /\ ramfb' \in [owner : {"none", "guest", "render"}, addr : Nat, geometry : Nat]
      /\ frame' \in [pc : {"idle", "copy", "draw"}, addr : Nat, geometry : Nat, drawn : Nat \X Nat]
      /\ FWDisplay'
  <2>1. CASE FW!SetConfigEnds
    BY <2>1, <1>1, <1>t DEF FWInv, FWDisplay, FW!SetConfigEnds, FW!OneConfiguration
  <2>2. CASE FW!Snapshot
    BY <2>2, <1>1, <1>t DEF FWInv, FWDisplay, FW!Snapshot, FW!OneConfiguration
  <2>3. CASE FW!SnapshotCopied
    BY <2>3, <1>1, <1>t DEF FWInv, FWDisplay, FW!SnapshotCopied, FW!OneConfiguration
  <2>4. CASE FW!Draw
    BY <2>4, <1>1, <1>t DEF FWInv, FWDisplay, FW!Draw, FW!OneConfiguration
  <2> QED
    BY <2>1, <2>2, <2>3, <2>4
<1>3. FWTypes'
  BY <1>1, <1>2, FWTypesStay DEF FWInv, FWTypes
<1>4. FWConfig' /\ FWSerial'
  BY <1>1 DEF FWInv, FWConfig, FW!ItemBytes, FWSerial, FW!KeysInOrder
<1> QED
  BY <1>1, <1>2, <1>3, <1>4, FWFlashStays DEF FWInv

(* The keys, typed, queued and read. *)
LEMMA FWKeys ==
    ASSUME FWInv, FW!Serial
    PROVE FWInv'
<1>1. UNCHANGED <<flash, flashdrv, fwcfg, dma, ramfb, frame>>
  BY DEF FW!Serial, FW!Type, FW!Pump, FW!ReadKey
<1>t. uart \in [typed : Nat, pumped : Nat, queue : Seq(Nat), read : Seq(Nat)]
  BY DEF FWInv, FWTypes
<1>2. uart' \in [typed : Nat, pumped : Nat, queue : Seq(Nat), read : Seq(Nat)] /\ FWSerial'
  <2>1. CASE FW!Type
    BY <2>1, <1>t DEF FWInv, FWSerial, FW!Type, FW!KeysInOrder
  <2>2. CASE FW!Pump
    <3> DEFINE q == uart.queue
               r == uart.read
    <3>1. uart' = [typed |-> uart.typed, pumped |-> uart.pumped + 1, queue |-> Append(q, uart.pumped + 1), read |-> uart.read]
      BY <2>2, <1>t DEF FW!Pump
    <3>2. /\ q \in Seq(Nat) /\ r \in Seq(Nat) /\ uart.pumped \in Nat /\ uart.typed \in Nat
          /\ Append(q, uart.pumped + 1) \in Seq(Nat) /\ Len(Append(q, uart.pumped + 1)) = Len(q) + 1
          /\ \A j \in 1 .. Len(q) : Append(q, uart.pumped + 1)[j] = q[j]
          /\ Append(q, uart.pumped + 1)[Len(q) + 1] = uart.pumped + 1
          /\ DOMAIN q = 1 .. Len(q) /\ DOMAIN Append(q, uart.pumped + 1) = 1 .. Len(q) + 1
      BY <1>t
    <3>3. /\ Len(r) + Len(q) = uart.pumped /\ Len(q) < InputCap
          /\ \A j \in DOMAIN q : q[j] = Len(r) + j
      BY <2>2 DEF FWInv, FWSerial, FW!Pump
    <3>4. uart'.read = r /\ uart'.pumped = uart.pumped + 1 /\ uart'.queue = Append(q, uart.pumped + 1)
      BY <3>1
    <3>5. FW!KeysInOrder'
      BY <3>4 DEF FWInv, FWSerial, FW!KeysInOrder
    <3>n. Len(q) \in Nat /\ Len(r) \in Nat /\ InputCap \in Nat
      BY <3>2, FWAssumption
    <3> HIDE DEF q, r
    <3>6. \A j \in DOMAIN uart'.queue : uart'.queue[j] = Len(uart'.read) + j
      <4> SUFFICES ASSUME NEW j \in 1 .. Len(q) + 1
                   PROVE Append(q, uart.pumped + 1)[j] = Len(r) + j
        BY <3>2, <3>4
      <4>1. CASE j = Len(q) + 1
        <5>1. Append(q, uart.pumped + 1)[Len(q) + 1] = uart.pumped + 1
          BY <3>2
        <5>2. uart.pumped = Len(r) + Len(q)
          BY <3>3
        <5> QED
          BY <4>1, <5>1, <5>2, <3>n
      <4>2. CASE j # Len(q) + 1
        <5>1. j \in 1 .. Len(q)
          BY <4>2, <3>n
        <5> QED
          BY <5>1, <3>2, <3>3
      <4> QED
        BY <4>1, <4>2
    <3>7. Len(uart'.read) + Len(uart'.queue) = uart'.pumped /\ Len(uart'.queue) <= InputCap
      <4>1. Len(uart'.queue) = Len(q) + 1 /\ uart'.read = r /\ uart'.pumped = uart.pumped + 1
        BY <3>2, <3>4
      <4>2. uart.pumped = Len(r) + Len(q) /\ Len(q) < InputCap
        BY <3>3
      <4> QED
        BY <4>1, <4>2, <3>n
    <3>8. uart' \in [typed : Nat, pumped : Nat, queue : Seq(Nat), read : Seq(Nat)]
      BY <3>1, <3>2 DEF r
    <3> QED
      BY <3>5, <3>6, <3>7, <3>8 DEF FWSerial
  <2>3. CASE FW!ReadKey
    <3> DEFINE q == uart.queue
               r == uart.read
    <3>1. uart' = [typed |-> uart.typed, pumped |-> uart.pumped, queue |-> Tail(q), read |-> Append(r, Head(q))]
      BY <2>3, <1>t DEF FW!ReadKey
    <3>2. /\ q \in Seq(Nat) /\ r \in Seq(Nat) /\ uart.pumped \in Nat /\ uart.typed \in Nat /\ q # <<>>
      BY <2>3, <1>t DEF FW!ReadKey
    <3>3. /\ Tail(q) \in Seq(Nat) /\ Len(Tail(q)) = Len(q) - 1 /\ Len(q) > 0 /\ Len(q) \in Nat /\ Len(r) \in Nat
          /\ \A j \in 1 .. Len(Tail(q)) : Tail(q)[j] = q[j + 1]
          /\ DOMAIN q = 1 .. Len(q) /\ DOMAIN Tail(q) = 1 .. Len(Tail(q)) /\ Head(q) = q[1]
      BY <3>2
    <3>4. /\ Append(r, Head(q)) \in Seq(Nat) /\ Len(Append(r, Head(q))) = Len(r) + 1
          /\ \A j \in 1 .. Len(r) : Append(r, Head(q))[j] = r[j]
          /\ Append(r, Head(q))[Len(r) + 1] = Head(q)
          /\ DOMAIN r = 1 .. Len(r) /\ DOMAIN Append(r, Head(q)) = 1 .. Len(r) + 1
      BY <3>2
    <3>5. /\ Len(r) + Len(q) = uart.pumped /\ Len(q) <= InputCap
          /\ \A j \in DOMAIN q : q[j] = Len(r) + j
          /\ \A j \in DOMAIN r : r[j] = j
      BY DEF FWInv, FWSerial, FW!KeysInOrder
    <3>6. uart'.read = Append(r, Head(q)) /\ uart'.pumped = uart.pumped /\ uart'.queue = Tail(q)
      BY <3>1
    <3> HIDE DEF q, r
    <3>7. Head(q) = Len(r) + 1
      BY <3>3, <3>5
    <3>8. FW!KeysInOrder'
      BY <3>3, <3>4, <3>5, <3>6, <3>7 DEF FW!KeysInOrder
    <3>9. \A j \in DOMAIN uart'.queue : uart'.queue[j] = Len(uart'.read) + j
      <4> SUFFICES ASSUME NEW j \in 1 .. Len(Tail(q))
                   PROVE Tail(q)[j] = (Len(r) + 1) + j
        BY <3>3, <3>4, <3>6
      <4>1. j + 1 \in DOMAIN q /\ j \in Nat
        BY <3>3
      <4> QED
        BY SMTT(30), <4>1, <3>3, <3>5
    <3>10. Len(uart'.read) + Len(uart'.queue) = uart'.pumped /\ Len(uart'.queue) <= InputCap
      BY <3>3, <3>4, <3>5, <3>6, FWAssumption
    <3>11. uart' \in [typed : Nat, pumped : Nat, queue : Seq(Nat), read : Seq(Nat)]
      BY <3>1, <3>2, <3>3, <3>4
    <3> QED
      BY <3>8, <3>9, <3>10, <3>11 DEF FWSerial
  <2> QED
    BY <2>1, <2>2, <2>3 DEF FW!Serial
<1>3. FWTypes'
  BY <1>1, <1>2, FWTypesStay DEF FWInv, FWTypes
<1>4. FWConfig' /\ FWDisplay'
  BY <1>1 DEF FWInv, FWConfig, FW!ItemBytes, FWDisplay, FW!OneConfiguration
<1> QED
  BY <1>1, <1>2, <1>3, <1>4, FWFlashStays DEF FWInv

LEMMA FWNextInv == FWInv /\ FW!Next => FWInv'
<1> SUFFICES ASSUME FWInv, FW!Next PROVE FWInv'
  OBVIOUS
<1>1. CASE FW!Flash
  BY <1>1, FWFlashInv
<1>2. CASE FW!Display
  BY <1>2, FWTransfers, FWSkips, FWWrites, FWFrames DEF FW!Display
<1>3. CASE FW!Serial
  BY <1>3, FWKeys
<1> QED
  BY <1>1, <1>2, <1>3 DEF FW!Next

LEMMA FWStutterInv == FWInv /\ UNCHANGED FW!fdvars => FWInv'
<1> SUFFICES ASSUME FWInv, UNCHANGED FW!fdvars PROVE FWInv'
  OBVIOUS
<1>1. UNCHANGED <<flash, flashdrv, fwcfg, dma, ramfb, frame, uart>>
  BY DEF FW!fdvars
<1>2. FWTypes'
  BY <1>1, FWTypesStay DEF FWInv, FWTypes
<1>3. FWConfig' /\ FWDisplay' /\ FWSerial'
  BY <1>1 DEF FWInv, FWConfig, FW!ItemBytes, FWDisplay, FW!OneConfiguration, FWSerial, FW!KeysInOrder
<1> QED
  BY <1>1, <1>2, <1>3, FWFlashStays DEF FWInv

LEMMA FWKept == FWInv => FW!FWSafe
<1> SUFFICES ASSUME FWInv PROVE FW!FWSafe
  OBVIOUS
<1>1. FW!TypeOK
  BY DEF FWInv, FWTypes, FWFlash, FWDisplay, FWSerial, FW!TypeOK, FWArrays
<1>2. FW!FlashAsProgrammed
  <2>2. \A x, y : InWord(x, y) => flashdrv.todo # <<>>
    BY DEF InWord
  <2>3. \A x, y, z : InBuffer(x, y, z) => flashdrv.todo # <<>>
    BY FWBufferLeft
  <2>4. \A x : InBlock(x) => flashdrv.todo # <<>>
    BY DEF InBlock
  <2> QED
    BY <2>2, <2>3, <2>4 DEF FWInv, FWFlash, Calm, FW!FlashAsProgrammed
<1> QED
  BY <1>1, <1>2 DEF FWInv, FWConfig, FWDisplay, FWSerial, FW!FWSafe
-----------------------------------------------------------------------------
LEMMA AddrMin ==
    ASSUME NEW T, T \subseteq Nat, T # {}
    PROVE \E x \in T : \A y \in T : x <= y
<1> DEFINE R == OpToRel(<, Nat)
<1>1. IsWellFoundedOn(R, Nat)
  BY NatLessThanWellFounded
<1>2. \A x, y \in Nat : x < y => <<x, y>> \in R
  BY DEF OpToRel
<1> HIDE DEF R
<1>3. PICK x \in T : \A y \in T : ~ (<<y, x>> \in R)
  BY <1>1, WFMin
<1>4. \A y \in T : x <= y
  <2> SUFFICES ASSUME NEW y \in T, y < x PROVE FALSE
    OBVIOUS
  <2>1. <<y, x>> \in R
    BY <1>2
  <2> QED
    BY <2>1, <1>3
<1> QED
  BY <1>4

LEMMA AddrFirst ==
    ASSUME NEW n \in Nat, NEW T, T \subseteq 1 .. n, T # {}
    PROVE (CHOOSE x \in T : \A y \in T : x <= y) \in T
<1>1. T \subseteq Nat
  OBVIOUS
<1>2. \E x \in T : \A y \in T : x <= y
  BY <1>1, AddrMin
<1> QED
  BY <1>2

(* A finite set of naturals that is not empty has a greatest. *)
LEMMA AddrMost ==
    ASSUME NEW n \in Nat, NEW D, D \subseteq 1 .. n, D # {}, NEW u, \A i \in D : u[i] \in Nat
    PROVE \E i \in D : \A j \in D : u[j] <= u[i]
<1> DEFINE Above(i) == {j \in D : u[j] > u[i]}
           C == {Cardinality(Above(i)) : i \in D}
<1>1. IsFiniteSet(D)
  <2>1. IsFiniteSet(1 .. n)
    BY FS_Interval
  <2> QED
    BY <2>1, FS_Subset
<1>2. \A i \in D : IsFiniteSet(Above(i)) /\ Cardinality(Above(i)) \in Nat
  BY <1>1, FS_Subset, FS_CardinalityType
<1>3. C \subseteq Nat /\ C # {}
  BY <1>2
<1>4. PICK m \in C : \A y \in C : m <= y
  BY <1>3, AddrMin
<1>5. PICK i \in D : m = Cardinality(Above(i))
  BY <1>4
<1>6. ASSUME NEW j \in D, u[j] > u[i] PROVE FALSE
  <2>1. Above(j) \subseteq Above(i) /\ j \in Above(i) /\ j \notin Above(j)
    <3>1. \A k \in D : u[k] > u[j] => u[k] > u[i]
      BY <1>6
    <3>2. ~(u[j] > u[j])
      OBVIOUS
    <3> QED
      BY <3>1, <3>2, <1>6
  <2>2. Above(j) # Above(i)
    BY <2>1
  <2>3. Cardinality(Above(j)) < Cardinality(Above(i))
    BY <1>2, <2>1, <2>2, FS_Subset
  <2>4. Cardinality(Above(i)) <= Cardinality(Above(j))
    BY <1>4, <1>5
  <2> QED
    BY <1>2, <2>3, <2>4
<1> QED
  BY <1>6

-----------------------------------------------------------------------------
(* The lines of the file *)

Whole(n) == n % 4 = 0

AddrTypes ==
    /\ leases \in [granted : Seq([vm : VMs, until : Nat]), lines : Nat]
    /\ leases.lines <= 4 * Len(leases.granted)
    /\ arp \in Seq(VMs \cup {"garbled", "incomplete"})
    /\ agents \subseteq VMs /\ cwd \in VMs /\ clock \in 0 .. MaxTime /\ ways \in Ways
    /\ \A a \in Askers : asker[a] = [pc |-> asker[a].pc, how |-> asker[a].how, vm |-> asker[a].vm,
             until |-> asker[a].until, got |-> asker[a].got, at |-> asker[a].at, lines |-> asker[a].lines]
    /\ DOMAIN asker = Askers

Granted == leases.granted
Lines == leases.lines

LEMMA AddrNats ==
    ASSUME AddrTypes
    PROVE /\ Lines \in Nat /\ Len(Granted) \in Nat /\ Lines <= 4 * Len(Granted)
          /\ \A i \in 1 .. Len(Granted) : Granted[i].until \in Nat
<1>1. Granted \in Seq([vm : VMs, until : Nat]) /\ Lines \in Nat /\ Lines <= 4 * Len(Granted)
  BY DEF AddrTypes, Granted, Lines
<1> DEFINE S == [vm : VMs, until : Nat]
<1>2. \A x \in S : x.until \in Nat
  OBVIOUS
<1>3. Granted \in Seq(S)
  BY <1>1
<1> HIDE DEF S
<1>4. \A i \in 1 .. Len(Granted) : Granted[i] \in S
  BY <1>3
<1> QED
  BY <1>1, <1>2, <1>3, <1>4

LEMMA AddrSame ==
    ASSUME NEW a \in Nat, NEW b \in Nat, 1 .. a = 1 .. b
    PROVE a = b
  OBVIOUS

LEMMA AddrLines ==
    ASSUME AddrTypes
    PROVE /\ DOMAIN Addr!FileLines = 1 .. Lines
          /\ Len(Addr!FileLines) = Lines
          /\ \A i \in 1 .. Len(Granted) :
                /\ 4 * i - 3 <= Lines => Addr!FileLines[4 * i - 3] = Addr!Line("{", "", 0)
                /\ 4 * i - 2 <= Lines => Addr!FileLines[4 * i - 2] = Addr!Line("=", "hw_address", Granted[i].vm)
                /\ 4 * i - 1 <= Lines => Addr!FileLines[4 * i - 1] = Addr!Line("=", "lease", Granted[i].until)
                /\ 4 * i <= Lines => Addr!FileLines[4 * i] = Addr!Line("}", "", 0)
<1>t. Lines \in Nat /\ Len(Granted) \in Nat
  BY AddrNats
<1> DEFINE F(n) == Addr!BlockLines(Granted[(n + 3) \div 4])[((n + 3) % 4) + 1]
<1>1. DOMAIN Addr!FileLines = 1 .. Lines /\ \A n \in 1 .. Lines : Addr!FileLines[n] = F(n)
  BY DEF Addr!FileLines, Granted, Lines
<1>2. Len(Addr!FileLines) = Lines
  <2> DEFINE S == {F(n) : n \in 1 .. Lines}
  <2>1. Addr!FileLines \in [1 .. Lines -> S]
    BY DEF Addr!FileLines, Granted, Lines
  <2> HIDE DEF S, F
  <2>2. Addr!FileLines \in Seq(S)
    BY <2>1, <1>t
  <2> HIDE DEF Addr!FileLines
  <2>3. DOMAIN Addr!FileLines = 1 .. Len(Addr!FileLines) /\ Len(Addr!FileLines) \in Nat
    BY <2>2
  <2> QED
    BY <2>3, <1>1, <1>t, AddrSame
<1>3. ASSUME NEW i \in 1 .. Len(Granted)
      PROVE /\ (4 * i - 3 + 3) \div 4 = i /\ (4 * i - 3 + 3) % 4 = 0
            /\ (4 * i - 2 + 3) \div 4 = i /\ (4 * i - 2 + 3) % 4 = 1
            /\ (4 * i - 1 + 3) \div 4 = i /\ (4 * i - 1 + 3) % 4 = 2
            /\ (4 * i + 3) \div 4 = i /\ (4 * i + 3) % 4 = 3
  BY <1>t
<1>4. \A l : /\ Addr!BlockLines(l)[1] = Addr!Line("{", "", 0) /\ Addr!BlockLines(l)[2] = Addr!Line("=", "hw_address", l.vm)
             /\ Addr!BlockLines(l)[3] = Addr!Line("=", "lease", l.until) /\ Addr!BlockLines(l)[4] = Addr!Line("}", "", 0)
  BY DEF Addr!BlockLines
<1> HIDE DEF Addr!FileLines
<1>5. ASSUME NEW i \in 1 .. Len(Granted)
      PROVE /\ 4 * i - 3 <= Lines => Addr!FileLines[4 * i - 3] = Addr!Line("{", "", 0)
            /\ 4 * i - 2 <= Lines => Addr!FileLines[4 * i - 2] = Addr!Line("=", "hw_address", Granted[i].vm)
            /\ 4 * i - 1 <= Lines => Addr!FileLines[4 * i - 1] = Addr!Line("=", "lease", Granted[i].until)
            /\ 4 * i <= Lines => Addr!FileLines[4 * i] = Addr!Line("}", "", 0)
  <2>1. 4 * i - 3 <= Lines => Addr!FileLines[4 * i - 3] = Addr!BlockLines(Granted[i])[1]
    <3> SUFFICES ASSUME 4 * i - 3 <= Lines PROVE Addr!FileLines[4 * i - 3] = Addr!BlockLines(Granted[i])[1]
      OBVIOUS
    <3>1. 4 * i - 3 \in 1 .. Lines
      BY <1>t
    <3>2. Addr!FileLines[4 * i - 3] = Addr!BlockLines(Granted[(4 * i - 3 + 3) \div 4])[((4 * i - 3 + 3) % 4) + 1]
      BY <3>1, <1>1
    <3>3. ((4 * i - 3 + 3) % 4) + 1 = 1 /\ (4 * i - 3 + 3) \div 4 = i
      BY <1>3
    <3> QED
      BY <3>2, <3>3
  <2>2. 4 * i - 2 <= Lines => Addr!FileLines[4 * i - 2] = Addr!BlockLines(Granted[i])[2]
    <3> SUFFICES ASSUME 4 * i - 2 <= Lines PROVE Addr!FileLines[4 * i - 2] = Addr!BlockLines(Granted[i])[2]
      OBVIOUS
    <3>1. 4 * i - 2 \in 1 .. Lines
      BY <1>t
    <3>2. Addr!FileLines[4 * i - 2] = Addr!BlockLines(Granted[(4 * i - 2 + 3) \div 4])[((4 * i - 2 + 3) % 4) + 1]
      BY <3>1, <1>1
    <3>3. ((4 * i - 2 + 3) % 4) + 1 = 2 /\ (4 * i - 2 + 3) \div 4 = i
      BY <1>3
    <3> QED
      BY <3>2, <3>3
  <2>3. 4 * i - 1 <= Lines => Addr!FileLines[4 * i - 1] = Addr!BlockLines(Granted[i])[3]
    <3> SUFFICES ASSUME 4 * i - 1 <= Lines PROVE Addr!FileLines[4 * i - 1] = Addr!BlockLines(Granted[i])[3]
      OBVIOUS
    <3>1. 4 * i - 1 \in 1 .. Lines
      BY <1>t
    <3>2. Addr!FileLines[4 * i - 1] = Addr!BlockLines(Granted[(4 * i - 1 + 3) \div 4])[((4 * i - 1 + 3) % 4) + 1]
      BY <3>1, <1>1
    <3>3. ((4 * i - 1 + 3) % 4) + 1 = 3 /\ (4 * i - 1 + 3) \div 4 = i
      BY <1>3
    <3> QED
      BY <3>2, <3>3
  <2>4. 4 * i <= Lines => Addr!FileLines[4 * i] = Addr!BlockLines(Granted[i])[4]
    <3> SUFFICES ASSUME 4 * i <= Lines PROVE Addr!FileLines[4 * i] = Addr!BlockLines(Granted[i])[4]
      OBVIOUS
    <3>1. 4 * i \in 1 .. Lines
      BY <1>t
    <3>2. Addr!FileLines[4 * i] = Addr!BlockLines(Granted[(4 * i + 3) \div 4])[((4 * i + 3) % 4) + 1]
      BY <3>1, <1>1
    <3>3. ((4 * i + 3) % 4) + 1 = 4 /\ (4 * i + 3) \div 4 = i
      BY <1>3
    <3> QED
      BY <3>2, <3>3
  <2> QED
    BY <2>1, <2>2, <2>3, <2>4, <1>4
<1> QED
  BY <1>1, <1>2, <1>5

LEMMA AddrKinds ==
    ASSUME NEW v
    PROVE /\ Addr!Line("{", "", 0).k \notin {"hw_address", "lease"} /\ Addr!Line("}", "", 0).k \notin {"hw_address", "lease"}
          /\ Addr!Line("}", "", 0).t = "}" /\ Addr!Line("{", "", 0).t # "}"
          /\ Addr!Line("=", "hw_address", v).t # "}" /\ Addr!Line("=", "hw_address", v).k = "hw_address"
          /\ Addr!Line("=", "hw_address", v).v = v /\ Addr!Line("=", "lease", v).v = v
          /\ Addr!Line("=", "lease", v).t # "}" /\ Addr!Line("=", "lease", v).k = "lease"
  BY Zenon DEF Addr!Line

Ends(n) == Addr!FileLines[n].t = "}"
LK(n) == Addr!FileLines[n].k
LV(n) == Addr!FileLines[n].v

LEMMA AddrFields ==
    ASSUME AddrTypes, NEW i \in 1 .. Len(Granted)
    PROVE /\ 4 * i - 3 <= Lines => ~Ends(4 * i - 3) /\ LK(4 * i - 3) \notin {"hw_address", "lease"}
          /\ 4 * i - 2 <= Lines => /\ ~Ends(4 * i - 2) /\ LK(4 * i - 2) = "hw_address"
                                          /\ LV(4 * i - 2) = Granted[i].vm
          /\ 4 * i - 1 <= Lines => /\ ~Ends(4 * i - 1) /\ LK(4 * i - 1) = "lease"
                                          /\ LV(4 * i - 1) = Granted[i].until
          /\ 4 * i <= Lines => Ends(4 * i) /\ LK(4 * i) \notin {"hw_address", "lease"}
<1>1. ASSUME 4 * i - 3 <= Lines
      PROVE ~Ends(4 * i - 3) /\ LK(4 * i - 3) \notin {"hw_address", "lease"}
  <2>1. Addr!FileLines[4 * i - 3] = Addr!Line("{", "", 0)
    BY <1>1, AddrLines
  <2> QED
    BY <2>1, AddrKinds DEF Ends, LK
<1>2. ASSUME 4 * i - 2 <= Lines
      PROVE ~Ends(4 * i - 2) /\ LK(4 * i - 2) = "hw_address" /\ LV(4 * i - 2) = Granted[i].vm
  <2>1. Addr!FileLines[4 * i - 2] = Addr!Line("=", "hw_address", Granted[i].vm)
    BY <1>2, AddrLines
  <2> QED
    <3>1. LET l == Addr!Line("=", "hw_address", Granted[i].vm)
          IN l.t # "}" /\ l.k = "hw_address" /\ l.v = Granted[i].vm
      BY AddrKinds
    <3> QED
      BY <2>1, <3>1 DEF Ends, LK, LV
<1>3. ASSUME 4 * i - 1 <= Lines
      PROVE ~Ends(4 * i - 1) /\ LK(4 * i - 1) = "lease" /\ LV(4 * i - 1) = Granted[i].until
  <2>1. Addr!FileLines[4 * i - 1] = Addr!Line("=", "lease", Granted[i].until)
    BY <1>3, AddrLines
  <2> QED
    <3>1. LET l == Addr!Line("=", "lease", Granted[i].until)
          IN l.t # "}" /\ l.k = "lease" /\ l.v = Granted[i].until
      BY AddrKinds
    <3> QED
      BY <2>1, <3>1 DEF Ends, LK, LV
<1>4. ASSUME 4 * i <= Lines
      PROVE Ends(4 * i) /\ LK(4 * i) \notin {"hw_address", "lease"}
  <2>1. Addr!FileLines[4 * i] = Addr!Line("}", "", 0)
    BY <1>4, AddrLines
  <2> QED
    BY <2>1, AddrKinds DEF Ends, LK
<1> QED
  BY <1>1, <1>2, <1>3, <1>4

(* Each line is one of the four of a lease. *)
LEMMA AddrLine ==
    ASSUME AddrTypes, NEW n \in 1 .. Lines
    PROVE \E i \in 1 .. Len(Granted) :
            \/ n = 4 * i - 3 /\ ~Ends(n) /\ LK(n) \notin {"hw_address", "lease"}
            \/ n = 4 * i - 2 /\ ~Ends(n) /\ LK(n) = "hw_address" /\ LV(n) = Granted[i].vm
            \/ n = 4 * i - 1 /\ ~Ends(n) /\ LK(n) = "lease" /\ LV(n) = Granted[i].until
            \/ n = 4 * i /\ Ends(n) /\ LK(n) \notin {"hw_address", "lease"}
<1>t. Lines \in Nat /\ Len(Granted) \in Nat /\ Lines <= 4 * Len(Granted)
  BY AddrNats
<1>1. PICK i \in 1 .. Len(Granted) : n = 4 * i - 3 \/ n = 4 * i - 2 \/ n = 4 * i - 1 \/ n = 4 * i
  <2>1. (n + 3) \div 4 \in 1 .. Len(Granted)
    BY <1>t
  <2>2. LET i == (n + 3) \div 4 IN n = 4 * i - 3 \/ n = 4 * i - 2 \/ n = 4 * i - 1 \/ n = 4 * i
    OBVIOUS
  <2> QED
    BY <2>1, <2>2
<1>2. CASE n = 4 * i - 3
  BY <1>2, <1>t, AddrFields
<1>3. CASE n = 4 * i - 2
  BY <1>3, <1>t, AddrFields
<1>4. CASE n = 4 * i - 1
  BY <1>4, <1>t, AddrFields
<1>5. CASE n = 4 * i
  BY <1>5, <1>t, AddrFields
<1> QED
  BY <1>1, <1>2, <1>3, <1>4, <1>5

LEMMA AddrBefore ==
    ASSUME NEW l, NEW n, n # 1
    PROVE Addr!Before(l, n) = l[n - 1].t
  BY Zenon DEF Addr!Before

(* A file that parses ends with a block. *)
LEMMA AddrParsed ==
    ASSUME AddrTypes, Addr!Parses(Addr!FileLines)
    PROVE Lines = 0 \/ \E i \in 1 .. Len(Granted) : Lines = 4 * i
<1>t. Lines \in Nat /\ Len(Granted) \in Nat /\ Lines <= 4 * Len(Granted)
  BY AddrNats
<1> SUFFICES ASSUME Lines # 0 PROVE \E i \in 1 .. Len(Granted) : Lines = 4 * i
  OBVIOUS
<1>1. Lines \in 1 .. Lines
  BY <1>t
<1>2. Addr!Before(Addr!FileLines, Lines + 1) = "}"
  BY AddrLines DEF Addr!Parses
<1>3. Ends(Lines)
  <2>1. PICK n \in Nat : n = Lines + 1
    BY <1>t
  <2>2. n # 1 /\ n - 1 = Lines
    BY <2>1, <1>t
  <2>3. Addr!Before(Addr!FileLines, n) = Addr!FileLines[n - 1].t
    BY <2>2, AddrBefore
  <2>4. Addr!FileLines[n - 1] = Addr!FileLines[Lines]
    BY <2>2
  <2> QED
    BY <1>2, <2>1, <2>3, <2>4, Zenon DEF Ends
<1> QED
  BY <1>1, <1>3, AddrLine

(* The pair of a key before the end of a block is the block's own. *)
LEMMA AddrPairs ==
    ASSUME AddrTypes, NEW e \in 1 .. Lines, Ends(e)
    PROVE \E i \in 1 .. Len(Granted) :
            /\ e = 4 * i
            /\ Addr!PairOf(Addr!FileLines, e, "hw_address") = Granted[i].vm
            /\ Addr!PairOf(Addr!FileLines, e, "lease") = Granted[i].until
<1>t. Lines \in Nat /\ Len(Granted) \in Nat /\ Lines <= 4 * Len(Granted)
  BY AddrNats
<1>1. PICK i \in 1 .. Len(Granted) : e = 4 * i
  BY AddrLine
<1> DEFINE P(k, n) == LK(n) = k /\ \A m \in n + 1 .. e : ~Ends(m) \/ m = e
<1>2. /\ ~Ends(4 * i - 2) /\ LK(4 * i - 2) = "hw_address"
      /\ LV(4 * i - 2) = Granted[i].vm
      /\ ~Ends(4 * i - 1) /\ LK(4 * i - 1) = "lease"
      /\ LV(4 * i - 1) = Granted[i].until
  BY <1>1, <1>t, AddrFields
<1>3. 4 * i - 2 \in 1 .. e /\ P("hw_address", 4 * i - 2)
  <2>1. \A m \in 4 * i - 2 + 1 .. e : m = 4 * i - 1 \/ m = e
    BY <1>1, <1>t
  <2> QED
    BY SMTT(30), <2>1, <1>2, <1>1, <1>t
<1>4. 4 * i - 1 \in 1 .. e /\ P("lease", 4 * i - 1)
  <2>1. \A m \in 4 * i - 1 + 1 .. e : m = e
    BY <1>1, <1>t
  <2> QED
    BY <2>1, <1>2, <1>1, <1>t
<1>5. ASSUME NEW k \in {"hw_address", "lease"}, NEW n \in 1 .. e, P(k, n)
      PROVE n = IF k = "lease" THEN 4 * i - 1 ELSE 4 * i - 2
  <2>1. n \in 1 .. Lines
    BY <1>t
  <2>2. PICK j \in 1 .. Len(Granted) :
            \/ n = 4 * j - 3 /\ ~Ends(n) /\ LK(n) \notin {"hw_address", "lease"}
            \/ n = 4 * j - 2 /\ ~Ends(n) /\ LK(n) = "hw_address" /\ LV(n) = Granted[j].vm
            \/ n = 4 * j - 1 /\ ~Ends(n) /\ LK(n) = "lease" /\ LV(n) = Granted[j].until
            \/ n = 4 * j /\ Ends(n) /\ LK(n) \notin {"hw_address", "lease"}
    BY <2>1, AddrLine
  <2>3. n = IF k = "lease" THEN 4 * j - 1 ELSE 4 * j - 2
    BY <1>5, <2>2
  <2>4. j <= i
    BY <1>1, <2>3, <1>t
  <2>5. CASE j < i
    <3>1. 4 * j \in n + 1 .. e /\ 4 * j # e /\ 4 * j <= Lines
      BY <2>3, <2>5, <1>1, <1>t
    <3>2. Ends(4 * j)
      BY <3>1, AddrFields
    <3> QED
      BY <3>1, <3>2, <1>5
  <2>6. CASE j = i
    BY <2>3, <2>6
  <2> QED
    BY <2>4, <2>5, <2>6, <1>t
<1>6. Addr!PairOf(Addr!FileLines, e, "hw_address") = Granted[i].vm
  <2> DEFINE c == CHOOSE n \in 1..e : P("hw_address", n)
  <2>1. c \in 1 .. e /\ P("hw_address", c)
    BY <1>3
  <2> HIDE DEF c
  <2>2. c = 4 * i - 2
    <3>1. c = IF "hw_address" = "lease" THEN 4 * i - 1 ELSE 4 * i - 2
      BY <2>1, <1>5
    <3> QED
      BY <3>1
  <2>3. Addr!PairOf(Addr!FileLines, e, "hw_address") = LV(c)
    BY DEF Addr!PairOf, c, Ends, LK, LV
  <2> QED
    BY <2>2, <2>3, <1>2
<1>7. Addr!PairOf(Addr!FileLines, e, "lease") = Granted[i].until
  <2> DEFINE c == CHOOSE n \in 1..e : P("lease", n)
  <2>1. c \in 1 .. e /\ P("lease", c)
    BY <1>4
  <2> HIDE DEF c
  <2>2. c = 4 * i - 1
    BY <2>1, <1>5
  <2>3. Addr!PairOf(Addr!FileLines, e, "lease") = LV(c)
    BY DEF Addr!PairOf, c, Ends, LK, LV
  <2> QED
    BY <2>2, <2>3, <1>2
<1> QED
  BY <1>1, <1>6, <1>7

(* The lease that is found. *)
LEMMA AddrNewest ==
    ASSUME AddrTypes, Addr!Parses(Addr!FileLines), NEW v, NEW now \in Nat,
           NEW x, x = Addr!NewLeases(v, Addr!retrieveRawLeases(Addr!FileLines), now), x # 0
    PROVE \E i \in 1 .. Len(Granted) :
            /\ x \div 4 = i
            /\ Granted[i].vm = v /\ Granted[i].until > now
            /\ \A j \in 1 .. Len(Granted) :
                  Granted[j].vm = v /\ 4 * j <= Lines =>
                      Granted[j].until <= Granted[i].until
<1>t. Lines \in Nat /\ Len(Granted) \in Nat /\ Lines <= 4 * Len(Granted)
  BY AddrNats
<1>g. \A i \in 1 .. Len(Granted) : Granted[i].until \in Nat
  BY AddrNats
<1> DEFINE b == Addr!retrieveRawLeases(Addr!FileLines)
           E == {n \in 1 .. Lines : Ends(n)}
<1>1. DOMAIN b = E
  BY AddrLines DEF Addr!retrieveRawLeases, Ends
<1>2. \A e \in E : /\ b[e].hw_address = Addr!PairOf(Addr!FileLines, e, "hw_address")
                   /\ b[e].lease = Addr!PairOf(Addr!FileLines, e, "lease")
  BY AddrLines DEF Addr!retrieveRawLeases, Ends
<1>3. \A e \in E : \E i \in 1 .. Len(Granted) :
        e = 4 * i /\ b[e].hw_address = Granted[i].vm /\ b[e].lease = Granted[i].until
  BY <1>2, AddrPairs
<1> DEFINE of == {i \in DOMAIN b : b[i].hw_address = v /\ b[i].lease > now}
           best == {i \in of : \A j \in of : b[j].lease <= b[i].lease}
<1>4. x = IF of = {} THEN 0 ELSE CHOOSE i \in best : \A j \in best : i <= j
  BY DEF Addr!NewLeases
<1>5. of # {} /\ of \subseteq E /\ E \subseteq 1 .. Lines
  BY <1>1, <1>4
<1> HIDE DEF b
<1>6. \A e \in of : b[e].lease \in Nat
  BY <1>3, <1>5, <1>g
<1>7. best # {} /\ best \subseteq 1 .. Lines
  <2>1. of \subseteq 1 .. Lines
    BY <1>5
  <2> HIDE DEF of, E
  <2>2. \E i \in of : \A j \in of : b[j].lease <= b[i].lease
    <3> DEFINE u == [i \in of |-> b[i].lease]
    <3>1. \A i \in of : u[i] \in Nat /\ u[i] = b[i].lease
      BY <1>6
    <3> HIDE DEF u
    <3>2. \E i \in of : \A j \in of : u[j] <= u[i]
      BY <3>1, <2>1, <1>5, <1>t, AddrMost
    <3> QED
      BY <3>1, <3>2
  <2> QED
    BY <2>1, <2>2
<1>8. x \in best
  <2> HIDE DEF best, of
  <2>1. (CHOOSE i \in best : \A j \in best : i <= j) \in best
    BY <1>7, <1>t, AddrFirst
  <2> QED
    BY <1>4, <1>5, <2>1
<1>9. PICK i \in 1 .. Len(Granted) :
        x = 4 * i /\ b[x].hw_address = Granted[i].vm /\ b[x].lease = Granted[i].until
  BY <1>8, <1>5, <1>3
<1>10. x \div 4 = i /\ Granted[i].vm = v /\ Granted[i].until > now
  BY <1>8, <1>9
<1>11. ASSUME NEW j \in 1 .. Len(Granted), Granted[j].vm = v, 4 * j <= Lines
       PROVE Granted[j].until <= Granted[i].until
  <2>1. 4 * j \in E
    <3>1. 4 * j \in 1 .. Lines
      BY <1>11, <1>t
    <3>2. Ends(4 * j)
      BY <1>11, AddrFields
    <3> QED
      BY <3>1, <3>2
  <2>2. PICK k \in 1 .. Len(Granted) :
          4 * j = 4 * k /\ b[4 * j].hw_address = Granted[k].vm /\ b[4 * j].lease = Granted[k].until
    BY <2>1, <1>3
  <2>3. k = j
    BY <2>2
  <2>4. b[4 * j].hw_address = v /\ b[4 * j].lease = Granted[j].until
    BY <2>2, <2>3, <1>11
  <2>5. CASE Granted[j].until > now
    <3>1. 4 * j \in of
      BY <2>1, <2>4, <2>5, <1>1
    <3>2. b[4 * j].lease <= b[x].lease
      BY <3>1, <1>8
    <3> QED
      BY <3>2, <2>4, <1>9
  <2>6. CASE ~(Granted[j].until > now)
    BY <2>6, <1>10, <1>g
  <2> QED
    BY <2>5, <2>6
<1> QED
  BY <1>10, <1>11

-----------------------------------------------------------------------------
(* The requests *)

AddrPCs == {"idle", "look", "dial", "missed", "sleep", "found", "notfound", "error", "cancelled"}

AskerOK(r) ==
    /\ r.pc \in AddrPCs /\ r.until \in Nat
    /\ r.pc # "idle" => r.how \in ways /\ r.vm \in VMs
    /\ (r.pc = "found") = (r.got # Addr!NoAddress)
    /\ r.pc = "dial" => r.how = "agent" /\ cwd = r.vm
    /\ r.pc = "found" /\ r.how # "dhcp" => r.got = Addr!AddressOf(r.vm)
    /\ r.pc = "found" /\ r.how = "dhcp" =>
          \E i \in 1 .. Len(leases.granted) :
            /\ r.got = <<"lease", i>>
            /\ leases.granted[i].vm = r.vm /\ leases.granted[i].until > r.at
            /\ \A j \in 1 .. Len(leases.granted) :
                  leases.granted[j].vm = r.vm /\ 4 * j <= r.lines =>
                      leases.granted[j].until <= leases.granted[i].until
    /\ r.pc = "notfound" => r.at >= r.until
    /\ r.pc = "error" => r.how # "agent"

AddrInv == AddrTypes /\ \A a \in Askers : AskerOK(asker[a])

AskerRecord(r) ==
    r = [pc |-> r.pc, how |-> r.how, vm |-> r.vm, until |-> r.until, got |-> r.got, at |-> r.at, lines |-> r.lines]

LEMMA AddrStays ==
    ASSUME NEW r, AskerOK(r), leases'.granted = leases.granted, ways' = ways,
           cwd' = cwd \/ r.pc # "dial"
    PROVE AskerOK(r)'
  BY DEF AskerOK

LEMMA AddrNoAsker ==
    /\ Addr!NoAsker = [pc |-> "idle", how |-> Addr!NoAsker.how, vm |-> Addr!NoAsker.vm, until |-> 0, got |-> Addr!NoAddress, at |-> 0,
                  lines |-> 0]
    /\ Addr!NoAsker.pc = "idle" /\ Addr!NoAsker.until = 0 /\ Addr!NoAsker.got = Addr!NoAddress
  BY Zenon DEF Addr!NoAsker

LEMMA AddrGoes ==
    ASSUME AddrTypes, NEW a \in Askers, NEW ppc, Addr!Goto(a, ppc)
    PROVE /\ asker'[a] = [asker[a] EXCEPT !.pc = ppc]
          /\ AskerRecord(asker'[a])
          /\ \A b \in Askers \ {a} : asker'[b] = asker[b]
          /\ DOMAIN asker' = Askers
<1>1. asker' = [asker EXCEPT ![a] = [asker[a] EXCEPT !.pc = ppc]]
  BY DEF Addr!Goto
<1>2. asker'[a] = [asker[a] EXCEPT !.pc = ppc]
  BY <1>1 DEF AddrTypes
<1>3. AskerRecord(asker'[a])
  <2> DEFINE r == asker[a]
  <2>1. AskerRecord(r)
    BY DEF AddrTypes, AskerRecord
  <2> HIDE DEF r
  <2>2. AskerRecord([r EXCEPT !.pc = ppc])
    BY <2>1 DEF AskerRecord
  <2> QED
    BY <2>2, <1>2 DEF r
<1> QED
  BY <1>1, <1>2, <1>3 DEF AddrTypes

LEMMA AddrDone ==
    ASSUME AddrTypes, NEW a \in Askers, NEW ppc, NEW got, Addr!Done(a, ppc, got)
    PROVE /\ asker'[a] = [pc |-> ppc, how |-> asker[a].how, vm |-> asker[a].vm, until |-> asker[a].until,
                          got |-> got, at |-> clock, lines |-> leases.lines]
          /\ \A b \in Askers \ {a} : asker'[b] = asker[b]
          /\ DOMAIN asker' = Askers
<1> DEFINE s1 == [asker EXCEPT ![a].pc = ppc]
           s2 == [s1 EXCEPT ![a].got = got]
           s3 == [s2 EXCEPT ![a].at = clock]
           s4 == [s3 EXCEPT ![a].lines = leases.lines]
           r == asker[a]
<1>1. asker' = s4
  BY DEF Addr!Done
<1>2. r = [pc |-> r.pc, how |-> r.how, vm |-> r.vm, until |-> r.until, got |-> r.got, at |-> r.at, lines |-> r.lines]
      /\ DOMAIN asker = Askers
  BY DEF AddrTypes
<1>3. /\ s1[a] = [pc |-> ppc, how |-> r.how, vm |-> r.vm, until |-> r.until, got |-> r.got, at |-> r.at, lines |-> r.lines]
      /\ (\A b \in Askers \ {a} : s1[b] = asker[b]) /\ DOMAIN s1 = Askers
  BY <1>2
<1> HIDE DEF s1
<1>4. /\ s2[a] = [pc |-> ppc, how |-> r.how, vm |-> r.vm, until |-> r.until, got |-> got, at |-> r.at, lines |-> r.lines]
      /\ (\A b \in Askers \ {a} : s2[b] = s1[b]) /\ DOMAIN s2 = Askers
  BY <1>3
<1> HIDE DEF s2
<1>5. /\ s3[a] = [pc |-> ppc, how |-> r.how, vm |-> r.vm, until |-> r.until, got |-> got, at |-> clock, lines |-> r.lines]
      /\ (\A b \in Askers \ {a} : s3[b] = s2[b]) /\ DOMAIN s3 = Askers
  BY <1>4
<1> HIDE DEF s3
<1>6. /\ s4[a] = [pc |-> ppc, how |-> r.how, vm |-> r.vm, until |-> r.until, got |-> got, at |-> clock, lines |-> leases.lines]
      /\ (\A b \in Askers \ {a} : s4[b] = s3[b]) /\ DOMAIN s4 = Askers
  BY <1>5
<1> HIDE DEF s4
<1> QED
  BY <1>1, <1>3, <1>4, <1>5, <1>6

(* A step of one request leaves the others as they are. *)
LEMMA AddrOne ==
    ASSUME AddrInv, NEW a \in Askers, UNCHANGED <<leases, arp, agents, clock, ways>>, cwd' \in VMs,
           cwd' = cwd \/ \A b \in Askers : b = a,
           AskerRecord(asker'[a]), AskerOK(asker[a])',
           \A b \in Askers \ {a} : asker'[b] = asker[b], DOMAIN asker' = Askers
    PROVE AddrInv'
<1>1. AddrTypes'
  <2>1. \A b \in Askers : AskerRecord(asker'[b])
    BY DEF AddrInv, AddrTypes, AskerRecord
  <2> QED
    BY <2>1 DEF AddrInv, AddrTypes, AskerRecord
<1>2. ASSUME NEW b \in Askers \ {a} PROVE AskerOK(asker[b])'
  <2>1. AskerOK(asker[b])
    BY DEF AddrInv
  <2>2. cwd' = cwd
    OBVIOUS
  <2>3. AskerOK(asker[b])'
    BY <2>1, <2>2 DEF AskerOK
  <2> QED
    BY <2>3
<1> QED
  BY <1>1, <1>2 DEF AddrInv

LEMMA AddrInitInv == Addr!Init => AddrInv
<1> SUFFICES ASSUME Addr!Init PROVE AddrInv
  OBVIOUS
<1>1. AddrTypes
  <2>0. asker = [a \in Askers |-> Addr!NoAsker]
    BY DEF Addr!Init
  <2>1. \A a \in Askers : AskerRecord(asker[a])
    BY <2>0, AddrNoAsker DEF AskerRecord
  <2>2. PICK granted \in LeaseLists : leases = [granted |-> granted, lines |-> 0]
    BY DEF Addr!Init
  <2>3. granted \in Seq([vm : VMs, until : Nat])
    BY AddrAssumption
  <2> DEFINE S == Seq([vm : VMs, until : Nat])
  <2>4. Len(granted) \in Nat
    BY <2>3
  <2> HIDE DEF S
  <2>5. leases \in [granted : S, lines : Nat] /\ leases.lines <= 4 * Len(leases.granted)
    BY <2>2, <2>3, <2>4 DEF S
  <2>6. <<>> \in Seq(VMs \cup {"garbled", "incomplete"})
    OBVIOUS
  <2> QED
    BY <2>0, <2>1, <2>5, <2>6, AddrAssumption DEF Addr!Init, AddrTypes, AskerRecord, S
<1>2. ASSUME NEW a \in Askers PROVE AskerOK(asker[a])
  <2>1. asker[a] = Addr!NoAsker
    BY DEF Addr!Init
  <2> QED
    BY <2>1, AddrNoAsker DEF AskerOK, AddrPCs
<1> QED
  BY <1>1, <1>2 DEF AddrInv

LEMMA AddrAsks ==
    ASSUME AddrInv, NEW a \in Askers, Addr!Ask(a)
    PROVE AddrInv'
<1>1. PICK v \in VMs, how \in ways, wait \in 0 .. MaxWait :
         asker' = [asker EXCEPT ![a] = [Addr!NoAsker EXCEPT !.pc = "look", !.how = how, !.vm = v, !.until = clock + wait]]
  BY DEF Addr!Ask
<1> DEFINE r == [pc |-> "look", how |-> how, vm |-> v, until |-> clock + wait, got |-> Addr!NoAddress, at |-> Addr!NoAsker.at,
                 lines |-> Addr!NoAsker.lines]
<1>2. [Addr!NoAsker EXCEPT !.pc = "look", !.how = how, !.vm = v, !.until = clock + wait] = r
  <2> DEFINE n == Addr!NoAsker
             n1 == [n EXCEPT !.pc = "look"]
             n2 == [n1 EXCEPT !.how = how]
             n3 == [n2 EXCEPT !.vm = v]
             n4 == [n3 EXCEPT !.until = clock + wait]
  <2>1. n = [pc |-> "idle", how |-> n.how, vm |-> n.vm, until |-> 0, got |-> Addr!NoAddress, at |-> n.at, lines |-> n.lines]
    BY AddrNoAsker
  <2> HIDE DEF n
  <2>2. n1 = [pc |-> "look", how |-> n.how, vm |-> n.vm, until |-> 0, got |-> Addr!NoAddress, at |-> n.at, lines |-> n.lines]
    BY <2>1
  <2> HIDE DEF n1
  <2>3. n2 = [pc |-> "look", how |-> how, vm |-> n.vm, until |-> 0, got |-> Addr!NoAddress, at |-> n.at, lines |-> n.lines]
    BY <2>2
  <2> HIDE DEF n2
  <2>4. n3 = [pc |-> "look", how |-> how, vm |-> v, until |-> 0, got |-> Addr!NoAddress, at |-> n.at, lines |-> n.lines]
    BY <2>3
  <2> HIDE DEF n3
  <2>5. n4 = [pc |-> "look", how |-> how, vm |-> v, until |-> clock + wait, got |-> Addr!NoAddress, at |-> n.at, lines |-> n.lines]
    BY <2>4
  <2> QED
    BY <2>5 DEF n1, n2, n3, n
<1>3. r.pc = "look" /\ r.how = how /\ r.vm = v /\ r.until = clock + wait /\ r.got = Addr!NoAddress /\ AskerRecord(r)
  BY DEF AskerRecord
<1>4. clock \in Nat
  BY AddrAssumption DEF AddrInv, AddrTypes
<1>5. clock + wait \in Nat
  BY <1>4
<1>6. /\ asker'[a] = r /\ (\A b \in Askers \ {a} : asker'[b] = asker[b]) /\ DOMAIN asker' = Askers
  <2> HIDE DEF r
  <2> QED
    BY <1>1, <1>2 DEF AddrInv, AddrTypes
<1> HIDE DEF r
<1>7. UNCHANGED <<leases, arp, agents, cwd, clock, ways>>
  BY DEF Addr!Ask
<1>8. AskerOK(asker[a])'
  BY <1>3, <1>5, <1>6, <1>7 DEF AskerOK, AddrPCs
<1> QED
  BY <1>3, <1>6, <1>7, <1>8, AddrOne DEF AddrInv, AddrTypes

LEMMA AddrGoto ==
    ASSUME AddrInv, NEW a \in Askers, NEW ppc \in {"missed", "sleep"}, Addr!Goto(a, ppc),
           asker[a].pc \in {"look", "dial", "missed"}, UNCHANGED <<leases, arp, agents, cwd, clock, ways>>
    PROVE AddrInv'
<1>1. /\ asker'[a] = [asker[a] EXCEPT !.pc = ppc] /\ AskerRecord(asker'[a])
      /\ (\A b \in Askers \ {a} : asker'[b] = asker[b]) /\ DOMAIN asker' = Askers
  BY AddrGoes DEF AddrInv
<1> DEFINE r == asker[a]
<1>2. AskerRecord(r) /\ AskerOK(r)
  BY DEF AddrInv, AddrTypes, AskerRecord
<1>3. asker'[a].pc = ppc /\ asker'[a].how = r.how /\ asker'[a].vm = r.vm /\ asker'[a].until = r.until /\ asker'[a].got = r.got
  BY <1>1, <1>2 DEF AskerRecord
<1> HIDE DEF r
<1>4. r.pc # "idle" /\ r.pc # "found"
  BY DEF r
<1>5. AskerOK(asker[a])'
  BY <1>2, <1>3, <1>4 DEF AskerOK, AddrPCs
<1> QED
  BY <1>1, <1>5, AddrOne DEF AddrInv, AddrTypes

(* A request is answered. *)
LEMMA AddrAnswers ==
    ASSUME AddrInv, NEW a \in Askers, NEW ppc, NEW got, Addr!Done(a, ppc, got),
           asker[a].pc \in {"look", "dial", "missed", "sleep"}, UNCHANGED <<leases, arp, agents, cwd, clock, ways>>,
           \/ ppc = "error" /\ got = Addr!NoAddress /\ asker[a].how # "agent"
           \/ ppc = "notfound" /\ got = Addr!NoAddress /\ clock >= asker[a].until
           \/ ppc = "cancelled" /\ got = Addr!NoAddress
           \/ ppc = "found" /\ asker[a].how # "dhcp" /\ got = Addr!AddressOf(asker[a].vm)
           \/ /\ ppc = "found" /\ asker[a].how = "dhcp"
              /\ \E i \in 1 .. Len(leases.granted) :
                    /\ got = <<"lease", i>>
                    /\ leases.granted[i].vm = asker[a].vm /\ leases.granted[i].until > clock
                    /\ \A j \in 1 .. Len(leases.granted) :
                          leases.granted[j].vm = asker[a].vm /\ 4 * j <= leases.lines =>
                              leases.granted[j].until <= leases.granted[i].until
    PROVE AddrInv'
<1> DEFINE r == asker[a]
<1>1. /\ asker'[a] = [pc |-> ppc, how |-> r.how, vm |-> r.vm, until |-> r.until, got |-> got, at |-> clock, lines |-> leases.lines]
      /\ (\A b \in Askers \ {a} : asker'[b] = asker[b]) /\ DOMAIN asker' = Askers
  BY AddrDone DEF AddrInv
<1>2. AskerOK(r) /\ r.pc # "idle"
  BY DEF AddrInv
<1>3. /\ asker'[a].pc = ppc /\ asker'[a].how = r.how /\ asker'[a].vm = r.vm /\ asker'[a].until = r.until /\ asker'[a].got = got /\ asker'[a].at = clock
      /\ asker'[a].lines = leases.lines /\ AskerRecord(asker'[a])
  <2> HIDE DEF r
  <2> QED
    BY <1>1 DEF AskerRecord
<1>4. \A v, i : Addr!AddressOf(v) # Addr!NoAddress /\ <<"lease", i>> # Addr!NoAddress
  BY DEF Addr!AddressOf, Addr!NoAddress
<1>5. AskerOK(asker[a])'
  <2>1. asker'[a].until \in Nat /\ asker'[a].how \in ways' /\ asker'[a].vm \in VMs /\ asker'[a].pc \in AddrPCs
    BY <1>2, <1>3 DEF AskerOK, AddrPCs
  <2>2. (asker'[a].pc = "found") = (asker'[a].got # Addr!NoAddress)
    BY <1>3, <1>4
  <2>3. /\ asker'[a].pc # "dial"
        /\ asker'[a].pc = "found" /\ asker'[a].how # "dhcp" => asker'[a].got = Addr!AddressOf(asker'[a].vm)
        /\ asker'[a].pc = "notfound" => asker'[a].at >= asker'[a].until
        /\ asker'[a].pc = "error" => asker'[a].how # "agent"
    BY <1>3
  <2>4. asker'[a].pc = "found" /\ asker'[a].how = "dhcp" =>
          \E i \in 1 .. Len(leases.granted) :
            /\ asker'[a].got = <<"lease", i>>
            /\ leases.granted[i].vm = asker'[a].vm /\ leases.granted[i].until > asker'[a].at
            /\ \A j \in 1 .. Len(leases.granted) :
                  leases.granted[j].vm = asker'[a].vm /\ 4 * j <= asker'[a].lines =>
                      leases.granted[j].until <= leases.granted[i].until
    BY <1>3
  <2> QED
    BY <2>1, <2>2, <2>3, <2>4 DEF AskerOK
<1> QED
  BY <1>1, <1>3, <1>5, AddrOne DEF AddrInv, AddrTypes

LEMMA AddrLeases ==
    ASSUME AddrInv, NEW a \in Askers, Addr!LookInLeases(a)
    PROVE AddrInv'
<1> DEFINE x == Addr!NewLeases(asker[a].vm, Addr!retrieveRawLeases(Addr!FileLines), clock)
<1>0. clock \in Nat
  BY AddrAssumption DEF AddrInv, AddrTypes
<1>u. /\ UNCHANGED <<leases, arp, agents, cwd, clock, ways>> /\ asker[a].pc = "look" /\ asker[a].how = "dhcp"
      /\ IF ~Addr!Parses(Addr!FileLines) THEN Addr!Done(a, "error", Addr!NoAddress)
         ELSE IF x = 0 THEN Addr!Goto(a, "missed") ELSE Addr!Done(a, "found", <<"lease", x \div 4>>)
  BY DEF Addr!LookInLeases
<1> HIDE DEF x
<1>1. CASE ~Addr!Parses(Addr!FileLines)
  <2>1. Addr!Done(a, "error", Addr!NoAddress) /\ asker[a].how # "agent"
    BY <1>1, <1>u
  <2> QED
    BY <2>1, <1>u, AddrAnswers
<1>2. CASE Addr!Parses(Addr!FileLines) /\ x = 0
  <2>1. Addr!Goto(a, "missed")
    BY <1>2, <1>u
  <2> QED
    BY <2>1, <1>u, AddrGoto
<1>3. CASE Addr!Parses(Addr!FileLines) /\ x # 0
  <2>1. Addr!Done(a, "found", <<"lease", x \div 4>>)
    BY <1>3, <1>u
  <2>2. PICK i \in 1 .. Len(Granted) :
            /\ x \div 4 = i
            /\ Granted[i].vm = asker[a].vm /\ Granted[i].until > clock
            /\ \A j \in 1 .. Len(Granted) :
                  Granted[j].vm = asker[a].vm /\ 4 * j <= Lines => Granted[j].until <= Granted[i].until
    <3>1. x = Addr!NewLeases(asker[a].vm, Addr!retrieveRawLeases(Addr!FileLines), clock)
      BY DEF x
    <3> QED
      BY <3>1, <1>3, <1>0, AddrNewest DEF AddrInv
  <2>3. Addr!Done(a, "found", <<"lease", i>>)
    BY <2>1, <2>2
  <2> QED
    BY <2>2, <2>3, <1>u, AddrAnswers DEF Granted, Lines
<1> QED
  BY <1>1, <1>2, <1>3

LEMMA AddrARP ==
    ASSUME AddrInv, NEW a \in Askers, Addr!LookInARP(a)
    PROVE AddrInv'
<1> DEFINE here == {i \in DOMAIN arp : arp[i] \in {asker[a].vm, "garbled"}}
           i == CHOOSE x \in here : \A y \in here : x <= y
<1>u. /\ UNCHANGED <<leases, arp, agents, cwd, clock, ways>> /\ asker[a].pc = "look" /\ asker[a].how = "arp"
      /\ \/ here = {} /\ Addr!Goto(a, "missed")
         \/ here # {} /\ arp[i] = "garbled" /\ Addr!Done(a, "error", Addr!NoAddress)
         \/ here # {} /\ arp[i] # "garbled" /\ Addr!Done(a, "found", Addr!AddressOf(arp[i]))
  BY DEF Addr!LookInARP
<1>1. CASE here = {} /\ Addr!Goto(a, "missed")
  BY <1>1, <1>u, AddrGoto
<1>2. CASE Addr!Done(a, "error", Addr!NoAddress)
  BY <1>2, <1>u, AddrAnswers
<1>3. CASE here # {} /\ arp[i] # "garbled" /\ Addr!Done(a, "found", Addr!AddressOf(arp[i]))
  <2>1. i \in here
    <3>1. Len(arp) \in Nat /\ here \subseteq 1 .. Len(arp)
      BY DEF AddrInv, AddrTypes
    <3> HIDE DEF here
    <3> QED
      BY <3>1, <1>3, AddrFirst
  <2>2. arp[i] = asker[a].vm
    <3> HIDE DEF i
    <3> QED
      BY <2>1, <1>3
  <2>3. Addr!Done(a, "found", Addr!AddressOf(asker[a].vm))
    BY <2>2, <1>3
  <2> QED
    BY <2>3, <1>u, AddrAnswers
<1> QED
  BY <1>1, <1>2, <1>3, <1>u

LEMMA AddrAgent ==
    ASSUME AddrInv, NEW a \in Askers, Addr!Chdir(a) \/ Addr!AskAgent(a)
    PROVE AddrInv'
<1>1. CASE Addr!Chdir(a)
  <2> DEFINE r == asker[a]
  <2>1. /\ asker'[a] = [r EXCEPT !.pc = "dial"] /\ AskerRecord(asker'[a])
        /\ (\A b \in Askers \ {a} : asker'[b] = asker[b]) /\ DOMAIN asker' = Askers
    BY <1>1, AddrGoes DEF AddrInv, Addr!Chdir
  <2>2. AskerRecord(r) /\ AskerOK(r)
    BY DEF AddrInv, AddrTypes, AskerRecord
  <2>3. asker'[a].pc = "dial" /\ asker'[a].how = r.how /\ asker'[a].vm = r.vm /\ asker'[a].until = r.until /\ asker'[a].got = r.got
    BY <2>1, <2>2 DEF AskerRecord
  <2>4. r.pc = "look" /\ r.how = "agent" /\ cwd' = r.vm /\ UNCHANGED <<leases, arp, agents, clock, ways>>
    BY <1>1 DEF Addr!Chdir
  <2> HIDE DEF r
  <2>5. AskerOK(asker[a])'
    BY <2>2, <2>3, <2>4 DEF AskerOK, AddrPCs
  <2>6. cwd' \in VMs
    BY <2>2, <2>4 DEF AskerOK
  <2>7. \A b \in Askers : b = a
    BY <2>2, <2>4, AddrAssumption DEF AskerOK, AddrInv, AddrTypes
  <2> QED
    BY <2>1, <2>4, <2>5, <2>6, <2>7, AddrOne DEF AddrInv, AddrTypes
<1>2. CASE Addr!AskAgent(a)
  <2>1. UNCHANGED <<leases, arp, agents, cwd, clock, ways>> /\ asker[a].pc = "dial"
    BY <1>2 DEF Addr!AskAgent
  <2>2. CASE Addr!Done(a, "found", Addr!AddressOf(cwd))
    <3>1. asker[a].how = "agent" /\ cwd = asker[a].vm
      BY <2>1 DEF AddrInv, AskerOK
    <3>2. Addr!Done(a, "found", Addr!AddressOf(asker[a].vm)) /\ asker[a].how # "dhcp"
      BY <3>1, <2>2
    <3> QED
      BY <3>2, <2>1, AddrAnswers
  <2>3. CASE Addr!Goto(a, "missed")
    BY <2>1, <2>3, AddrGoto
  <2> QED
    BY <1>2, <2>2, <2>3 DEF Addr!AskAgent
<1> QED
  BY <1>1, <1>2

LEMMA AddrWaits ==
    ASSUME AddrInv, NEW a \in Askers, Addr!Missed(a) \/ Addr!ContextDone(a)
    PROVE AddrInv'
<1>1. CASE Addr!Missed(a)
  <2>1. UNCHANGED <<leases, arp, agents, cwd, clock, ways>> /\ asker[a].pc = "missed"
    BY <1>1 DEF Addr!Missed
  <2>2. CASE clock >= asker[a].until /\ Addr!Done(a, "notfound", Addr!NoAddress)
    BY <2>1, <2>2, AddrAnswers
  <2>3. CASE Addr!Goto(a, "sleep")
    BY <2>1, <2>3, AddrGoto
  <2> QED
    BY <1>1, <2>2, <2>3 DEF Addr!Missed
<1>2. CASE Addr!ContextDone(a)
  <2>1. UNCHANGED <<leases, arp, agents, cwd, clock, ways>> /\ asker[a].pc = "sleep" /\ Addr!Done(a, "cancelled", Addr!NoAddress)
    BY <1>2 DEF Addr!ContextDone
  <2> QED
    BY <2>1, AddrAnswers
<1> QED
  BY <1>1, <1>2

LEMMA AddrTicks ==
    ASSUME AddrInv, Addr!SecondPasses
    PROVE AddrInv'
<1>1. UNCHANGED <<leases, arp, agents, cwd, ways>> /\ clock' = clock + 1 /\ clock < MaxTime /\ DOMAIN asker' = Askers
  BY DEF Addr!SecondPasses
<1>2. ASSUME NEW a \in Askers
      PROVE AskerRecord(asker'[a]) /\ AskerOK(asker[a])'
  <2> DEFINE r == asker[a]
  <2>1. AskerRecord(r) /\ AskerOK(r)
    BY DEF AddrInv, AddrTypes, AskerRecord
  <2>2. asker'[a] = IF r.pc = "sleep" THEN [r EXCEPT !.pc = "look"] ELSE r
    BY DEF Addr!SecondPasses
  <2> HIDE DEF r
  <2>3. CASE r.pc = "sleep"
    <3>1. AskerRecord(asker'[a])
      BY <2>1, <2>2, <2>3 DEF AskerRecord
    <3>2. /\ asker'[a].pc = "look" /\ asker'[a].how = r.how /\ asker'[a].vm = r.vm /\ asker'[a].until = r.until
          /\ asker'[a].got = r.got
      BY <2>1, <2>2, <2>3 DEF AskerRecord
    <3> QED
      BY <2>1, <2>3, <3>1, <3>2, <1>1 DEF AskerOK, AddrPCs
  <2>4. CASE r.pc # "sleep"
    <3>1. asker'[a] = r
      BY <2>2, <2>4
    <3> QED
      BY <2>1, <3>1, <1>1 DEF AskerOK
  <2> QED
    BY <2>3, <2>4
<1>3. AddrTypes'
  BY <1>1, <1>2, AddrAssumption DEF AddrInv, AddrTypes, AskerRecord
<1> QED
  BY <1>2, <1>3 DEF AddrInv

LEMMA AddrOutside ==
    ASSUME AddrInv, Addr!WriteLeases \/ Addr!CacheChanges \/ Addr!AgentStarts
    PROVE AddrInv'
<1>1. UNCHANGED <<cwd, clock, asker, ways>> /\ leases'.granted = leases.granted
  BY DEF AddrInv, AddrTypes, Addr!WriteLeases, Addr!CacheChanges, Addr!AgentStarts
<1>2. /\ leases' \in [granted : Seq([vm : VMs, until : Nat]), lines : Nat]
      /\ leases'.lines <= 4 * Len(leases'.granted)
      /\ arp' \in Seq(VMs \cup {"garbled", "incomplete"}) /\ agents' \subseteq VMs
  <2> DEFINE S == Seq([vm : VMs, until : Nat])
  <2>1. leases \in [granted : S, lines : Nat] /\ leases.lines <= 4 * Len(leases.granted)
    BY DEF AddrInv, AddrTypes
  <2>2. Len(leases.granted) \in Nat
    BY AddrNats DEF AddrInv, Granted
  <2> HIDE DEF S
  <2>3. CASE Addr!WriteLeases
    <3>1. leases' = [granted |-> leases.granted, lines |-> leases.lines + 1] /\ leases.lines < 4 * Len(leases.granted)
      BY <2>1, <2>3 DEF Addr!WriteLeases
    <3>2. leases' \in [granted : S, lines : Nat] /\ leases'.lines <= 4 * Len(leases'.granted)
      BY <3>1, <2>1, <2>2
    <3> QED
      BY <3>2, <2>3 DEF Addr!WriteLeases, AddrInv, AddrTypes, S
  <2>4. CASE Addr!CacheChanges
    <3>1. arp' \in Seq(VMs \cup {"garbled", "incomplete"})
      BY <2>4, AddrAssumption DEF Addr!CacheChanges
    <3> QED
      BY <3>1, <2>4 DEF Addr!CacheChanges, AddrInv, AddrTypes
  <2>5. CASE Addr!AgentStarts
    BY <2>5 DEF Addr!AgentStarts, AddrInv, AddrTypes
  <2> QED
    BY <2>3, <2>4, <2>5
<1>3. AddrTypes'
  BY <1>1, <1>2 DEF AddrInv, AddrTypes
<1>4. ASSUME NEW a \in Askers PROVE AskerOK(asker[a])'
  <2>1. AskerOK(asker[a])
    BY DEF AddrInv
  <2> QED
    BY <2>1, <1>1 DEF AskerOK
<1> QED
  BY <1>3, <1>4 DEF AddrInv

LEMMA AddrNextInv == AddrInv /\ Addr!Next => AddrInv'
<1> SUFFICES ASSUME AddrInv, Addr!Next PROVE AddrInv'
  OBVIOUS
<1>1. CASE \E a \in Askers : Addr!Ask(a) \/ Addr!Looks(a) \/ Addr!ContextDone(a)
  <2>1. PICK a \in Askers : Addr!Ask(a) \/ Addr!Looks(a) \/ Addr!ContextDone(a)
    BY <1>1
  <2> QED
    BY <2>1, AddrAsks, AddrLeases, AddrARP, AddrAgent, AddrWaits DEF Addr!Looks
<1>2. CASE Addr!SecondPasses
  BY <1>2, AddrTicks
<1>3. CASE Addr!WriteLeases \/ Addr!CacheChanges \/ Addr!AgentStarts
  BY <1>3, AddrOutside
<1> QED
  BY <1>1, <1>2, <1>3 DEF Addr!Next

LEMMA AddrStutterInv == AddrInv /\ UNCHANGED Addr!addrvars => AddrInv'
<1> SUFFICES ASSUME AddrInv, UNCHANGED Addr!addrvars PROVE AddrInv'
  OBVIOUS
<1>1. UNCHANGED <<leases, arp, agents, cwd, clock, asker, ways>>
  BY DEF Addr!addrvars
<1>2. AddrTypes'
  BY <1>1 DEF AddrInv, AddrTypes
<1>3. ASSUME NEW a \in Askers PROVE AskerOK(asker[a])'
  <2>1. AskerOK(asker[a])
    BY DEF AddrInv
  <2> QED
    BY <2>1, <1>1 DEF AskerOK
<1> QED
  BY <1>2, <1>3 DEF AddrInv

LEMMA AddrKept == AddrInv => Addr!AddrSafe
<1> SUFFICES ASSUME AddrInv PROVE Addr!AddrSafe
  OBVIOUS
<1>0. \A a \in Askers : AskerOK(asker[a])
  BY DEF AddrInv
<1>1. Addr!TypeOK
  <2>1. leases.lines \in 0 .. 4 * Len(leases.granted)
    BY AddrNats DEF AddrInv, Granted, Lines
  <2>2. agents \subseteq VMs /\ cwd \in VMs /\ clock \in 0..MaxTime /\ ways \in Ways
    BY DEF AddrInv, AddrTypes
  <2> QED
    BY <1>0, <2>1, <2>2 DEF Addr!TypeOK, AskerOK, AddrPCs
<1>2. Addr!LeaseIsNewest
  <2> SUFFICES ASSUME NEW a \in Askers, asker[a].pc = "found" /\ asker[a].how = "dhcp"
               PROVE LET i == asker[a].got[2] IN
                     /\ i <= Len(leases.granted) /\ leases.granted[i].vm = asker[a].vm
                     /\ leases.granted[i].until > asker[a].at
                     /\ \A j \in DOMAIN leases.granted :
                           leases.granted[j].vm = asker[a].vm /\ 4 * j <= asker[a].lines =>
                               leases.granted[j].until <= leases.granted[i].until
    BY DEF Addr!LeaseIsNewest
  <2>1. PICK i \in 1 .. Len(leases.granted) :
            /\ asker[a].got = <<"lease", i>>
            /\ leases.granted[i].vm = asker[a].vm /\ leases.granted[i].until > asker[a].at
            /\ \A j \in 1 .. Len(leases.granted) :
                  leases.granted[j].vm = asker[a].vm /\ 4 * j <= asker[a].lines =>
                      leases.granted[j].until <= leases.granted[i].until
    BY <1>0 DEF AskerOK
  <2>2. asker[a].got[2] = i
    BY <2>1
  <2>3. DOMAIN leases.granted = 1 .. Len(leases.granted) /\ Len(leases.granted) \in Nat
    <3> DEFINE S == [vm : VMs, until : Nat]
    <3>1. leases.granted \in Seq(S)
      BY DEF AddrInv, AddrTypes
    <3> HIDE DEF S
    <3> QED
      BY <3>1
  <2>4. i <= Len(leases.granted) /\ leases.granted[i].vm = asker[a].vm /\ leases.granted[i].until > asker[a].at
    BY <2>1, <2>3
  <2>5. ASSUME NEW j \in DOMAIN leases.granted, leases.granted[j].vm = asker[a].vm /\ 4 * j <= asker[a].lines
        PROVE leases.granted[j].until <= leases.granted[i].until
    BY <2>1, <2>3, <2>5
  <2> QED
    BY <2>2, <2>4, <2>5, Zenon
<1>3. Addr!AddressOfMachine
  BY <1>0 DEF Addr!AddressOfMachine, AskerOK
<1>4. Addr!WaitsLongEnough
  BY <1>0 DEF Addr!WaitsLongEnough, AskerOK
<1> QED
  BY <1>1, <1>2, <1>3, <1>4 DEF Addr!AddrSafe
-----------------------------------------------------------------------------
(* The machine's invariant *)
RegionOK(r) == r = [at |-> r.at, exec |-> r.exec]

GMHv ==
    /\ hv = [vm |-> hv.vm, gic |-> hv.gic, redist |-> hv.redist, cpus |-> hv.cpus, clash |-> hv.clash]
    /\ hv.clash = FALSE /\ hv.vm \in BOOLEAN /\ hv.cpus \in {0, 1} /\ (hv.cpus = 1 => hv.vm)

GMShape ==
    /\ GMHv
    /\ cmd = [kind |-> cmd.kind, phase |-> cmd.phase, i |-> cmd.i, out |-> cmd.out, first |-> cmd.first,
              program |-> cmd.program, disks |-> cmd.disks, fresh |-> cmd.fresh]
    /\ ProgramOK(cmd.program) /\ cmd.disks \in BOOLEAN /\ (cmd.kind = "test" => cmd.program[1].op = "store")
    /\ cmd.fresh \in BOOLEAN
    /\ cpu = [pc |-> cpu.pc, x |-> cpu.x, cnthctl |-> cpu.cnthctl, simd |-> cpu.simd]
    /\ cpu.pc \in 0 .. Len(cmd.program)
    /\ watch = [exits |-> watch.exits, dev |-> watch.dev, pc |-> watch.pc, same |-> watch.same,
                samples |-> watch.samples, seen |-> watch.seen]
    /\ DOMAIN regions \subseteq {"rom", "ram"}
    /\ \A r \in DOMAIN regions : RegionOK(regions[r])

GMWatch ==
    /\ watch.exits \in 0 .. MaxExits + 1 /\ watch.samples \in Seq(Nat) /\ watch.pc \in Nat
    /\ watch.same \in 0 .. Len(watch.samples) /\ Len(watch.samples) <= StuckSamples + 1
    /\ \A i \in 0 .. watch.same - 1 : watch.samples[Len(watch.samples) - i] = watch.pc
    /\ cmd.out = "hung" => watch.same >= StuckSamples

(* What the first steps of setupGuest have made, those before the i-th. *)
GMBuilt(i, kind) ==
    /\ (i > 1 => hv.vm = TRUE) /\ (i <= 1 => hv.vm = FALSE)
    /\ kind = "test" => hv.cpus = (IF i > 3 THEN 1 ELSE 0) /\ (i > 3 => cpu.pc = 1)
    /\ kind # "test" =>
          /\ hv.cpus = IF i > 6 THEN 1 ELSE 0
          /\ i > 6 => cpu.pc = 1
          /\ DOMAIN regions = IF i > 5 THEN {"rom", "ram"} ELSE IF i > 4 THEN {"rom"} ELSE {}

GMSetup ==
    /\ cmd.out = "none" /\ cmd.first = "none" /\ trail = <<>>
    /\ cmd.i \in 1 .. IF cmd.kind = "test" THEN 3 ELSE 7
    /\ GMBuilt(cmd.i, cmd.kind)

GMSaved ==
    /\ cmd.kind = "snapshot"
    /\ saved.cpu = [pc |-> saved.cpu.pc, x |-> saved.cpu.x, cnthctl |-> saved.cpu.cnthctl, simd |-> saved.cpu.simd]
    /\ saved.cpu.pc \in 1 .. Len(cmd.program)
    /\ DOMAIN saved.regions = {"rom", "ram"}
    /\ \A r \in DOMAIN saved.regions : RegionOK(saved.regions[r])

GMSame ==
    /\ DOMAIN regions = DOMAIN saved.regions
    /\ \A r \in DOMAIN regions : regions[r].at = saved.regions[r].at

(* What the first steps of RestoreMachine have made again. *)
GMRebuilt(i) ==
    /\ (i > 1 => hv.vm = TRUE) /\ (i <= 1 => hv.vm = FALSE) /\ hv.cpus = IF i > 4 THEN 1 ELSE 0
    /\ i > 3 => GMSame
    /\ i > 5 => hv.gic = saved.gic /\ hv.redist = saved.redist
    /\ i > 6 => cpu = saved.cpu

GMRestore ==
    /\ cmd.out = "none" /\ cmd.i \in 1 .. 6
    /\ GMRebuilt(cmd.i)

GMRun ==
    /\ hv.vm /\ cpu.pc \in 1 .. Len(cmd.program)
    /\ cmd.kind # "test" => DOMAIN regions = {"rom", "ram"}
    /\ cmd.phase = "run" => cmd.first = "none"
    /\ cmd.out = "none" =>
          /\ cmd.kind = "test" => watch.exits = 0 /\ cpu.pc = 1
          /\ cmd.kind # "test" => watch.exits <= MaxExits
          /\ watch.same < StuckSamples

GMPhases == {"setup", "run", "close", "restore", "rerun", "ended"}

GMPhase ==
    /\ cmd.phase \in GMPhases
    /\ cmd.phase = "setup" => GMSetup
    /\ cmd.phase \in {"run", "rerun"} => GMRun
    /\ cmd.phase \in {"close", "restore", "rerun"} => GMSaved
    /\ cmd.phase = "restore" => GMRestore
    /\ cmd.phase = "close" => cmd.first = cmd.out
    /\ cmd.phase = "ended" => ~hv.vm /\ regions = <<>>

TrailOK ==
    \/ trail = <<>>
    \/ \E p \in Nat : trail = <<p>>
    \/ \E p, q \in Nat : trail = <<p, q>>

(* Where the guest goes on: at its program counter, or at the saved one. *)
Where == IF cmd.phase \in {"close", "restore"} THEN saved.cpu.pc ELSE cpu.pc
Completed ==
    /\ trail # <<>> /\ cmd.phase # "ended" /\ cmd.first # "stopped" /\ cmd.out # "stopped"
    /\ ~(cmd.kind = "step" /\ cmd.out = "error")

GMTrail ==
    /\ TrailOK /\ GM!EachOnce
    /\ Completed => Where = GM!Moved(trail[Len(trail)])

GMInv ==
    /\ GMShape /\ GMWatch /\ GMPhase /\ GMTrail
    /\ GM!TreeReached /\ GM!RestoredAsSaved

-----------------------------------------------------------------------------
(* Where the guest's accesses go *)
GMNodes == {"pl011", "fwcfg", "virtio0", "virtio1", "pl031", "redist", "flash", "pcie"}

LEMMA GMTree ==
    /\ DOMAIN GM!buildDTB = GMNodes
    /\ GM!buildDTB["pl011"] = 294912 /\ GM!buildDTB["fwcfg"] = 295168 /\ GM!buildDTB["virtio0"] = 327680
    /\ GM!buildDTB["virtio1"] = 327681 /\ GM!buildDTB["pl031"] = 295040 /\ GM!buildDTB["redist"] = 458752
    /\ GM!buildDTB["flash"] = 131072 /\ GM!buildDTB["pcie"] = 537395200
  BY DEF GM!buildDTB, GMNodes

GMIn(i, addr, d) ==
    \/ i = 1 /\ addr >= 294912 /\ addr < 294920
    \/ i = 2 /\ addr >= 131072 /\ addr < 262144
    \/ i = 3 /\ addr >= 295168 /\ addr < 295169
    \/ i = 4 /\ addr >= 458752 /\ addr < 459008
    \/ i = 5 /\ addr >= 327680 /\ addr < 327681 /\ d
    \/ i = 6 /\ addr >= 537395200 /\ addr < 537395208 /\ d
    \/ i = 7 /\ addr >= 537395200 /\ addr < 537919488

LEMMA GMRanges ==
    ASSUME NEW d \in BOOLEAN, NEW addr \in Nat, NEW i \in 1 .. 7
    PROVE /\ (GM!Ranges(d)[i].on /\ addr >= GM!Ranges(d)[i].from /\ addr < GM!Ranges(d)[i].from + GM!Ranges(d)[i].size) <=> GMIn(i, addr, d)
          /\ DOMAIN GM!Ranges(d) = 1 .. 7
          /\ GM!Ranges(d)[1].dev = "uart" /\ GM!Ranges(d)[2].dev = "flash" /\ GM!Ranges(d)[3].dev = "fwcfg"
          /\ GM!Ranges(d)[4].dev = "gic" /\ GM!Ranges(d)[5].dev = "virtioblk" /\ GM!Ranges(d)[6].dev = "nvme"
          /\ GM!Ranges(d)[7].dev = "ecam"
<1>1. /\ DOMAIN GM!Ranges(d) = 1 .. 7
      /\ GM!Ranges(d)[1].dev = "uart" /\ GM!Ranges(d)[2].dev = "flash" /\ GM!Ranges(d)[3].dev = "fwcfg"
      /\ GM!Ranges(d)[4].dev = "gic" /\ GM!Ranges(d)[5].dev = "virtioblk" /\ GM!Ranges(d)[6].dev = "nvme"
      /\ GM!Ranges(d)[7].dev = "ecam"
  BY DEF GM!Ranges
<1>2. i = 1 \/ i = 2 \/ i = 3 \/ i = 4 \/ i = 5 \/ i = 6 \/ i = 7
  OBVIOUS
<1>3. (GM!Ranges(d)[i].on /\ addr >= GM!Ranges(d)[i].from /\ addr < GM!Ranges(d)[i].from + GM!Ranges(d)[i].size) <=> GMIn(i, addr, d)
  BY <1>2 DEF GM!Ranges, GMIn
<1> QED
  BY <1>1, <1>3

LEMMA GMFirst ==
    ASSUME NEW d \in BOOLEAN, NEW addr \in Nat, NEW k \in 1 .. 7, GMIn(k, addr, d),
           \A i \in 1 .. 7 : GMIn(i, addr, d) => k <= i
    PROVE GM!DeviceAt(addr, d) = GM!Ranges(d)[k].dev
<1> DEFINE in(r) == r.on /\ addr >= r.from /\ addr < r.from + r.size
           hits == {i \in DOMAIN GM!Ranges(d) : in(GM!Ranges(d)[i])}
           c == CHOOSE i \in hits : \A j \in hits : i <= j
<1>1. hits = {i \in 1 .. 7 : GMIn(i, addr, d)}
  BY GMRanges
<1>2. GM!DeviceAt(addr, d) = IF hits = {} THEN "unknown" ELSE GM!Ranges(d)[c].dev
  BY DEF GM!DeviceAt
<1> HIDE DEF hits
<1>3. k \in hits /\ \A j \in hits : k <= j
  BY <1>1
<1>4. c \in hits /\ \A j \in hits : c <= j
  BY <1>3
<1> HIDE DEF c
<1>5. c = k
  BY <1>1, <1>3, <1>4
<1> QED
  BY <1>2, <1>3, <1>5

LEMMA GMNone ==
    ASSUME NEW d \in BOOLEAN, NEW addr \in Nat, \A i \in 1 .. 7 : ~GMIn(i, addr, d)
    PROVE GM!DeviceAt(addr, d) = "unknown"
<1> DEFINE in(r) == r.on /\ addr >= r.from /\ addr < r.from + r.size
           hits == {i \in DOMAIN GM!Ranges(d) : in(GM!Ranges(d)[i])}
<1>1. hits = {i \in 1 .. 7 : GMIn(i, addr, d)}
  BY GMRanges
<1>2. hits = {}
  BY <1>1
<1> QED
  BY <1>2 DEF GM!DeviceAt

(* Every node of the device tree leads to the device behind it. *)
LEMMA GMRoutes ==
    ASSUME NEW node \in DOMAIN GM!buildDTB, NEW d \in BOOLEAN
    PROVE GM!DeviceAt(GM!buildDTB[node], d) = GM!Behind(node, d)
<1>1. CASE node = "pl011"
  <2>1. \A i \in 1 .. 7 : GMIn(i, 294912, d) <=> i = 1
    BY SMT DEF GMIn
  <2>2. GM!DeviceAt(294912, d) = "uart"
    BY <2>1, GMFirst, GMRanges, SMT
  <2> QED
    BY <1>1, <2>2, GMTree, SMT DEF GM!Behind
<1>2. CASE node = "fwcfg"
  <2>1. \A i \in 1 .. 7 : GMIn(i, 295168, d) <=> i = 3
    BY SMT DEF GMIn
  <2>2. GM!DeviceAt(295168, d) = "fwcfg"
    BY <2>1, GMFirst, GMRanges, SMT
  <2> QED
    BY <1>2, <2>2, GMTree, SMT DEF GM!Behind
<1>3. CASE node = "virtio0"
  <2>1. CASE d
    <3>1. \A i \in 1 .. 7 : GMIn(i, 327680, d) <=> i = 5
      BY <2>1, SMT DEF GMIn
    <3>2. GM!DeviceAt(327680, d) = "virtioblk"
      BY <3>1, GMFirst, GMRanges, SMT
    <3>3. GM!Behind(node, d) = "virtioblk"
      BY <1>3, <2>1, Zenon DEF GM!Behind
    <3> QED
      BY <1>3, <3>2, <3>3, GMTree, SMT
  <2>2. CASE ~d
    <3>1. \A i \in 1 .. 7 : ~GMIn(i, 327680, d)
      BY <2>2, SMT DEF GMIn
    <3>2. GM!DeviceAt(327680, d) = "unknown"
      BY <3>1, GMNone, SMT
    <3> QED
      BY <1>3, <2>2, <3>2, GMTree, SMT DEF GM!Behind
  <2> QED
    BY <2>1, <2>2, SMT
<1>4. CASE node = "virtio1"
  <2>1. \A i \in 1 .. 7 : ~GMIn(i, 327681, d)
    BY SMT DEF GMIn
  <2>2. GM!DeviceAt(327681, d) = "unknown"
    BY <2>1, GMNone, SMT
  <2> QED
    BY <1>4, <2>2, GMTree, SMT DEF GM!Behind
<1>5. CASE node = "pl031"
  <2>1. \A i \in 1 .. 7 : ~GMIn(i, 295040, d)
    BY SMT DEF GMIn
  <2>2. GM!DeviceAt(295040, d) = "unknown"
    BY <2>1, GMNone, SMT
  <2> QED
    BY <1>5, <2>2, GMTree, SMT DEF GM!Behind
<1>6. CASE node = "redist"
  <2>1. \A i \in 1 .. 7 : GMIn(i, 458752, d) <=> i = 4
    BY SMT DEF GMIn
  <2>2. GM!DeviceAt(458752, d) = "gic"
    BY <2>1, GMFirst, GMRanges, SMT
  <2> QED
    BY <1>6, <2>2, GMTree, SMT DEF GM!Behind
<1>7. CASE node = "flash"
  <2>1. \A i \in 1 .. 7 : GMIn(i, 131072, d) <=> i = 2
    BY SMT DEF GMIn
  <2>2. GM!DeviceAt(131072, d) = "flash"
    BY <2>1, GMFirst, GMRanges, SMT
  <2> QED
    BY <1>7, <2>2, GMTree, SMT DEF GM!Behind
<1>8. CASE node = "pcie"
  <2>1. CASE d
    <3>1. GMIn(6, 537395200, d) /\ \A i \in 1 .. 7 : GMIn(i, 537395200, d) => 6 <= i
      BY <2>1, SMT DEF GMIn
    <3>2. GM!DeviceAt(537395200, d) = "nvme"
      BY <3>1, GMFirst, GMRanges, SMT
    <3>3. GM!Behind(node, d) = "nvme"
      BY <1>8, <2>1, Zenon DEF GM!Behind
    <3> QED
      BY <1>8, <3>2, <3>3, GMTree, SMT
  <2>2. CASE ~d
    <3>1. GMIn(7, 537395200, d) /\ \A i \in 1 .. 7 : GMIn(i, 537395200, d) => 7 <= i
      BY <2>2, SMT DEF GMIn
    <3>2. GM!DeviceAt(537395200, d) = "ecam"
      BY <3>1, GMFirst, GMRanges, SMT
    <3> QED
      BY <1>8, <2>2, <3>2, GMTree, SMT DEF GM!Behind
  <2> QED
    BY <2>1, <2>2, SMT
<1> QED
  BY <1>1, <1>2, <1>3, <1>4, <1>5, <1>6, <1>7, <1>8, GMTree, SMT DEF GMNodes

-----------------------------------------------------------------------------
(* A step of the guest *)

LEMMA GMLog ==
    ASSUME TrailOK, NEW p \in Nat, trail' = GM!Log(p)
    PROVE /\ TrailOK' /\ trail' # <<>> /\ trail'[Len(trail')] = p
          /\ Len(trail') = 2 => trail # <<>> /\ trail'[1] = trail[Len(trail)] /\ trail'[2] = p
<1>1. CASE trail = <<>>
  <2>1. trail' = <<p>>
    BY <1>1 DEF GM!Log
  <2> QED
    BY <2>1 DEF TrailOK
<1>2. CASE \E q \in Nat : trail = <<q>>
  <2>1. PICK q \in Nat : trail = <<q>>
    BY <1>2
  <2>2. trail[Len(trail)] = q /\ trail # <<>>
    BY <2>1
  <2>3. trail' = <<q, p>>
    BY <2>2 DEF GM!Log
  <2> QED
    BY <2>2, <2>3 DEF TrailOK
<1>3. CASE \E q, r \in Nat : trail = <<q, r>>
  <2>1. PICK q \in Nat, r \in Nat : trail = <<q, r>>
    BY <1>3
  <2>2. trail[Len(trail)] = r /\ trail # <<>>
    BY <2>1
  <2>3. trail' = <<r, p>>
    BY <2>2 DEF GM!Log
  <2> QED
    BY <2>2, <2>3 DEF TrailOK
<1> QED
  BY <1>1, <1>2, <1>3 DEF TrailOK

LEMMA GMCmd ==
    ASSUME GMShape, NEW o, cmd' = [cmd EXCEPT !.out = o, !.fresh = FALSE]
    PROVE cmd' = [kind |-> cmd.kind, phase |-> cmd.phase, i |-> cmd.i, out |-> o, first |-> cmd.first,
                  program |-> cmd.program, disks |-> cmd.disks, fresh |-> FALSE]
<1> DEFINE c == [cmd EXCEPT !.out = o]
<1>1. c = [kind |-> cmd.kind, phase |-> cmd.phase, i |-> cmd.i, out |-> o, first |-> cmd.first,
           program |-> cmd.program, disks |-> cmd.disks, fresh |-> cmd.fresh]
  BY DEF GMShape
<1> HIDE DEF c
<1>2. \A f : [c EXCEPT !.fresh = f] =
          [kind |-> cmd.kind, phase |-> cmd.phase, i |-> cmd.i, out |-> o, first |-> cmd.first,
           program |-> cmd.program, disks |-> cmd.disks, fresh |-> f]
  BY <1>1
<1>3. [c EXCEPT !.fresh = FALSE] =
          [kind |-> cmd.kind, phase |-> cmd.phase, i |-> cmd.i, out |-> o, first |-> cmd.first,
           program |-> cmd.program, disks |-> cmd.disks, fresh |-> FALSE]
  BY <1>2, Zenon
<1> QED
  BY <1>3 DEF c

LEMMA GMRunStep ==
    ASSUME GMInv, GM!Running, NEW o,
           cmd' = [cmd EXCEPT !.out = o, !.fresh = FALSE],
           saved' = saved,
           hv' = [vm |-> hv.vm, gic |-> hv'.gic, redist |-> hv'.redist, cpus |-> hv.cpus, clash |-> hv.clash],
           cpu' = [pc |-> cpu'.pc, x |-> cpu'.x, cnthctl |-> cpu'.cnthctl, simd |-> cpu'.simd],
           cpu'.pc \in 1 .. Len(cmd.program),
           DOMAIN regions' = DOMAIN regions, \A r \in DOMAIN regions' : RegionOK(regions'[r]),
           watch' = [exits |-> watch'.exits, dev |-> watch'.dev, pc |-> watch'.pc, same |-> watch'.same,
                     samples |-> watch'.samples, seen |-> watch'.seen],
           GMWatch',
           o = "none" => /\ cmd.kind # "test"
                         /\ watch'.exits <= MaxExits /\ watch'.same < StuckSamples,
           \/ trail' = trail /\ cpu'.pc = cpu.pc
           \/ trail' = GM!Log(cpu.pc) /\ cpu'.pc = GM!Moved(cpu.pc)
           \/ trail' = GM!Log(cpu.pc) /\ cpu'.pc = cpu.pc /\ (o = "stopped" \/ (cmd.kind = "step" /\ o = "error")),
           GM!TreeReached'
    PROVE GMInv'
<1>1. cmd' = [kind |-> cmd.kind, phase |-> cmd.phase, i |-> cmd.i, out |-> o, first |-> cmd.first,
                  program |-> cmd.program, disks |-> cmd.disks, fresh |-> FALSE]
  BY GMCmd DEF GMInv
<1>2. /\ cmd'.kind = cmd.kind /\ cmd'.phase = cmd.phase /\ cmd'.out = o /\ cmd'.first = cmd.first
      /\ cmd'.program = cmd.program /\ cmd'.disks = cmd.disks /\ cmd'.fresh = FALSE /\ cmd'.i = cmd.i
  BY <1>1
<1>3. /\ cmd.phase \in {"run", "rerun"} /\ cmd.out = "none" /\ hv.vm /\ hv.clash = FALSE
      /\ (cmd.kind # "test" => DOMAIN regions = {"rom", "ram"})
      /\ (cmd.phase = "run" => cmd.first = "none") /\ cpu.pc \in 1 .. Len(cmd.program)
      /\ Len(cmd.program) \in Nat /\ cpu.pc \in Nat
  BY DEF GM!Running, GM!InRun, GMInv, GMShape, GMHv, GMPhase, GMRun, ProgramOK
<1>h. /\ hv'.vm = hv.vm /\ hv'.cpus = hv.cpus /\ hv'.clash = FALSE
  <2>1. hv' = [vm |-> hv.vm, gic |-> hv'.gic, redist |-> hv'.redist, cpus |-> hv.cpus, clash |-> hv.clash]
    OBVIOUS
  <2>2. hv'.vm = hv.vm /\ hv'.cpus = hv.cpus /\ hv'.clash = hv.clash
    BY <2>1
  <2> QED
    BY <2>2, <1>3
<1>4. GMShape'
  <2>1. hv' = [vm |-> hv'.vm, gic |-> hv'.gic, redist |-> hv'.redist, cpus |-> hv'.cpus, clash |-> hv'.clash]
    BY <1>h
  <2>2. hv'.vm \in BOOLEAN /\ hv'.cpus \in {0, 1} /\ (hv'.cpus = 1 => hv'.vm)
    BY <1>h DEF GMInv, GMShape, GMHv
  <2>3. /\ cmd' = [kind |-> cmd'.kind, phase |-> cmd'.phase, i |-> cmd'.i, out |-> cmd'.out, first |-> cmd'.first,
              program |-> cmd'.program, disks |-> cmd'.disks, fresh |-> cmd'.fresh]
    BY <1>1, <1>2
  <2>4. /\ ProgramOK(cmd'.program) /\ cmd'.disks \in BOOLEAN
        /\ (cmd'.kind = "test" => cmd'.program[1].op = "store") /\ cmd'.fresh \in BOOLEAN
    BY <1>2 DEF GMInv, GMShape
  <2>5. cpu'.pc \in 0 .. Len(cmd'.program)
    BY <1>2, <1>3
  <2>6. DOMAIN regions' \subseteq {"rom", "ram"}
    BY DEF GMInv, GMShape
  <2> QED
    BY <2>1, <2>2, <2>3, <2>4, <2>5, <2>6, <1>h DEF GMShape, GMHv
<1>5. GMPhase'
  <2>1. GMRun'
    BY <1>2, <1>3, <1>h DEF GMRun
  <2>2. cmd.phase = "rerun" => GMSaved'
    BY <1>2 DEF GMInv, GMPhase, GMSaved
  <2> QED
    BY <1>2, <1>3, <2>1, <2>2 DEF GMPhase, GMPhases
<1>6. GMTrail'
  <2>1. TrailOK /\ GM!EachOnce /\ (Completed => cpu.pc = GM!Moved(trail[Len(trail)]))
    BY <1>3 DEF GMInv, GMTrail, Where
  <2>3. Completed' => trail' # <<>> /\ o # "stopped" /\ ~(cmd.kind = "step" /\ o = "error") /\ cmd.first # "stopped"
    BY <1>2 DEF Completed
  <2>4. trail # <<>> /\ cmd.first # "stopped" => Completed
    BY <1>3 DEF Completed
  <2>5. Where' = cpu'.pc
    BY <1>2, <1>3 DEF Where
  <2>6. CASE trail' = trail /\ cpu'.pc = cpu.pc
    <3>1. TrailOK' /\ GM!EachOnce'
      BY <2>1, <2>6, <1>2 DEF TrailOK, GM!EachOnce, GM!Moved
    <3>2. Completed' => cpu'.pc = GM!Moved(trail'[Len(trail')])
      BY <2>1, <2>3, <2>4, <2>6
    <3>3. (Completed => Where = GM!Moved(trail[Len(trail)]))'
      BY <3>2, <2>5, <1>2 DEF GM!Moved
    <3> QED
      BY <3>1, <3>3 DEF GMTrail
  <2>7. CASE trail' = GM!Log(cpu.pc)
    <3>1. /\ TrailOK' /\ trail' # <<>> /\ trail'[Len(trail')] = cpu.pc
          /\ Len(trail') = 2 => trail # <<>> /\ trail'[1] = trail[Len(trail)] /\ trail'[2] = cpu.pc
      BY <2>1, <2>7, <1>3, GMLog
    <3>2. GM!EachOnce'
      <4>1. Len(trail') = 2 /\ cmd.first # "stopped" => trail'[2] = GM!Moved(trail'[1])
        BY <3>1, <2>1, <2>4
      <4> QED
        BY <4>1, <1>2 DEF GM!EachOnce, GM!Moved
    <3>3. (Completed => Where = GM!Moved(trail[Len(trail)]))'
      <4>1. Completed' => cpu'.pc = GM!Moved(trail'[Len(trail')])
        BY <3>1, <2>1, <2>3, <2>4, <2>7
      <4> QED
        BY <4>1, <2>5, <1>2 DEF GM!Moved
    <3> QED
      BY <3>1, <3>2, <3>3 DEF GMTrail
  <2> QED
    BY <2>6, <2>7
<1>7. GM!RestoredAsSaved'
  BY <1>2 DEF GM!RestoredAsSaved
<1> QED
  BY <1>4, <1>5, <1>6, <1>7 DEF GMInv

(* What a step of a running guest may rely on. *)
LEMMA GMRunning ==
    ASSUME GMInv, GM!Running
    PROVE /\ cmd.out = "none" /\ cpu.pc \in 1 .. Len(cmd.program) /\ Len(cmd.program) \in Nat
          /\ GM!Exits \in 0 .. MaxExits + 1 /\ watch.same < StuckSamples
          /\ (~GM!Budget /\ cmd.kind # "test") => GM!Exits <= MaxExits
          /\ watch.exits \in 0 .. MaxExits + 1
          /\ cmd.kind # "test" => watch.exits <= MaxExits
          /\ cmd.kind = "test" => GM!Instr.op = "store"
          /\ cmd.kind # "test" => DOMAIN regions = {"rom", "ram"}
          /\ GM!TreeReached
          /\ hv = [vm |-> hv.vm, gic |-> hv.gic, redist |-> hv.redist, cpus |-> hv.cpus, clash |-> hv.clash]
          /\ cpu = [pc |-> cpu.pc, x |-> cpu.x, cnthctl |-> cpu.cnthctl, simd |-> cpu.simd]
          /\ watch = [exits |-> watch.exits, dev |-> watch.dev, pc |-> watch.pc, same |-> watch.same,
                      samples |-> watch.samples, seen |-> watch.seen]
<1>1. GMShape /\ GMRun /\ cmd.out = "none" /\ GM!TreeReached
  BY DEF GMInv, GMPhase, GM!Running, GM!InRun
<1>2. watch.exits \in 0 .. MaxExits + 1 /\ MaxExits \in Nat \ {0} /\ watch.exits <= MaxExits
  BY <1>1, GMAssumption DEF GMInv, GMWatch, GMRun
<1>3. GM!Exits \in 0 .. MaxExits + 1 /\ ((~GM!Budget /\ cmd.kind # "test") => GM!Exits <= MaxExits)
  BY <1>2 DEF GM!Exits, GM!Budget
<1>4. cmd.kind = "test" => GM!Instr.op = "store"
  BY <1>1 DEF GMShape, GMRun, GM!Instr
<1>5. hv = [vm |-> hv.vm, gic |-> hv.gic, redist |-> hv.redist, cpus |-> hv.cpus, clash |-> hv.clash]
  BY <1>1 DEF GMShape, GMHv
<1> QED
  BY <1>1, <1>2, <1>3, <1>4, <1>5 DEF GMShape, GMRun, ProgramOK

(* An instruction that is not a trap on its own place goes on within the program. *)
LEMMA GMMoves ==
    ASSUME GMInv, GM!Running
    PROVE /\ GM!Instr.op \notin {"spin", "noisv"} => GM!Moved(cpu.pc) \in 1 .. Len(cmd.program)
          /\ GM!Instr.op \notin {"b", "spin", "noisv"} =>
                /\ GM!Moved(cpu.pc) = GM!advancePC /\ GM!advancePC \in 1 .. Len(cmd.program)
<1>1. cpu.pc \in 1 .. Len(cmd.program) /\ Len(cmd.program) \in Nat
  BY GMRunning
<1>2. cmd.program[Len(cmd.program)].op \in {"b", "spin", "noisv"}
  BY DEF GMInv, GMShape, ProgramOK
<1>3. GM!Instr.op \notin {"b", "spin", "noisv"} => cpu.pc # Len(cmd.program)
  BY <1>2 DEF GM!Instr
<1> QED
  BY <1>1, <1>3 DEF GM!Moved, GM!advancePC, GM!Instr

(* The outcome of a step: End, or Goes with the outcome left "none". *)
LEMMA GMGoes ==
    ASSUME GMInv, GM!Running, GM!Goes
    PROVE cmd' = [cmd EXCEPT !.out = "none", !.fresh = FALSE] /\ cmd'.out = "none"
<1>1. cmd.out = "none"
  BY DEF GM!Running
<1> DEFINE c == [cmd EXCEPT !.out = "none"]
<1>2. c = [kind |-> cmd.kind, phase |-> cmd.phase, i |-> cmd.i, out |-> "none", first |-> cmd.first,
           program |-> cmd.program, disks |-> cmd.disks, fresh |-> cmd.fresh]
  BY DEF GMInv, GMShape
<1>3. cmd = [kind |-> cmd.kind, phase |-> cmd.phase, i |-> cmd.i, out |-> cmd.out, first |-> cmd.first,
           program |-> cmd.program, disks |-> cmd.disks, fresh |-> cmd.fresh]
  BY DEF GMInv, GMShape
<1>4. c = cmd
  BY <1>1, <1>2, <1>3, Zenon
<1> HIDE DEF c
<1>5. cmd' = [c EXCEPT !.fresh = FALSE]
  BY <1>4, Zenon DEF GM!Goes
<1>6. cmd' = [cmd EXCEPT !.out = "none", !.fresh = FALSE]
  BY <1>5 DEF c
<1> QED
  BY <1>6, GMCmd DEF GMInv

LEMMA GMEnd ==
    ASSUME GMInv, NEW how, GM!End(how)
    PROVE cmd' = [cmd EXCEPT !.out = how, !.fresh = FALSE] /\ cmd'.out = how
  BY GMCmd DEF GM!End, GMInv

(* The exits are counted, the samples left alone. *)
LEMMA GMWatchKept ==
    ASSUME GMInv, GM!Running, NEW e \in 0 .. MaxExits + 1, NEW d, NEW n,
           watch' = [exits |-> e, dev |-> d, pc |-> watch.pc, same |-> watch.same,
                     samples |-> watch.samples, seen |-> n],
           cmd'.out # "hung"
    PROVE /\ GMWatch' /\ watch'.same < StuckSamples /\ watch'.exits = e
          /\ watch' = [exits |-> watch'.exits, dev |-> watch'.dev, pc |-> watch'.pc, same |-> watch'.same,
                       samples |-> watch'.samples, seen |-> watch'.seen]
<1>1. /\ watch'.exits = e /\ watch'.dev = d /\ watch'.pc = watch.pc /\ watch'.same = watch.same
      /\ watch'.samples = watch.samples /\ watch'.seen = n
  OBVIOUS
<1>2. GMWatch'
  BY <1>1 DEF GMInv, GMWatch
<1>3. watch'.same < StuckSamples
  BY <1>1, GMRunning
<1> QED
  BY <1>1, <1>2, <1>3

LEMMA GMSamples ==
    ASSUME GMInv, GM!Running, NEW e \in 0 .. MaxExits + 1,
           watch' = [exits |-> e, dev |-> watch.dev, pc |-> cpu.pc,
                     same |-> IF cpu.pc = watch.pc THEN watch.same + 1 ELSE 0,
                     samples |-> Append(GM!Samples, cpu.pc), seen |-> watch.seen],
           cmd'.out = "hung" => watch'.same >= StuckSamples
    PROVE /\ GMWatch' /\ watch'.exits = e
          /\ watch' = [exits |-> watch'.exits, dev |-> watch'.dev, pc |-> watch'.pc, same |-> watch'.same,
                       samples |-> watch'.samples, seen |-> watch'.seen]
<1>1. /\ watch'.exits = e /\ watch'.dev = watch.dev /\ watch'.pc = cpu.pc
      /\ watch'.same = (IF cpu.pc = watch.pc THEN watch.same + 1 ELSE 0)
      /\ watch'.samples = Append(GM!Samples, cpu.pc) /\ watch'.seen = watch.seen
  OBVIOUS
<1>2. /\ cpu.pc \in Nat /\ watch.same < StuckSamples /\ StuckSamples \in Nat \ {0}
      /\ watch.samples \in Seq(Nat) /\ watch.same \in 0 .. Len(watch.samples)
      /\ Len(watch.samples) <= StuckSamples + 1 /\ watch.pc \in Nat
      /\ \A i \in 0 .. watch.same - 1 : watch.samples[Len(watch.samples) - i] = watch.pc
  BY GMRunning, GMAssumption DEF GMInv, GMWatch
<1> DEFINE s == watch.samples
           t == GM!Samples
           u == Append(t, cpu.pc)
           n == watch.same
<1>3. /\ t \in Seq(Nat) /\ Len(t) \in Nat /\ Len(t) <= StuckSamples /\ n <= Len(t)
      /\ \A i \in 0 .. n - 1 : t[Len(t) - i] = s[Len(s) - i]
  <2>1. CASE Len(s) > StuckSamples
    <3>1. t = Tail(s) /\ s # <<>> /\ s \in Seq(Nat) /\ Len(s) \in Nat
      BY <2>1, <1>2 DEF GM!Samples
    <3>2. t \in Seq(Nat) /\ Len(t) = Len(s) - 1 /\ \A j \in 1 .. Len(s) - 1 : t[j] = s[j + 1]
      BY <3>1
    <3>3. Len(t) \in Nat /\ Len(t) <= StuckSamples /\ n <= Len(t) /\ n \in Nat
      BY <2>1, <3>1, <3>2, <1>2
    <3>4. ASSUME NEW i \in 0 .. n - 1 PROVE t[Len(t) - i] = s[Len(s) - i]
      <4>1. Len(t) - i \in 1 .. Len(s) - 1 /\ Len(t) - i + 1 = Len(s) - i
        BY <3>1, <3>2, <3>3
      <4> QED
        BY <4>1, <3>2
    <3> QED
      BY <3>2, <3>3, <3>4
  <2>2. CASE ~(Len(s) > StuckSamples)
    BY <2>2, <1>2 DEF GM!Samples
  <2> QED
    BY <2>1, <2>2
<1> HIDE DEF t
<1>4. /\ u \in Seq(Nat) /\ Len(u) = Len(t) + 1 /\ u[Len(t) + 1] = cpu.pc
      /\ \A j \in 1 .. Len(t) : u[j] = t[j]
  BY <1>2, <1>3
<1>5. watch'.samples = u
  BY <1>1 DEF t
<1> HIDE DEF u
<1>6. watch'.same \in 0 .. Len(u) /\ Len(u) <= StuckSamples + 1
  BY SMTT(30), <1>1, <1>2, <1>3, <1>4
<1>7. \A i \in 0 .. watch'.same - 1 : u[Len(u) - i] = cpu.pc
  <2>1. CASE cpu.pc # watch.pc
    BY <2>1, <1>1
  <2>2. CASE cpu.pc = watch.pc
    <3> SUFFICES ASSUME NEW i \in 0 .. n PROVE u[Len(u) - i] = cpu.pc
      BY <1>1, <1>2, <2>2
    <3>1. CASE i = 0
      BY <3>1, <1>4, <1>3
    <3>2. CASE i # 0
      <4>0. n \in Nat /\ i \in Nat /\ Len(t) \in Nat /\ n <= Len(t) /\ Len(u) = Len(t) + 1
        BY <1>2, <1>3, <1>4
      <4>1. i - 1 \in 0 .. n - 1 /\ Len(u) - i = Len(t) - (i - 1) /\ Len(t) - (i - 1) \in 1 .. Len(t)
        BY <3>2, <4>0
      <4>2. u[Len(u) - i] = t[Len(t) - (i - 1)]
        BY <4>1, <1>4
      <4>3. t[Len(t) - (i - 1)] = s[Len(s) - (i - 1)] /\ s[Len(s) - (i - 1)] = cpu.pc
        BY <4>1, <1>2, <1>3, <2>2
      <4> QED
        BY <4>2, <4>3
    <3> QED
      BY <3>1, <3>2
  <2> QED
    BY <2>1, <2>2
<1>8. GMWatch'
  BY <1>1, <1>2, <1>4, <1>5, <1>6, <1>7 DEF GMWatch
<1> QED
  BY <1>1, <1>8

-----------------------------------------------------------------------------
(* The actions of a run *)
LEMMA GMSet ==
    ASSUME NEW a, NEW b, NEW c, NEW d, NEW v
    PROVE /\ [[pc |-> a, x |-> b, cnthctl |-> c, simd |-> d] EXCEPT !.pc = v] = [pc |-> v, x |-> b, cnthctl |-> c, simd |-> d]
          /\ [[pc |-> a, x |-> b, cnthctl |-> c, simd |-> d] EXCEPT !.x = v] = [pc |-> a, x |-> v, cnthctl |-> c, simd |-> d]
          /\ [[pc |-> a, x |-> b, cnthctl |-> c, simd |-> d] EXCEPT !.cnthctl = v] = [pc |-> a, x |-> b, cnthctl |-> v, simd |-> d]
  OBVIOUS

LEMMA GMSetXPC ==
    ASSUME GMInv, GM!Running, NEW v, NEW w
    PROVE /\ [cpu EXCEPT !.x = v, !.pc = w] = [pc |-> w, x |-> v, cnthctl |-> cpu.cnthctl, simd |-> cpu.simd]
          /\ [cpu EXCEPT !.pc = w, !.x = v] = [pc |-> w, x |-> v, cnthctl |-> cpu.cnthctl, simd |-> cpu.simd]
          /\ [cpu EXCEPT !.pc = w] = [pc |-> w, x |-> cpu.x, cnthctl |-> cpu.cnthctl, simd |-> cpu.simd]
          /\ \A n : [cpu EXCEPT !.cnthctl = n, !.x = v, !.pc = w] = [pc |-> w, x |-> v, cnthctl |-> n, simd |-> cpu.simd]
<1>1. cpu = [pc |-> cpu.pc, x |-> cpu.x, cnthctl |-> cpu.cnthctl, simd |-> cpu.simd]
  BY GMRunning
<1> DEFINE c1 == [cpu EXCEPT !.x = v]
           c2 == [c1 EXCEPT !.pc = w]
           d1 == [cpu EXCEPT !.pc = w]
           d2 == [d1 EXCEPT !.x = v]
<1>2. c1 = [pc |-> cpu.pc, x |-> v, cnthctl |-> cpu.cnthctl, simd |-> cpu.simd]
  BY <1>1, GMSet
<1>4. d1 = [pc |-> w, x |-> cpu.x, cnthctl |-> cpu.cnthctl, simd |-> cpu.simd]
  BY <1>1, GMSet
<1> HIDE DEF c1, d1
<1>3. c2 = [pc |-> w, x |-> v, cnthctl |-> cpu.cnthctl, simd |-> cpu.simd]
  BY <1>2, GMSet
<1>5. d2 = [pc |-> w, x |-> v, cnthctl |-> cpu.cnthctl, simd |-> cpu.simd]
  BY <1>4, GMSet
<1>6. ASSUME NEW n PROVE [cpu EXCEPT !.cnthctl = n, !.x = v, !.pc = w] = [pc |-> w, x |-> v, cnthctl |-> n, simd |-> cpu.simd]
  <2> DEFINE e1 == [cpu EXCEPT !.cnthctl = n]
             e2 == [e1 EXCEPT !.x = v]
             e3 == [e2 EXCEPT !.pc = w]
  <2>1. e1 = [pc |-> cpu.pc, x |-> cpu.x, cnthctl |-> n, simd |-> cpu.simd]
    BY <1>1, GMSet
  <2> HIDE DEF e1
  <2>2. e2 = [pc |-> cpu.pc, x |-> v, cnthctl |-> n, simd |-> cpu.simd]
    BY <2>1, GMSet
  <2> HIDE DEF e2
  <2>3. e3 = [pc |-> w, x |-> v, cnthctl |-> n, simd |-> cpu.simd]
    BY <2>2, GMSet
  <2> QED
    BY <2>3, Zenon DEF e1, e2, e3
<1> QED
  BY <1>3, <1>4, <1>5, <1>6, Zenon DEF c1, d1, c2, d2

LEMMA GMGuestRuns ==
    ASSUME GMInv, GM!GuestRuns
    PROVE GMInv'
<1>1. GM!Running /\ cmd.kind # "step" /\ GM!Plain /\ GM!Goes /\ trail' = GM!Log(cpu.pc)
      /\ UNCHANGED <<hv, watch, stayed, saved>>
      /\ cpu' = [cpu EXCEPT !.pc = GM!Moved(cpu.pc), !.x = IF GM!Instr.op = "alu" THEN 2 ELSE @]
      /\ regions' = IF GM!Instr.op = "storerom" THEN [regions EXCEPT !["rom"].at = 2] ELSE regions
  BY DEF GM!GuestRuns
<1>2. cmd' = [cmd EXCEPT !.out = "none", !.fresh = FALSE] /\ cmd'.out = "none"
  BY <1>1, GMGoes
<1>3. cmd.kind # "test"
  BY <1>1, GMRunning DEF GM!Plain
<1>4. GM!Moved(cpu.pc) \in 1 .. Len(cmd.program)
  BY <1>1, GMMoves DEF GM!Plain
<1>5. cpu' = [pc |-> cpu'.pc, x |-> cpu'.x, cnthctl |-> cpu'.cnthctl, simd |-> cpu'.simd] /\ cpu'.pc = GM!Moved(cpu.pc)
  <2>1. PICK v : cpu' = [cpu EXCEPT !.pc = GM!Moved(cpu.pc), !.x = v]
    BY <1>1
  <2>2. cpu' = [pc |-> GM!Moved(cpu.pc), x |-> v, cnthctl |-> cpu.cnthctl, simd |-> cpu.simd]
    BY <1>1, <2>1, GMSetXPC
  <2> QED
    BY <2>2
<1>6. DOMAIN regions' = DOMAIN regions /\ \A r \in DOMAIN regions' : RegionOK(regions'[r])
  <2>1. \A r \in DOMAIN regions : RegionOK(regions[r])
    BY DEF GMInv, GMShape
  <2>2. CASE GM!Instr.op = "storerom"
    <3>1. regions' = [regions EXCEPT !["rom"].at = 2]
      BY <1>1, <2>2
    <3>2. DOMAIN regions' = DOMAIN regions
      BY <3>1
    <3>3. ASSUME NEW r \in DOMAIN regions PROVE RegionOK(regions'[r])
      <4>1. CASE r # "rom"
        BY <3>1, <4>1, <2>1
      <4>2. CASE r = "rom"
        <5>1. regions["rom"] = [at |-> regions["rom"].at, exec |-> regions["rom"].exec]
          BY <2>1, <4>2 DEF RegionOK
        <5>2. regions'["rom"] = [regions["rom"] EXCEPT !.at = 2]
          BY <3>1, <4>2
        <5> HIDE DEF RegionOK
        <5>3. regions'["rom"] = [at |-> 2, exec |-> regions["rom"].exec]
          BY <5>1, <5>2
        <5> QED
          BY <5>3, <4>2 DEF RegionOK
      <4> QED
        BY <4>1, <4>2
    <3> QED
      BY <3>2, <3>3
  <2> QED
    BY <2>1, <2>2, <1>1
<1>7. GMWatch' /\ watch'.exits <= MaxExits /\ watch'.same < StuckSamples /\ GM!TreeReached'
  <2>1. watch' = watch /\ watch.exits <= MaxExits /\ watch.same < StuckSamples /\ GM!TreeReached
    BY <1>1, <1>3, GMRunning
  <2> QED
    BY <2>1, <1>1, <1>2 DEF GMInv, GMWatch, GM!TreeReached
<1>8. /\ hv' = [vm |-> hv.vm, gic |-> hv'.gic, redist |-> hv'.redist, cpus |-> hv.cpus, clash |-> hv.clash]
      /\ watch' = [exits |-> watch'.exits, dev |-> watch'.dev, pc |-> watch'.pc, same |-> watch'.same,
                     samples |-> watch'.samples, seen |-> watch'.seen]
      /\ saved' = saved
  <2>1. hv = [vm |-> hv.vm, gic |-> hv.gic, redist |-> hv.redist, cpus |-> hv.cpus, clash |-> hv.clash]
        /\ watch = [exits |-> watch.exits, dev |-> watch.dev, pc |-> watch.pc, same |-> watch.same,
                      samples |-> watch.samples, seen |-> watch.seen]
    BY <1>1, GMRunning
  <2>2. hv' = hv /\ watch' = watch /\ saved' = saved
    BY <1>1
  <2> QED
    BY <2>1, <2>2, Zenon
<1> QED
  BY <1>1, <1>2, <1>3, <1>4, <1>5, <1>6, <1>7, <1>8, GMRunStep

(* HandleMMIO: the device stayed is the one behind the node. *)
LEMMA GMAbort ==
    ASSUME GMInv, GM!Running, NEW stop \in BOOLEAN, GM!handleDataAbort(stop)
    PROVE /\ GM!TreeReached'
          /\ cpu' = [pc |-> cpu'.pc, x |-> cpu'.x, cnthctl |-> cpu'.cnthctl, simd |-> cpu'.simd]
          /\ cpu'.pc = IF stop THEN cpu.pc ELSE GM!advancePC
          /\ hv' = [vm |-> hv.vm, gic |-> hv'.gic, redist |-> hv'.redist, cpus |-> hv.cpus, clash |-> hv.clash]
<1> DEFINE node == IF GM!Instr.op = "storerom" THEN "rom" ELSE GM!Instr.at
           dev == IF node = "rom" THEN "unknown" ELSE GM!DeviceAt(GM!buildDTB[node], cmd.disks)
<1>1. /\ stayed' = [node |-> node, dev |-> dev, disks |-> cmd.disks]
      /\ cpu' = [cpu EXCEPT !.x = IF GM!Instr.op = "load" THEN GM!DeviceValue(dev) ELSE @,
                             !.pc = IF stop THEN @ ELSE GM!advancePC]
      /\ hv' = IF dev = "gic" /\ GM!Instr.op = "store" THEN [hv EXCEPT !.redist = "set"] ELSE hv
  BY DEF GM!handleDataAbort
<1>2. cmd.disks \in BOOLEAN
  BY DEF GMInv, GMShape
<1>3. "rom" \notin DOMAIN GM!buildDTB
  BY GMTree DEF GMNodes
<1>4. node \in DOMAIN GM!buildDTB => dev = GM!Behind(node, cmd.disks)
  BY <1>2, <1>3, GMRoutes
<1> HIDE DEF node, dev
<1>5. GM!TreeReached'
  <2>1. stayed'.node = node /\ stayed'.dev = dev /\ stayed'.disks = cmd.disks
    BY <1>1
  <2>2. node \in DOMAIN GM!buildDTB => stayed'.dev = GM!Behind(stayed'.node, stayed'.disks)
    BY <2>1, <1>4, Zenon
  <2> QED
    BY <2>1, <2>2, Zenon DEF GM!TreeReached
<1>6. cpu' = [pc |-> cpu'.pc, x |-> cpu'.x, cnthctl |-> cpu'.cnthctl, simd |-> cpu'.simd]
      /\ cpu'.pc = IF stop THEN cpu.pc ELSE GM!advancePC
  <2>1. PICK v : cpu' = [cpu EXCEPT !.x = v, !.pc = IF stop THEN @ ELSE GM!advancePC]
    BY <1>1
  <2> DEFINE w == IF stop THEN cpu.pc ELSE GM!advancePC
  <2>2. cpu' = [cpu EXCEPT !.x = v, !.pc = w]
    BY <2>1, GMRunning
  <2> HIDE DEF w
  <2>3. cpu' = [pc |-> w, x |-> v, cnthctl |-> cpu.cnthctl, simd |-> cpu.simd]
    BY <2>2, GMSetXPC
  <2> QED
    BY <2>3 DEF w
<1>7. hv' = [vm |-> hv.vm, gic |-> hv'.gic, redist |-> hv'.redist, cpus |-> hv.cpus, clash |-> hv.clash]
  <2>1. hv = [vm |-> hv.vm, gic |-> hv.gic, redist |-> hv.redist, cpus |-> hv.cpus, clash |-> hv.clash]
    BY GMRunning
  <2>2. CASE hv' = hv
    BY <2>1, <2>2, Zenon
  <2>3. CASE hv' = [hv EXCEPT !.redist = "set"]
    BY <2>1, <2>3
  <2> QED
    BY <2>2, <2>3, <1>1
<1> QED
  BY <1>5, <1>6, <1>7

LEMMA GMSysReg ==
    ASSUME GMInv, GM!Running, GM!emulateSysReg
    PROVE /\ GM!TreeReached'
          /\ cpu' = [pc |-> cpu'.pc, x |-> cpu'.x, cnthctl |-> cpu'.cnthctl, simd |-> cpu'.simd]
          /\ cpu'.pc = GM!advancePC
          /\ hv' = [vm |-> hv.vm, gic |-> hv'.gic, redist |-> hv'.redist, cpus |-> hv.cpus, clash |-> hv.clash]
<1>1. PICK n, v : cpu' = [cpu EXCEPT !.cnthctl = n, !.x = v, !.pc = GM!advancePC]
  <2>1. cpu' = [cpu EXCEPT
                  !.cnthctl = IF GM!Instr.op = "msr" /\ GM!Instr.at = "cnthctl" THEN cpu.x ELSE @,
                  !.x = IF GM!Instr.op # "mrs" THEN @
                        ELSE IF GM!Instr.at = "cnthctl" THEN cpu.cnthctl ELSE 0,
                  !.pc = GM!advancePC]
    BY DEF GM!emulateSysReg
  <2> QED
    BY <2>1
<1>2. cpu' = [pc |-> GM!advancePC, x |-> v, cnthctl |-> n, simd |-> cpu.simd]
  BY <1>1, GMSetXPC
<1>3. cpu' = [pc |-> cpu'.pc, x |-> cpu'.x, cnthctl |-> cpu'.cnthctl, simd |-> cpu'.simd] /\ cpu'.pc = GM!advancePC
  BY <1>2
<1>4. hv' = hv /\ stayed' = stayed
  BY DEF GM!emulateSysReg
<1>5. hv' = [vm |-> hv.vm, gic |-> hv'.gic, redist |-> hv'.redist, cpus |-> hv.cpus, clash |-> hv.clash]
  BY <1>4, GMRunning, Zenon
<1> QED
  BY <1>3, <1>4, <1>5, GMRunning DEF GM!TreeReached

(* A step that leaves the registers, or only their program counter and one register. *)
LEMMA GMSkips ==
    ASSUME GMInv, GM!Running, UNCHANGED <<stayed, hv>>,
           \/ cpu' = cpu
           \/ cpu' = [cpu EXCEPT !.pc = GM!advancePC]
           \/ \E v : cpu' = [cpu EXCEPT !.x = v, !.pc = GM!advancePC]
    PROVE /\ GM!TreeReached'
          /\ cpu' = [pc |-> cpu'.pc, x |-> cpu'.x, cnthctl |-> cpu'.cnthctl, simd |-> cpu'.simd]
          /\ cpu' = cpu \/ cpu'.pc = GM!advancePC
          /\ hv' = [vm |-> hv.vm, gic |-> hv'.gic, redist |-> hv'.redist, cpus |-> hv.cpus, clash |-> hv.clash]
<1>1. GM!TreeReached' /\ hv' = hv
  BY GMRunning DEF GM!TreeReached
<1>2. hv' = [vm |-> hv.vm, gic |-> hv'.gic, redist |-> hv'.redist, cpus |-> hv.cpus, clash |-> hv.clash]
  BY <1>1, GMRunning, Zenon
<1>3. CASE cpu' = cpu
  BY <1>1, <1>2, <1>3, GMRunning, Zenon
<1>4. CASE cpu' = [cpu EXCEPT !.pc = GM!advancePC]
  <2>1. cpu' = [pc |-> GM!advancePC, x |-> cpu.x, cnthctl |-> cpu.cnthctl, simd |-> cpu.simd]
    BY <1>4, GMSetXPC
  <2> QED
    BY <2>1, <1>1, <1>2
<1>5. CASE \E v : cpu' = [cpu EXCEPT !.x = v, !.pc = GM!advancePC]
  <2>1. PICK v : cpu' = [cpu EXCEPT !.x = v, !.pc = GM!advancePC]
    BY <1>5
  <2>2. cpu' = [pc |-> GM!advancePC, x |-> v, cnthctl |-> cpu.cnthctl, simd |-> cpu.simd]
    BY <2>1, GMSetXPC
  <2> QED
    BY <2>2, <1>1, <1>2
<1> QED
  BY <1>3, <1>4, <1>5

(* What the run's exits leave of the rest, in the form GMRunStep asks for. *)
LEMMA GMStill ==
    ASSUME GMInv
    PROVE /\ UNCHANGED regions => DOMAIN regions' = DOMAIN regions /\ \A r \in DOMAIN regions' : RegionOK(regions'[r])
          /\ (GM!Running /\ UNCHANGED <<hv, cpu, stayed>>) =>
                /\ GM!TreeReached' /\ cpu'.pc = cpu.pc /\ cpu'.pc \in 1 .. Len(cmd.program)
                /\ cpu' = [pc |-> cpu'.pc, x |-> cpu'.x, cnthctl |-> cpu'.cnthctl, simd |-> cpu'.simd]
                /\ hv' = [vm |-> hv.vm, gic |-> hv'.gic, redist |-> hv'.redist, cpus |-> hv.cpus, clash |-> hv.clash]
<1>1. UNCHANGED regions => DOMAIN regions' = DOMAIN regions /\ \A r \in DOMAIN regions' : RegionOK(regions'[r])
  BY DEF GMInv, GMShape
<1>2. ASSUME GM!Running, hv' = hv, cpu' = cpu, stayed' = stayed
      PROVE /\ GM!TreeReached' /\ cpu'.pc = cpu.pc /\ cpu'.pc \in 1 .. Len(cmd.program)
            /\ cpu' = [pc |-> cpu'.pc, x |-> cpu'.x, cnthctl |-> cpu'.cnthctl, simd |-> cpu'.simd]
            /\ hv' = [vm |-> hv.vm, gic |-> hv'.gic, redist |-> hv'.redist, cpus |-> hv.cpus, clash |-> hv.clash]
  <2>1. GM!TreeReached'
    BY <1>2, GMRunning DEF GM!TreeReached
  <2>2. cpu'.pc = cpu.pc /\ cpu'.pc \in 1 .. Len(cmd.program)
    BY <1>2, GMRunning
  <2>3. /\ cpu' = [pc |-> cpu'.pc, x |-> cpu'.x, cnthctl |-> cpu'.cnthctl, simd |-> cpu'.simd]
        /\ hv' = [vm |-> hv.vm, gic |-> hv'.gic, redist |-> hv'.redist, cpus |-> hv.cpus, clash |-> hv.clash]
    BY <1>2, GMRunning, Zenon
  <2> QED
    BY <2>1, <2>2, <2>3
<1> QED
  BY <1>1, <1>2

LEMMA GMVTimer ==
    ASSUME GMInv, GM!VTimer
    PROVE GMInv'
<1>1. /\ GM!Running /\ cmd.kind # "test" /\ watch' = [watch EXCEPT !.exits = GM!Exits]
      /\ IF GM!Budget THEN GM!End("budget") ELSE GM!Goes
      /\ hv' = hv /\ regions' = regions /\ cpu' = cpu /\ trail' = trail /\ stayed' = stayed /\ saved' = saved
  BY DEF GM!VTimer
<1>2. PICK o : /\ cmd' = [cmd EXCEPT !.out = o, !.fresh = FALSE] /\ cmd'.out = o /\ o # "hung"
               /\ o = "none" => ~GM!Budget
  <2>1. CASE GM!Budget
    <3>1. GM!End("budget")
      BY <1>1, <2>1, Zenon
    <3>2. cmd' = [cmd EXCEPT !.out = "budget", !.fresh = FALSE] /\ cmd'.out = "budget"
      BY <3>1, GMEnd
    <3> WITNESS "budget"
    <3> QED
      BY <3>2
  <2>2. CASE ~GM!Budget
    BY <1>1, <2>2, GMGoes
  <2> QED
    BY <2>1, <2>2
<1>3. /\ watch' = [exits |-> GM!Exits, dev |-> watch.dev, pc |-> watch.pc, same |-> watch.same,
                   samples |-> watch.samples, seen |-> watch.seen]
      /\ GM!Exits \in 0 .. MaxExits + 1 /\ (~GM!Budget => GM!Exits <= MaxExits)
  <2>1. watch = [exits |-> watch.exits, dev |-> watch.dev, pc |-> watch.pc, same |-> watch.same,
                   samples |-> watch.samples, seen |-> watch.seen]
        /\ GM!Exits \in 0 .. MaxExits + 1 /\ (~GM!Budget => GM!Exits <= MaxExits)
    BY <1>1, GMRunning
  <2> DEFINE e == GM!Exits
  <2>2. watch' = [watch EXCEPT !.exits = e]
    BY <1>1
  <2> HIDE DEF e
  <2>3. watch' = [exits |-> e, dev |-> watch.dev, pc |-> watch.pc, same |-> watch.same,
                   samples |-> watch.samples, seen |-> watch.seen]
    BY <2>1, <2>2
  <2> QED
    BY <2>1, <2>3 DEF e
<1>4. /\ GMWatch' /\ watch'.same < StuckSamples /\ watch'.exits = GM!Exits
      /\ watch' = [exits |-> watch'.exits, dev |-> watch'.dev, pc |-> watch'.pc, same |-> watch'.same,
                   samples |-> watch'.samples, seen |-> watch'.seen]
  BY <1>1, <1>2, <1>3, GMWatchKept
<1>5. /\ DOMAIN regions' = DOMAIN regions /\ \A r \in DOMAIN regions' : RegionOK(regions'[r])
      /\ GM!TreeReached' /\ cpu'.pc = cpu.pc /\ cpu'.pc \in 1 .. Len(cmd.program)
      /\ cpu' = [pc |-> cpu'.pc, x |-> cpu'.x, cnthctl |-> cpu'.cnthctl, simd |-> cpu'.simd]
      /\ hv' = [vm |-> hv.vm, gic |-> hv'.gic, redist |-> hv'.redist, cpus |-> hv.cpus, clash |-> hv.clash]
  BY <1>1, GMStill
<1> QED
  BY <1>1, <1>2, <1>3, <1>4, <1>5, GMRunStep

LEMMA GMWatchdog ==
    ASSUME GMInv, GM!Watchdog
    PROVE GMInv'
<1>1. /\ GM!Running /\ cmd.kind # "test"
      /\ watch' = [watch EXCEPT !.exits = GM!Exits, !.samples = Append(GM!Samples, cpu.pc),
                              !.pc = cpu.pc, !.same = IF cpu.pc = watch.pc THEN @ + 1 ELSE 0]
      /\ IF GM!Budget THEN GM!End("budget") ELSE IF watch'.same >= StuckSamples THEN GM!End("hung") ELSE GM!Goes
      /\ hv' = hv /\ regions' = regions /\ cpu' = cpu /\ trail' = trail /\ stayed' = stayed /\ saved' = saved
  BY DEF GM!Watchdog
<1>2. PICK o : /\ cmd' = [cmd EXCEPT !.out = o, !.fresh = FALSE] /\ cmd'.out = o
               /\ o = "hung" => watch'.same >= StuckSamples
               /\ o = "none" => ~GM!Budget /\ ~(watch'.same >= StuckSamples)
  <2>1. CASE GM!Budget
    <3>1. GM!End("budget")
      BY <1>1, <2>1, Zenon
    <3>2. cmd' = [cmd EXCEPT !.out = "budget", !.fresh = FALSE] /\ cmd'.out = "budget"
      BY <3>1, GMEnd
    <3> WITNESS "budget"
    <3> QED
      BY <3>2
  <2>2. CASE ~GM!Budget /\ watch'.same >= StuckSamples
    <3>1. GM!End("hung")
      BY <1>1, <2>2, Zenon
    <3>2. cmd' = [cmd EXCEPT !.out = "hung", !.fresh = FALSE] /\ cmd'.out = "hung"
      BY <3>1, GMEnd
    <3> WITNESS "hung"
    <3> QED
      BY <2>2, <3>2
  <2>3. CASE ~GM!Budget /\ ~(watch'.same >= StuckSamples)
    BY <1>1, <2>3, GMGoes
  <2> QED
    BY <2>1, <2>2, <2>3
<1>3. /\ watch' = [exits |-> GM!Exits, dev |-> watch.dev, pc |-> cpu.pc,
                   same |-> IF cpu.pc = watch.pc THEN watch.same + 1 ELSE 0,
                   samples |-> Append(GM!Samples, cpu.pc), seen |-> watch.seen]
      /\ GM!Exits \in 0 .. MaxExits + 1 /\ (~GM!Budget => GM!Exits <= MaxExits)
  <2>1. watch = [exits |-> watch.exits, dev |-> watch.dev, pc |-> watch.pc, same |-> watch.same,
                   samples |-> watch.samples, seen |-> watch.seen]
        /\ GM!Exits \in 0 .. MaxExits + 1 /\ (~GM!Budget => GM!Exits <= MaxExits)
    BY <1>1, GMRunning
  <2> DEFINE e == GM!Exits
             a == Append(GM!Samples, cpu.pc)
             m == IF cpu.pc = watch.pc THEN watch.same + 1 ELSE 0
             w1 == [watch EXCEPT !.exits = e]
             w2 == [w1 EXCEPT !.samples = a]
             w3 == [w2 EXCEPT !.pc = cpu.pc]
             w4 == [w3 EXCEPT !.same = m]
  <2>2. watch' = [watch EXCEPT !.exits = e, !.samples = a, !.pc = cpu.pc, !.same = IF cpu.pc = watch.pc THEN @ + 1 ELSE 0]
    BY <1>1
  <2> HIDE DEF e, a
  <2>3. w1 = [exits |-> e, dev |-> watch.dev, pc |-> watch.pc, same |-> watch.same,
                   samples |-> watch.samples, seen |-> watch.seen]
    BY <2>1
  <2> HIDE DEF w1
  <2>4. w2 = [exits |-> e, dev |-> watch.dev, pc |-> watch.pc, same |-> watch.same,
                   samples |-> a, seen |-> watch.seen]
    BY <2>3
  <2> HIDE DEF w2
  <2>5. w3 = [exits |-> e, dev |-> watch.dev, pc |-> cpu.pc, same |-> watch.same,
                   samples |-> a, seen |-> watch.seen]
    BY <2>4
  <2> HIDE DEF w3, m
  <2>6. w4 = [exits |-> e, dev |-> watch.dev, pc |-> cpu.pc, same |-> m,
                   samples |-> a, seen |-> watch.seen]
    BY <2>5
  <2>7. w3.same = watch.same
    BY <2>5
  <2>8. watch' = [w3 EXCEPT !.same = IF cpu.pc = watch.pc THEN @ + 1 ELSE 0]
    BY <2>2, Zenon DEF w3, w2, w1
  <2>9. watch' = [w3 EXCEPT !.same = IF cpu.pc = watch.pc THEN w3.same + 1 ELSE 0]
    BY <2>8, Zenon
  <2>10. watch' = w4
    BY <2>9, <2>7 DEF w4, m
  <2> QED
    BY <2>1, <2>6, <2>10, Zenon DEF e, a, m
<1>4. /\ GMWatch' /\ watch'.exits = GM!Exits
      /\ watch' = [exits |-> watch'.exits, dev |-> watch'.dev, pc |-> watch'.pc, same |-> watch'.same,
                   samples |-> watch'.samples, seen |-> watch'.seen]
  BY <1>1, <1>2, <1>3, GMSamples
<1>6. o = "none" => watch'.same < StuckSamples
  <2>1. watch'.same \in Nat /\ StuckSamples \in Nat
    BY <1>4, GMAssumption DEF GMWatch
  <2> QED
    BY <2>1, <1>2
<1>5. /\ DOMAIN regions' = DOMAIN regions /\ \A r \in DOMAIN regions' : RegionOK(regions'[r])
      /\ GM!TreeReached' /\ cpu'.pc = cpu.pc /\ cpu'.pc \in 1 .. Len(cmd.program)
      /\ cpu' = [pc |-> cpu'.pc, x |-> cpu'.x, cnthctl |-> cpu'.cnthctl, simd |-> cpu'.simd]
      /\ hv' = [vm |-> hv.vm, gic |-> hv'.gic, redist |-> hv'.redist, cpus |-> hv.cpus, clash |-> hv.clash]
  BY <1>1, GMStill
<1> QED
  BY <1>1, <1>2, <1>3, <1>4, <1>5, <1>6, GMRunStep

(* How one exit ends the turn: where the guest is, and how the run goes on. *)
GMTurn(o) ==
    /\ cmd' = [cmd EXCEPT !.out = o, !.fresh = FALSE] /\ cmd'.out = o /\ o # "hung"
    /\ GM!TreeReached'
    /\ cpu' = [pc |-> cpu'.pc, x |-> cpu'.x, cnthctl |-> cpu'.cnthctl, simd |-> cpu'.simd]
    /\ cpu'.pc \in 1 .. Len(cmd.program)
    /\ hv' = [vm |-> hv.vm, gic |-> hv'.gic, redist |-> hv'.redist, cpus |-> hv.cpus, clash |-> hv.clash]
    /\ \/ trail' = trail /\ cpu'.pc = cpu.pc
       \/ trail' = GM!Log(cpu.pc) /\ cpu'.pc = GM!Moved(cpu.pc)
       \/ trail' = GM!Log(cpu.pc) /\ cpu'.pc = cpu.pc /\ (o = "stopped" \/ (cmd.kind = "step" /\ o = "error"))

LEMMA GMTurnKeeps ==
    ASSUME GMInv, GM!Running, NEW o, GMTurn(o), NEW d, NEW n, NEW e \in 0 .. MaxExits + 1,
           watch' = [exits |-> e, dev |-> d, pc |-> watch.pc, same |-> watch.same,
                     samples |-> watch.samples, seen |-> n],
           o = "none" => cmd.kind # "test" /\ e <= MaxExits,
           regions' = regions, saved' = saved
    PROVE GMInv'
<1>1. /\ GMWatch' /\ watch'.same < StuckSamples /\ watch'.exits = e
      /\ watch' = [exits |-> watch'.exits, dev |-> watch'.dev, pc |-> watch'.pc, same |-> watch'.same,
                   samples |-> watch'.samples, seen |-> watch'.seen]
  BY GMWatchKept DEF GMTurn
<1>2. DOMAIN regions' = DOMAIN regions /\ \A r \in DOMAIN regions' : RegionOK(regions'[r])
  BY GMStill
<1> QED
  BY <1>1, <1>2, GMRunStep DEF GMTurn

LEMMA GMRunLoop ==
    ASSUME GMInv, GM!Run
    PROVE GMInv'
<1>1. /\ GM!Running /\ cmd.kind # "step" /\ GM!Trapped /\ regions' = regions /\ saved' = saved
  BY DEF GM!Run
<1>2. PICK d : watch' = [watch EXCEPT !.exits = GM!Exits, !.dev = d]
  BY DEF GM!Run
<1>3. watch' = [exits |-> GM!Exits, dev |-> d, pc |-> watch.pc, same |-> watch.same,
                samples |-> watch.samples, seen |-> watch.seen]
  <2> DEFINE e == GM!Exits
             w1 == [watch EXCEPT !.exits = e]
  <2>1. watch = [exits |-> watch.exits, dev |-> watch.dev, pc |-> watch.pc, same |-> watch.same,
                 samples |-> watch.samples, seen |-> watch.seen]
    BY <1>1, GMRunning
  <2>2. watch' = [w1 EXCEPT !.dev = d]
    BY <1>2
  <2> HIDE DEF e
  <2>3. w1 = [exits |-> e, dev |-> watch.dev, pc |-> watch.pc, same |-> watch.same,
              samples |-> watch.samples, seen |-> watch.seen]
    BY <2>1
  <2> HIDE DEF w1
  <2>4. watch' = [exits |-> e, dev |-> d, pc |-> watch.pc, same |-> watch.same,
                  samples |-> watch.samples, seen |-> watch.seen]
    BY <2>2, <2>3
  <2> QED
    BY <2>4 DEF e
<1>4. /\ GM!Exits \in 0 .. MaxExits + 1 /\ ((~GM!Budget /\ cmd.kind # "test") => GM!Exits <= MaxExits)
      /\ cpu.pc \in 1 .. Len(cmd.program) /\ (cmd.kind = "test" => GM!Instr.op = "store")
  BY <1>1, GMRunning
<1>5. GM!Instr.op \notin {"b", "spin"}
  BY <1>1 DEF GM!Trapped, GM!Plain
<1>m. GM!Instr.op # "noisv" => GM!Moved(cpu.pc) = GM!advancePC /\ GM!advancePC \in 1 .. Len(cmd.program)
  BY <1>1, <1>5, GMMoves
<1>6. \E o : GMTurn(o) /\ (o = "none" => ~GM!Budget /\ cmd.kind # "test")
  <2>1. CASE GM!Budget
    <3>1. GM!End("budget") /\ UNCHANGED <<cpu, trail, stayed, hv>>
      BY <2>1 DEF GM!Run
    <3>2. cmd' = [cmd EXCEPT !.out = "budget", !.fresh = FALSE] /\ cmd'.out = "budget"
      BY <3>1, GMEnd
    <3>3. GMTurn("budget")
      BY <1>1, <3>1, <3>2, GMStill DEF GMTurn
    <3> QED
      BY <3>3
  <2>2. CASE ~GM!Budget /\ GM!Abort /\ GM!handleDataAbort(GM!Stops) /\ trail' = GM!Log(cpu.pc) /\ IF GM!Stops THEN GM!End("stopped") ELSE GM!Goes
    <3>0. GM!Stops \in BOOLEAN
      BY DEF GM!Stops
    <3>1. /\ GM!TreeReached'
          /\ cpu' = [pc |-> cpu'.pc, x |-> cpu'.x, cnthctl |-> cpu'.cnthctl, simd |-> cpu'.simd]
          /\ cpu'.pc = IF GM!Stops THEN cpu.pc ELSE GM!advancePC
          /\ hv' = [vm |-> hv.vm, gic |-> hv'.gic, redist |-> hv'.redist, cpus |-> hv.cpus, clash |-> hv.clash]
      BY <1>1, <2>2, <3>0, GMAbort
    <3>2. GM!Instr.op # "noisv"
      BY <2>2 DEF GM!Abort
    <3>3. CASE GM!Stops
      <4>1. GM!End("stopped")
        BY <2>2, <3>3, Zenon
      <4>2. cmd' = [cmd EXCEPT !.out = "stopped", !.fresh = FALSE] /\ cmd'.out = "stopped"
        BY <4>1, GMEnd
      <4>3. GMTurn("stopped")
        BY <2>2, <3>1, <3>3, <4>2, <1>4 DEF GMTurn
      <4> QED
        BY <4>3
    <3>4. CASE ~GM!Stops
      <4>1. GM!Goes /\ cmd.kind # "test"
        BY <2>2, <3>4, Zenon DEF GM!Stops
      <4>2. cmd' = [cmd EXCEPT !.out = "none", !.fresh = FALSE] /\ cmd'.out = "none"
        BY <1>1, <4>1, GMGoes
      <4>3. cpu'.pc = GM!advancePC
        BY <3>1, <3>4, Zenon
      <4>4. GMTurn("none")
        BY <2>2, <3>1, <3>2, <4>2, <4>3, <1>m DEF GMTurn
      <4> QED
        BY <2>2, <4>1, <4>4
    <3> QED
      BY <3>3, <3>4
  <2>3. CASE ~GM!Budget /\ trail' = GM!Log(cpu.pc) /\ GM!Goes /\ GM!Instr.op \in {"msr", "mrs", "hvc", "wfi"}
             /\ (GM!Instr.op \in {"msr", "mrs"} => GM!emulateSysReg)
             /\ (GM!Instr.op = "hvc" => cpu' = [cpu EXCEPT !.x = 9, !.pc = GM!advancePC] /\ UNCHANGED <<stayed, hv>>)
             /\ (GM!Instr.op = "wfi" => cpu' = [cpu EXCEPT !.pc = GM!advancePC] /\ UNCHANGED <<stayed, hv>>)
    <3>1. /\ GM!TreeReached'
          /\ cpu' = [pc |-> cpu'.pc, x |-> cpu'.x, cnthctl |-> cpu'.cnthctl, simd |-> cpu'.simd]
          /\ cpu'.pc = GM!advancePC
          /\ hv' = [vm |-> hv.vm, gic |-> hv'.gic, redist |-> hv'.redist, cpus |-> hv.cpus, clash |-> hv.clash]
      <4>1. CASE GM!Instr.op \in {"msr", "mrs"}
        BY <1>1, <2>3, <4>1, GMSysReg
      <4>2. CASE GM!Instr.op = "hvc"
        <5>1. cpu' = [cpu EXCEPT !.x = 9, !.pc = GM!advancePC] /\ UNCHANGED <<stayed, hv>>
          BY <2>3, <4>2
        <5>2. cpu' = [pc |-> GM!advancePC, x |-> 9, cnthctl |-> cpu.cnthctl, simd |-> cpu.simd]
          BY <5>1, <1>1, GMSetXPC
        <5> QED
          BY <5>1, <5>2, <1>1, GMSkips
      <4>3. CASE GM!Instr.op = "wfi"
        <5>1. cpu' = [cpu EXCEPT !.pc = GM!advancePC] /\ UNCHANGED <<stayed, hv>>
          BY <2>3, <4>3
        <5>2. cpu' = [pc |-> GM!advancePC, x |-> cpu.x, cnthctl |-> cpu.cnthctl, simd |-> cpu.simd]
          BY <5>1, <1>1, GMSetXPC
        <5> QED
          BY <5>1, <5>2, <1>1, GMSkips
      <4> QED
        BY <2>3, <4>1, <4>2, <4>3
    <3>2. cmd' = [cmd EXCEPT !.out = "none", !.fresh = FALSE] /\ cmd'.out = "none"
      BY <1>1, <2>3, GMGoes
    <3>3. GMTurn("none")
      BY <2>3, <3>1, <3>2, <1>m DEF GMTurn
    <3>4. cmd.kind # "test"
      BY <2>3, <1>4
    <3> QED
      BY <2>3, <3>3, <3>4
  <2>4. CASE ~GM!Budget /\ GM!Instr.op \in {"noisv", "undef"} /\ GM!End("error") /\ UNCHANGED <<cpu, trail, stayed, hv>>
    <3>2. cmd' = [cmd EXCEPT !.out = "error", !.fresh = FALSE] /\ cmd'.out = "error"
      BY <2>4, GMEnd
    <3>3. GMTurn("error")
      BY <1>1, <2>4, <3>2, GMStill DEF GMTurn
    <3> QED
      BY <3>3
  <2> QED
    BY <2>1, <2>2, <2>3, <2>4 DEF GM!Run
<1>7. PICK o : GMTurn(o) /\ (o = "none" => ~GM!Budget /\ cmd.kind # "test")
  BY <1>6
<1> QED
  BY <1>1, <1>3, <1>4, <1>7, GMTurnKeeps

LEMMA GMStepTrace ==
    ASSUME GMInv, GM!StepTrace
    PROVE GMInv'
<1>1. /\ GM!Running /\ cmd.kind = "step" /\ regions' = regions /\ saved' = saved
      /\ trail' = IF GM!Instr.op = "spin" THEN trail ELSE GM!Log(cpu.pc)
  BY DEF GM!StepTrace
<1>2. PICK n : watch' = [exits |-> GM!Exits, dev |-> watch.dev, pc |-> watch.pc, same |-> watch.same,
                        samples |-> watch.samples, seen |-> n]
  <2> DEFINE e == GM!Exits
             w1 == [watch EXCEPT !.exits = e]
  <2>1. watch = [exits |-> watch.exits, dev |-> watch.dev, pc |-> watch.pc, same |-> watch.same,
                 samples |-> watch.samples, seen |-> watch.seen]
    BY <1>1, GMRunning
  <2>2. watch' = w1 \/ \E n : watch' = [w1 EXCEPT !.seen = n]
    BY DEF GM!StepTrace
  <2> HIDE DEF e
  <2>3. w1 = [exits |-> e, dev |-> watch.dev, pc |-> watch.pc, same |-> watch.same,
              samples |-> watch.samples, seen |-> watch.seen]
    BY <2>1
  <2> HIDE DEF w1
  <2>4. ASSUME NEW n, watch' = [w1 EXCEPT !.seen = n]
        PROVE watch' = [exits |-> e, dev |-> watch.dev, pc |-> watch.pc, same |-> watch.same,
                        samples |-> watch.samples, seen |-> n]
    BY <2>3, <2>4
  <2> QED
    BY <2>2, <2>3, <2>4 DEF e
<1>3. /\ GM!Exits \in 0 .. MaxExits + 1 /\ cpu.pc \in 1 .. Len(cmd.program)
      /\ MaxExits \in Nat /\ (GM!Exits >= MaxExits \/ GM!Exits <= MaxExits)
  BY <1>1, GMRunning, GMAssumption
<1>4. \E o : GMTurn(o) /\ (o = "none" => GM!Exits <= MaxExits)
  <2>1. CASE /\ GM!Plain \/ GM!Instr.op = "spin"
             /\ \E v : cpu' = [cpu EXCEPT !.pc = IF GM!Instr.op = "spin" THEN cpu.pc ELSE GM!Moved(cpu.pc), !.x = v]
             /\ UNCHANGED <<stayed, hv>>
             /\ GM!End("stalled") \/ (IF GM!Exits >= MaxExits THEN GM!End("budget") ELSE GM!Goes)
    <3> DEFINE to == IF GM!Instr.op = "spin" THEN cpu.pc ELSE GM!Moved(cpu.pc)
    <3>1. PICK v : cpu' = [cpu EXCEPT !.pc = to, !.x = v]
      BY <2>1
    <3> HIDE DEF to
    <3>2. cpu' = [pc |-> to, x |-> v, cnthctl |-> cpu.cnthctl, simd |-> cpu.simd]
      BY <3>1, <1>1, GMSetXPC
    <3>3. cpu'.pc = to /\ cpu' = [pc |-> cpu'.pc, x |-> cpu'.x, cnthctl |-> cpu'.cnthctl, simd |-> cpu'.simd]
      BY <3>2
    <3>4. /\ GM!TreeReached'
          /\ hv' = [vm |-> hv.vm, gic |-> hv'.gic, redist |-> hv'.redist, cpus |-> hv.cpus, clash |-> hv.clash]
      <4>1. hv' = hv /\ stayed' = stayed
        BY <2>1
      <4> QED
        BY <4>1, <1>1, GMRunning, Zenon DEF GM!TreeReached
    <3>5. /\ to \in 1 .. Len(cmd.program)
          /\ (trail' = trail /\ to = cpu.pc) \/ (trail' = GM!Log(cpu.pc) /\ to = GM!Moved(cpu.pc))
      <4>1. CASE GM!Instr.op = "spin"
        BY <4>1, <1>1, <1>3 DEF to
      <4>2. CASE GM!Instr.op # "spin"
        <5>1. GM!Instr.op \notin {"spin", "noisv"}
          BY <4>2, <2>1 DEF GM!Plain
        <5> QED
          BY <5>1, <4>2, <1>1, GMMoves DEF to
      <4> QED
        BY <4>1, <4>2
    <3>6. \E o : /\ cmd' = [cmd EXCEPT !.out = o, !.fresh = FALSE] /\ cmd'.out = o /\ o # "hung"
                 /\ o = "none" => GM!Exits <= MaxExits
      <4>1. CASE GM!End("stalled")
        <5>1. cmd' = [cmd EXCEPT !.out = "stalled", !.fresh = FALSE] /\ cmd'.out = "stalled"
          BY <4>1, GMEnd
        <5> WITNESS "stalled"
        <5> QED
          BY <5>1
      <4>2. CASE GM!End("budget")
        <5>1. cmd' = [cmd EXCEPT !.out = "budget", !.fresh = FALSE] /\ cmd'.out = "budget"
          BY <4>2, GMEnd
        <5> WITNESS "budget"
        <5> QED
          BY <5>1
      <4>3. CASE GM!Goes /\ ~(GM!Exits >= MaxExits)
        <5>1. cmd' = [cmd EXCEPT !.out = "none", !.fresh = FALSE] /\ cmd'.out = "none"
          BY <4>3, <1>1, GMGoes
        <5>2. GM!Exits <= MaxExits
          BY <4>3, <1>3
        <5> WITNESS "none"
        <5> QED
          BY <5>1, <5>2
      <4> QED
        BY <2>1, <4>1, <4>2, <4>3, Zenon
    <3>7. PICK o : /\ cmd' = [cmd EXCEPT !.out = o, !.fresh = FALSE] /\ cmd'.out = o /\ o # "hung"
                   /\ o = "none" => GM!Exits <= MaxExits
      BY <3>6
    <3>8. GMTurn(o)
      BY <3>3, <3>4, <3>5, <3>7 DEF GMTurn
    <3> QED
      BY <3>7, <3>8
  <2>2. CASE /\ GM!Trapped /\ GM!Instr.op # "noisv"
             /\ \/ GM!Abort /\ GM!handleDataAbort(FALSE)
                \/ GM!Instr.op \in {"msr", "mrs"} /\ GM!emulateSysReg
                \/ UNCHANGED <<stayed, hv>> /\ cpu' = [cpu EXCEPT !.pc = GM!advancePC]
             /\ IF GM!Exits >= MaxExits THEN GM!End("budget") ELSE GM!Goes
    <3>1. /\ GM!TreeReached'
          /\ cpu' = [pc |-> cpu'.pc, x |-> cpu'.x, cnthctl |-> cpu'.cnthctl, simd |-> cpu'.simd]
          /\ cpu'.pc = GM!advancePC
          /\ hv' = [vm |-> hv.vm, gic |-> hv'.gic, redist |-> hv'.redist, cpus |-> hv.cpus, clash |-> hv.clash]
      <4>1. CASE GM!handleDataAbort(FALSE)
        BY <1>1, <4>1, GMAbort
      <4>2. CASE GM!emulateSysReg
        BY <1>1, <4>2, GMSysReg
      <4>3. CASE UNCHANGED <<stayed, hv>> /\ cpu' = [cpu EXCEPT !.pc = GM!advancePC]
        <5>1. cpu' = [pc |-> GM!advancePC, x |-> cpu.x, cnthctl |-> cpu.cnthctl, simd |-> cpu.simd]
          BY <4>3, <1>1, GMSetXPC
        <5> QED
          BY <4>3, <5>1, <1>1, GMSkips
      <4> QED
        BY <2>2, <4>1, <4>2, <4>3
    <3>2. GM!Instr.op \notin {"b", "spin", "noisv"}
      BY <2>2 DEF GM!Trapped, GM!Plain
    <3>3. GM!Moved(cpu.pc) = GM!advancePC /\ GM!advancePC \in 1 .. Len(cmd.program) /\ trail' = GM!Log(cpu.pc)
      BY <3>2, <1>1, GMMoves
    <3>4. CASE GM!Exits >= MaxExits
      <4>1. GM!End("budget")
        BY <2>2, <3>4, Zenon
      <4>2. cmd' = [cmd EXCEPT !.out = "budget", !.fresh = FALSE] /\ cmd'.out = "budget"
        BY <4>1, GMEnd
      <4>3. GMTurn("budget")
        BY <3>1, <3>3, <4>2 DEF GMTurn
      <4> QED
        BY <4>3
    <3>5. CASE ~(GM!Exits >= MaxExits)
      <4>1. GM!Goes
        BY <2>2, <3>5, Zenon
      <4>2. cmd' = [cmd EXCEPT !.out = "none", !.fresh = FALSE] /\ cmd'.out = "none"
        BY <1>1, <4>1, GMGoes
      <4>3. GMTurn("none")
        BY <3>1, <3>3, <4>2 DEF GMTurn
      <4> QED
        BY <4>3, <3>5, <1>3
    <3> QED
      BY <3>4, <3>5
  <2>3. CASE GM!Instr.op = "noisv" /\ UNCHANGED <<cpu, stayed, hv>> /\ GM!End("error")
    <3>2. cmd' = [cmd EXCEPT !.out = "error", !.fresh = FALSE] /\ cmd'.out = "error"
      BY <2>3, GMEnd
    <3>3. trail' = GM!Log(cpu.pc)
      BY <1>1, <2>3
    <3>4. /\ GM!TreeReached' /\ cpu'.pc = cpu.pc /\ cpu'.pc \in 1 .. Len(cmd.program)
          /\ cpu' = [pc |-> cpu'.pc, x |-> cpu'.x, cnthctl |-> cpu'.cnthctl, simd |-> cpu'.simd]
          /\ hv' = [vm |-> hv.vm, gic |-> hv'.gic, redist |-> hv'.redist, cpus |-> hv.cpus, clash |-> hv.clash]
      BY <1>1, <2>3, GMStill
    <3>5. GMTurn("error")
      BY <1>1, <3>2, <3>3, <3>4 DEF GMTurn
    <3> QED
      BY <3>5
  <2> QED
    <3>1. CASE /\ GM!Plain \/ GM!Instr.op = "spin"
               /\ LET to == IF GM!Instr.op = "spin" THEN cpu.pc ELSE GM!Moved(cpu.pc)
                  IN /\ cpu' = [cpu EXCEPT !.pc = to, !.x = IF GM!Instr.op = "alu" THEN 2 ELSE @]
                     /\ watch' = [watch EXCEPT !.exits = GM!Exits, !.seen = GM!With(@, to, GM!Visits(to))]
                     /\ IF GM!Visits(to) = Stalled THEN GM!End("stalled")
                        ELSE IF GM!Exits >= MaxExits THEN GM!End("budget") ELSE GM!Goes
                     /\ UNCHANGED <<stayed, hv>>
      <4> DEFINE to == IF GM!Instr.op = "spin" THEN cpu.pc ELSE GM!Moved(cpu.pc)
      <4>1. /\ cpu' = [cpu EXCEPT !.pc = to, !.x = IF GM!Instr.op = "alu" THEN 2 ELSE @]
            /\ IF GM!Visits(to) = Stalled THEN GM!End("stalled")
               ELSE IF GM!Exits >= MaxExits THEN GM!End("budget") ELSE GM!Goes
            /\ UNCHANGED <<stayed, hv>>
        BY <3>1
      <4> HIDE DEF to
      <4>2. \E v : cpu' = [cpu EXCEPT !.pc = to, !.x = v]
        BY <4>1
      <4>3. GM!End("stalled") \/ (IF GM!Exits >= MaxExits THEN GM!End("budget") ELSE GM!Goes)
        BY <4>1, Zenon
      <4> QED
        BY <3>1, <4>1, <4>2, <4>3, <2>1, Zenon DEF to
    <3>2. CASE /\ GM!Trapped
               /\ \/ GM!Abort /\ GM!handleDataAbort(FALSE)
                  \/ GM!Instr.op \in {"msr", "mrs"} /\ GM!emulateSysReg
                  \/ /\ GM!Instr.op \in {"hvc", "wfi", "undef"} /\ UNCHANGED <<stayed, hv>>
                     /\ cpu' = [cpu EXCEPT !.pc = GM!advancePC]
                  \/ GM!Instr.op = "noisv" /\ UNCHANGED <<cpu, stayed, hv>>
               /\ IF GM!Instr.op = "noisv" THEN GM!End("error")
                  ELSE IF GM!Exits >= MaxExits THEN GM!End("budget") ELSE GM!Goes
      <4>1. CASE GM!Instr.op = "noisv"
        <5>1. GM!End("error")
          BY <3>2, <4>1, Zenon
        <5>2. UNCHANGED <<cpu, stayed, hv>>
          BY <3>2, <4>1 DEF GM!Abort
        <5> QED
          BY <4>1, <5>1, <5>2, <2>3
      <4>2. CASE GM!Instr.op # "noisv"
        <5>1. IF GM!Exits >= MaxExits THEN GM!End("budget") ELSE GM!Goes
          BY <3>2, <4>2, Zenon
        <5> QED
          BY <3>2, <4>2, <5>1, <2>2, Zenon
      <4> QED
        BY <4>1, <4>2
    <3> QED
      BY <3>1, <3>2, Zenon DEF GM!StepTrace
<1>5. PICK o : GMTurn(o) /\ (o = "none" => GM!Exits <= MaxExits)
  BY <1>4
<1> QED
  BY <1>1, <1>2, <1>3, <1>5, GMTurnKeeps

-----------------------------------------------------------------------------
(* Building the machine *)
LEMMA GMHvSet ==
    ASSUME NEW a, NEW b, NEW c, NEW d, NEW e, NEW v
    PROVE /\ [[vm |-> a, gic |-> b, redist |-> c, cpus |-> d, clash |-> e] EXCEPT !.vm = v]
                 = [vm |-> v, gic |-> b, redist |-> c, cpus |-> d, clash |-> e]
          /\ [[vm |-> a, gic |-> b, redist |-> c, cpus |-> d, clash |-> e] EXCEPT !.gic = v]
                 = [vm |-> a, gic |-> v, redist |-> c, cpus |-> d, clash |-> e]
          /\ [[vm |-> a, gic |-> b, redist |-> c, cpus |-> d, clash |-> e] EXCEPT !.redist = v]
                 = [vm |-> a, gic |-> b, redist |-> v, cpus |-> d, clash |-> e]
          /\ [[vm |-> a, gic |-> b, redist |-> c, cpus |-> d, clash |-> e] EXCEPT !.cpus = v]
                 = [vm |-> a, gic |-> b, redist |-> c, cpus |-> v, clash |-> e]
          /\ [[vm |-> a, gic |-> b, redist |-> c, cpus |-> d, clash |-> e] EXCEPT !.clash = v]
                 = [vm |-> a, gic |-> b, redist |-> c, cpus |-> d, clash |-> v]
  OBVIOUS

LEMMA GMHvIs ==
    ASSUME NEW a \in BOOLEAN, NEW b, NEW c, NEW d \in {0, 1}, d = 1 => a,
           NEW e, e = FALSE, hv' = [vm |-> a, gic |-> b, redist |-> c, cpus |-> d, clash |-> e]
    PROVE GMHv' /\ hv'.vm = a /\ hv'.gic = b /\ hv'.redist = c /\ hv'.cpus = d
<1>1. hv'.vm = a /\ hv'.gic = b /\ hv'.redist = c /\ hv'.cpus = d /\ hv'.clash = e
  OBVIOUS
<1> QED
  BY <1>1 DEF GMHv

LEMMA GMHvPut ==
    ASSUME GMHv, NEW v
    PROVE /\ [hv EXCEPT !.vm = v] = [vm |-> v, gic |-> hv.gic, redist |-> hv.redist, cpus |-> hv.cpus, clash |-> hv.clash]
          /\ [hv EXCEPT !.gic = v] = [vm |-> hv.vm, gic |-> v, redist |-> hv.redist, cpus |-> hv.cpus, clash |-> hv.clash]
<1>1. hv = [vm |-> hv.vm, gic |-> hv.gic, redist |-> hv.redist, cpus |-> hv.cpus, clash |-> hv.clash]
  BY DEF GMHv
<1> DEFINE p == hv.vm
           q == hv.gic
           r == hv.redist
           m == hv.cpus
           z == hv.clash
<1>2. hv = [vm |-> p, gic |-> q, redist |-> r, cpus |-> m, clash |-> z]
  BY <1>1
<1> HIDE DEF p, q, r, m, z
<1>3. [hv EXCEPT !.vm = v] = [vm |-> v, gic |-> q, redist |-> r, cpus |-> m, clash |-> z]
  BY <1>2
<1>4. [hv EXCEPT !.gic = v] = [vm |-> p, gic |-> v, redist |-> r, cpus |-> m, clash |-> z]
  BY <1>2
<1> QED
  BY <1>3, <1>4 DEF p, q, r, m, z

LEMMA GMNewMachine ==
    ASSUME GMHv, hv.vm = FALSE, hv.cpus = 0, GM!NewMachine
    PROVE GMHv' /\ hv'.vm = TRUE /\ hv'.cpus = 0 /\ regions' = regions /\ cpu' = cpu
<1>1. /\ hv = [vm |-> hv.vm, gic |-> hv.gic, redist |-> hv.redist, cpus |-> 0, clash |-> hv.clash]
      /\ hv.clash = FALSE
  BY DEF GMHv
<1> DEFINE z == hv.clash \/ hv.vm
           h1 == [hv EXCEPT !.vm = TRUE]
<1>2. h1 = [vm |-> TRUE, gic |-> hv.gic, redist |-> hv.redist, cpus |-> 0, clash |-> hv.clash]
  BY GMHvPut, Zenon
<1>3. z = FALSE
  BY <1>1
<1>4. h1.clash = FALSE
  BY <1>1, <1>2
<1> HIDE DEF h1
<1>5. hv' = [h1 EXCEPT !.clash = @ \/ hv.vm]
  BY DEF GM!NewMachine, h1
<1>6. (h1.clash \/ hv.vm) = FALSE
  BY <1>4
<1>7. hv' = [h1 EXCEPT !.clash = hv.clash]
  BY <1>5, <1>6, <1>1, Zenon
<1>8. hv' = [vm |-> TRUE, gic |-> hv.gic, redist |-> hv.redist, cpus |-> 0, clash |-> hv.clash]
  BY <1>7, <1>2, GMHvSet
<1>9. GMHv' /\ hv'.vm = TRUE /\ hv'.cpus = 0
  BY <1>8, GMHvIs DEF GMHv
<1> QED
  BY <1>9 DEF GM!NewMachine

LEMMA GMCreateGIC ==
    ASSUME GMHv, GM!CreateGIC
    PROVE GMHv' /\ hv'.vm = hv.vm /\ hv'.cpus = hv.cpus /\ regions' = regions /\ cpu' = cpu
<1>1. hv = [vm |-> hv.vm, gic |-> hv.gic, redist |-> hv.redist, cpus |-> hv.cpus, clash |-> hv.clash]
  BY DEF GMHv
<1>2. hv' = [hv EXCEPT !.gic = "new"] /\ regions' = regions /\ cpu' = cpu
  BY DEF GM!CreateGIC
<1>3. hv' = [vm |-> hv.vm, gic |-> "new", redist |-> hv.redist, cpus |-> hv.cpus, clash |-> hv.clash]
  BY <1>1, <1>2, GMHvSet
<1>4. GMHv' /\ hv'.vm = hv.vm /\ hv'.cpus = hv.cpus
  BY <1>3, GMHvIs DEF GMHv
<1> QED
  BY <1>2, <1>4

LEMMA GMNewVCPU ==
    ASSUME GMHv, hv.vm = TRUE, hv.cpus = 0, GM!NewVCPU
    PROVE /\ GMHv' /\ hv'.vm = TRUE /\ hv'.cpus = 1 /\ regions' = regions
          /\ cpu'.pc = 1
          /\ cpu' = [pc |-> cpu'.pc, x |-> cpu'.x, cnthctl |-> cpu'.cnthctl, simd |-> cpu'.simd]
<1>1. hv = [vm |-> TRUE, gic |-> hv.gic, redist |-> hv.redist, cpus |-> hv.cpus, clash |-> hv.clash]
  BY DEF GMHv
<1>2. regions' = regions /\ cpu' = [GM!NoCPU EXCEPT !.pc = 1]
  BY DEF GM!NewVCPU
<1>3. cpu' = [pc |-> 1, x |-> 0, cnthctl |-> 0, simd |-> 0]
  BY <1>2, GMSet DEF GM!NoCPU
<1> DEFINE h1 == [hv EXCEPT !.cpus = @ + 1]
<1>4. h1 = [vm |-> TRUE, gic |-> hv.gic, redist |-> hv.redist, cpus |-> 1, clash |-> hv.clash]
  <2>1. h1 = [hv EXCEPT !.cpus = 1]
    BY <1>1
  <2> HIDE DEF h1
  <2> QED
    BY <1>1, <2>1, GMHvSet
<1>5. \E v : hv' = [h1 EXCEPT !.redist = v]
  BY DEF GM!NewVCPU
<1> HIDE DEF h1
<1>6. PICK v : hv' = [h1 EXCEPT !.redist = v]
  BY <1>5
<1>7. hv' = [vm |-> TRUE, gic |-> hv.gic, redist |-> v, cpus |-> 1, clash |-> hv.clash]
  BY <1>4, <1>6, GMHvSet
<1>8. GMHv' /\ hv'.vm = TRUE /\ hv'.cpus = 1
  BY <1>7, GMHvIs DEF GMHv
<1>9. cpu'.pc = 1 /\ cpu' = [pc |-> cpu'.pc, x |-> cpu'.x, cnthctl |-> cpu'.cnthctl, simd |-> cpu'.simd]
  BY <1>3
<1> QED
  BY <1>2, <1>8, <1>9

LEMMA GMSetGICState ==
    ASSUME GMHv, hv.vm = TRUE, hv.cpus = 1, GM!SetGICState
    PROVE /\ GMHv' /\ hv'.vm = TRUE /\ hv'.cpus = 1 /\ regions' = regions /\ cpu' = cpu
          /\ hv'.gic = saved.gic /\ hv'.redist = saved.redist
<1>1. hv = [vm |-> hv.vm, gic |-> hv.gic, redist |-> hv.redist, cpus |-> 1, clash |-> hv.clash]
  BY DEF GMHv
<1> DEFINE h1 == [hv EXCEPT !.gic = saved.gic]
<1>2. h1 = [vm |-> hv.vm, gic |-> saved.gic, redist |-> hv.redist, cpus |-> 1, clash |-> hv.clash]
  BY GMHvPut, Zenon
<1>3. hv' = [h1 EXCEPT !.redist = saved.redist] /\ regions' = regions /\ cpu' = cpu
  BY DEF GM!SetGICState
<1> HIDE DEF h1
<1>4. hv' = [vm |-> hv.vm, gic |-> saved.gic, redist |-> saved.redist, cpus |-> 1, clash |-> hv.clash]
  BY <1>2, <1>3, GMHvSet
<1>5. GMHv' /\ hv'.vm = TRUE /\ hv'.cpus = 1 /\ hv'.gic = saved.gic /\ hv'.redist = saved.redist
  BY <1>4, GMHvIs DEF GMHv
<1> QED
  BY <1>3, <1>5

(* The parts of GMShape a step of the setup may change. *)
GMRegions == DOMAIN regions \subseteq {"rom", "ram"} /\ \A r \in DOMAIN regions : RegionOK(regions[r])
GMCPU(top) ==
    /\ cpu = [pc |-> cpu.pc, x |-> cpu.x, cnthctl |-> cpu.cnthctl, simd |-> cpu.simd]
    /\ cpu.pc \in 0 .. top

LEMMA GMMaps ==
    ASSUME GMRegions, NEW k \in {"rom", "ram"}, NEW x, regions' = GM!With(regions, k, [at |-> 1, exec |-> x])
    PROVE GMRegions' /\ DOMAIN regions' = DOMAIN regions \cup {k}
<1>1. DOMAIN regions' = DOMAIN regions \cup {k}
  BY DEF GM!With
<1>2. ASSUME NEW r \in DOMAIN regions' PROVE RegionOK(regions'[r])
  <2>1. CASE r = k
    <3>1. regions'[r] = [at |-> 1, exec |-> x]
      BY <1>2, <2>1 DEF GM!With
    <3> QED
      BY <3>1 DEF RegionOK
  <2>2. CASE r # k
    <3>1. r \in DOMAIN regions /\ regions'[r] = regions[r]
      BY <1>2, <2>2 DEF GM!With
    <3> QED
      BY <3>1 DEF GMRegions
  <2> QED
    BY <2>1, <2>2
<1> QED
  BY <1>1, <1>2 DEF GMRegions

LEMMA GMMapRegions ==
    ASSUME GMSaved, GM!MapRegions
    PROVE GMRegions' /\ hv' = hv /\ cpu' = cpu
          /\ DOMAIN regions' = DOMAIN saved.regions
          /\ \A r \in DOMAIN regions' : regions'[r].at = saved.regions[r].at
<1>1. regions' = [r \in DOMAIN saved.regions |-> [saved.regions[r] EXCEPT !.exec = "rwx"]] /\ hv' = hv /\ cpu' = cpu
  BY DEF GM!MapRegions
<1>2. DOMAIN regions' = DOMAIN saved.regions /\ DOMAIN saved.regions = {"rom", "ram"}
  BY <1>1 DEF GMSaved
<1>3. ASSUME NEW r \in DOMAIN saved.regions
      PROVE regions'[r].at = saved.regions[r].at /\ RegionOK(regions'[r])
  <2> DEFINE g == saved.regions[r]
  <2>1. g = [at |-> g.at, exec |-> g.exec]
    BY DEF GMSaved, RegionOK
  <2>2. regions'[r] = [g EXCEPT !.exec = "rwx"]
    BY <1>1
  <2> HIDE DEF g
  <2>3. regions'[r] = [at |-> g.at, exec |-> "rwx"]
    BY <2>1, <2>2
  <2> QED
    BY <2>3 DEF g, RegionOK
<1> QED
  BY <1>1, <1>2, <1>3 DEF GMRegions

LEMMA GMBuild ==
    ASSUME GMInv, cmd.phase = "setup", NEW i \in Nat, NEW kind, i = cmd.i, kind = cmd.kind,
           i <= Len(GM!Setup(kind)), GM!DoStep(GM!Setup(kind)[i]), NEW n \in Nat \ {0}
    PROVE /\ i \in 1 .. IF kind = "test" THEN 3 ELSE 7
          /\ GMHv' /\ GMRegions' /\ GMBuilt(i + 1, kind)' /\ (GMCPU(n) => GMCPU(n)')
<1>1. /\ i \in 1 .. IF kind = "test" THEN 3 ELSE 7
      /\ GMHv /\ GMRegions /\ GMBuilt(i, kind)
  BY DEF GMInv, GMShape, GMRegions, GMPhase, GMSetup
<1>2. CASE kind = "test"
  <2>1. GM!Setup(kind) = <<"vm", "ram", "vcpu">>
    BY <1>2 DEF GM!Setup
  <2>2. CASE i = 1
    <3>1. GM!NewMachine
      BY <2>1, <2>2 DEF GM!DoStep
    <3>2. hv.vm = FALSE /\ hv.cpus = 0
      BY <1>1, <1>2, <2>2 DEF GMBuilt
    <3>3. GMHv' /\ hv'.vm = TRUE /\ hv'.cpus = 0 /\ regions' = regions /\ cpu' = cpu
      BY <3>1, <3>2, <1>1, GMNewMachine
    <3> QED
      BY <1>1, <1>2, <2>2, <3>3 DEF GMBuilt, GMRegions, GMCPU
  <2>3. CASE i = 2
    <3>1. GM!MapRAM
      BY <2>1, <2>3 DEF GM!DoStep
    <3>2. regions' = GM!With(regions, "ram", [at |-> 1, exec |-> "rwx"]) /\ hv' = hv /\ cpu' = cpu
      BY <3>1 DEF GM!MapRAM
    <3>3. GMRegions'
      BY <3>2, <1>1, GMMaps
    <3> QED
      BY <1>1, <1>2, <2>3, <3>2, <3>3 DEF GMBuilt, GMCPU, GMHv
  <2>4. CASE i = 3
    <3>1. GM!NewVCPU
      BY <2>1, <2>4 DEF GM!DoStep
    <3>2. hv.vm = TRUE /\ hv.cpus = 0
      BY <1>1, <1>2, <2>4 DEF GMBuilt
    <3>3. /\ GMHv' /\ hv'.vm = TRUE /\ hv'.cpus = 1 /\ regions' = regions
          /\ cpu'.pc = 1
          /\ cpu' = [pc |-> cpu'.pc, x |-> cpu'.x, cnthctl |-> cpu'.cnthctl, simd |-> cpu'.simd]
      BY <3>1, <3>2, <1>1, GMNewVCPU
    <3> QED
      BY <1>1, <1>2, <2>4, <3>3 DEF GMBuilt, GMRegions, GMCPU
  <2> QED
    BY <1>1, <1>2, <2>2, <2>3, <2>4
<1>3. CASE kind # "test"
  <2>1. GM!Setup(kind) = <<"vm", "gic", "firmware", "rom", "ram", "vcpu", "cpsr">>
    BY <1>3 DEF GM!Setup
  <2>2. CASE i = 1
    <3>1. GM!NewMachine
      BY <2>1, <2>2 DEF GM!DoStep
    <3>2. hv.vm = FALSE /\ hv.cpus = 0
      BY <1>1, <1>3, <2>2 DEF GMBuilt
    <3>3. GMHv' /\ hv'.vm = TRUE /\ hv'.cpus = 0 /\ regions' = regions /\ cpu' = cpu
      BY <3>1, <3>2, <1>1, GMNewMachine
    <3> QED
      BY <1>1, <1>3, <2>2, <3>3 DEF GMBuilt, GMRegions, GMCPU
  <2>3. CASE i = 2
    <3>1. GM!CreateGIC
      BY <2>1, <2>3 DEF GM!DoStep
    <3>2. GMHv' /\ hv'.vm = hv.vm /\ hv'.cpus = hv.cpus /\ regions' = regions /\ cpu' = cpu
      BY <3>1, <1>1, GMCreateGIC
    <3> QED
      BY <1>1, <1>3, <2>3, <3>2 DEF GMBuilt, GMRegions, GMCPU
  <2>4. CASE i = 3 \/ i = 7
    <3>1. hv' = hv /\ regions' = regions /\ cpu' = cpu
      BY <2>1, <2>4 DEF GM!DoStep
    <3>2. GMHv' /\ GMRegions' /\ (GMCPU(n) => GMCPU(n)')
      BY <3>1, <1>1 DEF GMHv, GMRegions, GMCPU
    <3>3. GMBuilt(i + 1, kind)'
      <4>1. CASE i = 3
        BY <1>1, <1>3, <3>1, <4>1 DEF GMBuilt
      <4>2. CASE i = 7
        BY <1>1, <1>3, <3>1, <4>2 DEF GMBuilt
      <4> QED
        BY <2>4, <4>1, <4>2
    <3> QED
      BY <1>1, <3>2, <3>3
  <2>5. CASE i = 4
    <3>1. GM!MapROM
      BY <2>1, <2>5 DEF GM!DoStep
    <3>2. regions' = GM!With(regions, "rom", [at |-> 1, exec |-> "rx"]) /\ hv' = hv /\ cpu' = cpu
      BY <3>1 DEF GM!MapROM
    <3>3. GMRegions' /\ DOMAIN regions' = DOMAIN regions \cup {"rom"}
      BY <3>2, <1>1, GMMaps
    <3>4. DOMAIN regions = {}
      BY <1>1, <1>3, <2>5 DEF GMBuilt
    <3> QED
      BY <1>1, <1>3, <2>5, <3>2, <3>3, <3>4 DEF GMBuilt, GMCPU, GMHv
  <2>6. CASE i = 5
    <3>1. GM!MapRAM
      BY <2>1, <2>6 DEF GM!DoStep
    <3>2. regions' = GM!With(regions, "ram", [at |-> 1, exec |-> "rwx"]) /\ hv' = hv /\ cpu' = cpu
      BY <3>1 DEF GM!MapRAM
    <3>3. GMRegions' /\ DOMAIN regions' = DOMAIN regions \cup {"ram"}
      BY <3>2, <1>1, GMMaps
    <3>4. DOMAIN regions = {"rom"}
      BY <1>1, <1>3, <2>6 DEF GMBuilt
    <3>5. DOMAIN regions' = {"rom", "ram"}
      BY <3>3, <3>4
    <3> QED
      BY <1>1, <1>3, <2>6, <3>2, <3>3, <3>5 DEF GMBuilt, GMCPU, GMHv
  <2>7. CASE i = 6
    <3>1. GM!NewVCPU
      BY <2>1, <2>7 DEF GM!DoStep
    <3>2. hv.vm = TRUE /\ hv.cpus = 0
      BY <1>1, <1>3, <2>7 DEF GMBuilt
    <3>3. /\ GMHv' /\ hv'.vm = TRUE /\ hv'.cpus = 1 /\ regions' = regions
          /\ cpu'.pc = 1
          /\ cpu' = [pc |-> cpu'.pc, x |-> cpu'.x, cnthctl |-> cpu'.cnthctl, simd |-> cpu'.simd]
      BY <3>1, <3>2, <1>1, GMNewVCPU
    <3> QED
      BY <1>1, <1>3, <2>7, <3>3 DEF GMBuilt, GMRegions, GMCPU
  <2>8. i \in 1 .. 7
    BY <1>1, <1>3
  <2>9. i = 1 \/ i = 2 \/ i = 3 \/ i = 4 \/ i = 5 \/ i = 6 \/ i = 7
    BY <2>8
  <2> QED
    BY <2>2, <2>3, <2>4, <2>5, <2>6, <2>7, <2>9
<1> QED
  BY <1>2, <1>3

LEMMA GMRebuild ==
    ASSUME GMInv, cmd.phase = "restore", NEW i \in Nat, i = cmd.i,
           i <= Len(GM!RestoreSteps), GM!DoStep(GM!RestoreSteps[i]), NEW n \in Nat \ {0}, n = Len(cmd.program), saved' = saved
    PROVE /\ i \in 1 .. 6 /\ GMHv' /\ GMRegions' /\ GMRebuilt(i + 1)' /\ GMCPU(n)'
<1>1. /\ i \in 1 .. 6 /\ GMHv /\ GMRegions /\ GMRebuilt(i) /\ GMSaved /\ GMCPU(n)
  BY DEF GMInv, GMShape, GMRegions, GMPhase, GMRestore, GMCPU
<1>2. GM!RestoreSteps = <<"vm", "gic", "regions", "vcpu", "gicstate", "registers">>
  BY DEF GM!RestoreSteps
<1>3. CASE i = 1
  <2>1. GM!NewMachine
    BY <1>2, <1>3 DEF GM!DoStep
  <2>2. hv.vm = FALSE /\ hv.cpus = 0
    BY <1>1, <1>3 DEF GMRebuilt
  <2>3. GMHv' /\ hv'.vm = TRUE /\ hv'.cpus = 0 /\ regions' = regions /\ cpu' = cpu
    BY <2>1, <2>2, <1>1, GMNewMachine
  <2> QED
    BY <1>1, <1>3, <2>3 DEF GMRebuilt, GMRegions, GMCPU
<1>4. CASE i = 2
  <2>1. GM!CreateGIC
    BY <1>2, <1>4 DEF GM!DoStep
  <2>2. GMHv' /\ hv'.vm = hv.vm /\ hv'.cpus = hv.cpus /\ regions' = regions /\ cpu' = cpu
    BY <2>1, <1>1, GMCreateGIC
  <2>3. hv.vm = TRUE /\ hv.cpus = 0
    BY <1>1, <1>4 DEF GMRebuilt
  <2>4. GMRebuilt(i + 1)'
    BY <1>4, <2>2, <2>3 DEF GMRebuilt
  <2> QED
    BY <1>1, <2>2, <2>4 DEF GMRegions, GMCPU
<1>5. CASE i = 3
  <2>1. GM!MapRegions
    BY <1>2, <1>5 DEF GM!DoStep
  <2>2. GMRegions' /\ hv' = hv /\ cpu' = cpu
          /\ DOMAIN regions' = DOMAIN saved.regions
          /\ \A r \in DOMAIN regions' : regions'[r].at = saved.regions[r].at
    BY <2>1, <1>1, GMMapRegions
  <2> QED
    BY <1>1, <1>5, <2>2 DEF GMRebuilt, GMSame, GMCPU, GMHv
<1>6. CASE i = 4
  <2>1. GM!NewVCPU
    BY <1>2, <1>6 DEF GM!DoStep
  <2>2. hv.vm = TRUE /\ hv.cpus = 0 /\ GMSame
    BY <1>1, <1>6 DEF GMRebuilt
  <2>3. /\ GMHv' /\ hv'.vm = TRUE /\ hv'.cpus = 1 /\ regions' = regions
        /\ cpu'.pc = 1
        /\ cpu' = [pc |-> cpu'.pc, x |-> cpu'.x, cnthctl |-> cpu'.cnthctl, simd |-> cpu'.simd]
    BY <2>1, <2>2, <1>1, GMNewVCPU
  <2> QED
    BY <1>1, <1>6, <2>2, <2>3 DEF GMRebuilt, GMRegions, GMCPU, GMSame
<1>7. CASE i = 5
  <2>1. GM!SetGICState
    BY <1>2, <1>7 DEF GM!DoStep
  <2>2. hv.vm = TRUE /\ hv.cpus = 1 /\ GMSame
    BY <1>1, <1>7 DEF GMRebuilt
  <2>3. /\ GMHv' /\ hv'.vm = TRUE /\ hv'.cpus = 1 /\ regions' = regions /\ cpu' = cpu
        /\ hv'.gic = saved.gic /\ hv'.redist = saved.redist
    BY <2>1, <2>2, <1>1, GMSetGICState
  <2> QED
    BY <1>1, <1>7, <2>2, <2>3 DEF GMRebuilt, GMRegions, GMCPU, GMSame
<1>8. CASE i = 6
  <2>1. cpu' = GM!RestoreVCPU(saved.cpu) /\ hv' = hv /\ regions' = regions
    BY <1>2, <1>8 DEF GM!DoStep
  <2>2. cpu' = saved.cpu
    <3> DEFINE st == saved.cpu
    <3>1. st = [pc |-> st.pc, x |-> st.x, cnthctl |-> st.cnthctl, simd |-> st.simd]
      BY <1>1 DEF GMSaved
    <3> DEFINE a == [st EXCEPT !.pc = 0]
               b == [a EXCEPT !.x = 0]
               c == [b EXCEPT !.pc = st.pc]
               d == [c EXCEPT !.x = st.x]
    <3>2. GM!RestoreVCPU(st) = d
      BY DEF GM!RestoreVCPU
    <3> HIDE DEF st
    <3>3. a = [pc |-> 0, x |-> st.x, cnthctl |-> st.cnthctl, simd |-> st.simd]
      BY <3>1
    <3> HIDE DEF a
    <3>4. b = [pc |-> 0, x |-> 0, cnthctl |-> st.cnthctl, simd |-> st.simd]
      BY <3>3
    <3> HIDE DEF b
    <3>5. c = [pc |-> st.pc, x |-> 0, cnthctl |-> st.cnthctl, simd |-> st.simd]
      BY <3>4
    <3> HIDE DEF c
    <3>6. d = [pc |-> st.pc, x |-> st.x, cnthctl |-> st.cnthctl, simd |-> st.simd]
      BY <3>5
    <3> QED
      BY <2>1, <3>1, <3>2, <3>6, Zenon DEF st
  <2>3. GMCPU(n)'
    BY <2>2, <1>1 DEF GMCPU, GMSaved
  <2> QED
    BY <1>1, <1>8, <2>1, <2>2, <2>3 DEF GMRebuilt, GMRegions, GMHv, GMSame
<1>9. i = 1 \/ i = 2 \/ i = 3 \/ i = 4 \/ i = 5 \/ i = 6
  BY <1>1
<1> QED
  BY <1>3, <1>4, <1>5, <1>6, <1>7, <1>8, <1>9

(* The command's record as the setup changes it. *)
LEMMA GMCmdStep ==
    ASSUME GMShape, NEW i, NEW ph, NEW o, NEW f, NEW b,
           cmd' = [kind |-> cmd.kind, phase |-> ph, i |-> i, out |-> o, first |-> f,
                   program |-> cmd.program, disks |-> cmd.disks, fresh |-> b], b \in BOOLEAN
    PROVE /\ cmd'.kind = cmd.kind /\ cmd'.phase = ph /\ cmd'.i = i /\ cmd'.out = o /\ cmd'.first = f
          /\ cmd'.program = cmd.program /\ cmd'.disks = cmd.disks /\ cmd'.fresh = b
          /\ (GMHv' /\ GMRegions' /\ GMCPU(Len(cmd.program))'
                  /\ watch' = [exits |-> watch'.exits, dev |-> watch'.dev, pc |-> watch'.pc, same |-> watch'.same,
                               samples |-> watch'.samples, seen |-> watch'.seen]) => GMShape'
<1>1. /\ cmd'.kind = cmd.kind /\ cmd'.phase = ph /\ cmd'.i = i /\ cmd'.out = o /\ cmd'.first = f
      /\ cmd'.program = cmd.program /\ cmd'.disks = cmd.disks /\ cmd'.fresh = b
  OBVIOUS
<1>2. cmd' = [kind |-> cmd'.kind, phase |-> cmd'.phase, i |-> cmd'.i, out |-> cmd'.out, first |-> cmd'.first,
              program |-> cmd'.program, disks |-> cmd'.disks, fresh |-> cmd'.fresh]
  BY <1>1
<1>3. /\ ProgramOK(cmd'.program) /\ cmd'.disks \in BOOLEAN
      /\ (cmd'.kind = "test" => cmd'.program[1].op = "store") /\ cmd'.fresh \in BOOLEAN
  BY <1>1 DEF GMShape
<1>4. (GMHv' /\ GMRegions' /\ GMCPU(Len(cmd.program))'
                  /\ watch' = [exits |-> watch'.exits, dev |-> watch'.dev, pc |-> watch'.pc, same |-> watch'.same,
                               samples |-> watch'.samples, seen |-> watch'.seen]) => GMShape'
  <2>1. GMCPU(Len(cmd.program))' => /\ cpu' = [pc |-> cpu'.pc, x |-> cpu'.x, cnthctl |-> cpu'.cnthctl, simd |-> cpu'.simd]
                                    /\ cpu'.pc \in 0 .. Len(cmd'.program)
    BY <1>1 DEF GMCPU
  <2> QED
    BY <1>2, <1>3, <2>1 DEF GMShape, GMRegions
<1> QED
  BY <1>1, <1>4

LEMMA GMCmdPut ==
    ASSUME GMShape, NEW v, NEW w, NEW u
    PROVE /\ [cmd EXCEPT !.i = v] = [kind |-> cmd.kind, phase |-> cmd.phase, i |-> v, out |-> cmd.out, first |-> cmd.first,
                   program |-> cmd.program, disks |-> cmd.disks, fresh |-> cmd.fresh]
          /\ [cmd EXCEPT !.i = v, !.phase = w, !.fresh = u] = [kind |-> cmd.kind, phase |-> w, i |-> v, out |-> cmd.out, first |-> cmd.first,
                   program |-> cmd.program, disks |-> cmd.disks, fresh |-> u]
          /\ [cmd EXCEPT !.phase = w, !.out = u] = [kind |-> cmd.kind, phase |-> w, i |-> cmd.i, out |-> u, first |-> cmd.first,
                   program |-> cmd.program, disks |-> cmd.disks, fresh |-> cmd.fresh]
          /\ [cmd EXCEPT !.phase = w, !.first = u] = [kind |-> cmd.kind, phase |-> w, i |-> cmd.i, out |-> cmd.out, first |-> u,
                   program |-> cmd.program, disks |-> cmd.disks, fresh |-> cmd.fresh]
          /\ [cmd EXCEPT !.phase = w] = [kind |-> cmd.kind, phase |-> w, i |-> cmd.i, out |-> cmd.out, first |-> cmd.first,
                   program |-> cmd.program, disks |-> cmd.disks, fresh |-> cmd.fresh]
          /\ [cmd EXCEPT !.phase = w, !.i = v, !.out = u] = [kind |-> cmd.kind, phase |-> w, i |-> v, out |-> u, first |-> cmd.first,
                   program |-> cmd.program, disks |-> cmd.disks, fresh |-> cmd.fresh]
<1> DEFINE ci == [cmd EXCEPT !.i = v]
           cip == [ci EXCEPT !.phase = w]
           cipf == [cip EXCEPT !.fresh = u]
           cp == [cmd EXCEPT !.phase = w]
           cpo == [cp EXCEPT !.out = u]
           cpf == [cp EXCEPT !.first = u]
           cpi == [cp EXCEPT !.i = v]
           cpio == [cpi EXCEPT !.out = u]
<1>1. cmd = [kind |-> cmd.kind, phase |-> cmd.phase, i |-> cmd.i, out |-> cmd.out, first |-> cmd.first, program |-> cmd.program, disks |-> cmd.disks, fresh |-> cmd.fresh]
  BY DEF GMShape
<1>2. ci = [kind |-> cmd.kind, phase |-> cmd.phase, i |-> v, out |-> cmd.out, first |-> cmd.first, program |-> cmd.program, disks |-> cmd.disks, fresh |-> cmd.fresh]
  BY <1>1
<1>3. cp = [kind |-> cmd.kind, phase |-> w, i |-> cmd.i, out |-> cmd.out, first |-> cmd.first, program |-> cmd.program, disks |-> cmd.disks, fresh |-> cmd.fresh]
  BY <1>1
<1> HIDE DEF ci, cp
<1>4. cip = [kind |-> cmd.kind, phase |-> w, i |-> v, out |-> cmd.out, first |-> cmd.first, program |-> cmd.program, disks |-> cmd.disks, fresh |-> cmd.fresh]
  BY <1>2
<1>5. cpo = [kind |-> cmd.kind, phase |-> w, i |-> cmd.i, out |-> u, first |-> cmd.first, program |-> cmd.program, disks |-> cmd.disks, fresh |-> cmd.fresh]
  BY <1>3
<1>6. cpf = [kind |-> cmd.kind, phase |-> w, i |-> cmd.i, out |-> cmd.out, first |-> u, program |-> cmd.program, disks |-> cmd.disks, fresh |-> cmd.fresh]
  BY <1>3
<1>7. cpi = [kind |-> cmd.kind, phase |-> w, i |-> v, out |-> cmd.out, first |-> cmd.first, program |-> cmd.program, disks |-> cmd.disks, fresh |-> cmd.fresh]
  BY <1>3
<1> HIDE DEF cip, cpi, cpo, cpf
<1>8. cipf = [kind |-> cmd.kind, phase |-> w, i |-> v, out |-> cmd.out, first |-> cmd.first, program |-> cmd.program, disks |-> cmd.disks, fresh |-> u]
  BY <1>4
<1>9. cpio = [kind |-> cmd.kind, phase |-> w, i |-> v, out |-> u, first |-> cmd.first, program |-> cmd.program, disks |-> cmd.disks, fresh |-> cmd.fresh]
  BY <1>7
<1> HIDE DEF cipf, cpio
<1> QED
  BY <1>2, <1>3, <1>5, <1>6, <1>8, <1>9, Zenon DEF ci, cp, cip, cpo, cpf, cpi, cipf, cpio

LEMMA GMTrailKept ==
    ASSUME GMTrail, trail' = trail, cmd'.program = cmd.program,
           cmd'.first # "stopped" => cmd.first # "stopped",
           Completed' => Completed /\ Where' = Where
    PROVE GMTrail'
<1>1. TrailOK'
  BY DEF GMTrail, TrailOK
<1>2. GM!EachOnce'
  BY DEF GMTrail, GM!EachOnce, GM!Moved
<1>3. (Completed => Where = GM!Moved(trail[Len(trail)]))'
  BY DEF GMTrail, GM!Moved
<1> QED
  BY <1>1, <1>2, <1>3 DEF GMTrail

LEMMA GMWatchNone ==
    ASSUME GMInv, watch' = watch \/ watch' = GM!NoWatch, cmd'.out = "hung" => cmd.out = "hung" /\ watch' = watch
    PROVE /\ GMWatch'
          /\ watch' = [exits |-> watch'.exits, dev |-> watch'.dev, pc |-> watch'.pc, same |-> watch'.same,
                       samples |-> watch'.samples, seen |-> watch'.seen]
<1>1. CASE watch' = watch
  BY <1>1 DEF GMInv, GMShape, GMWatch
<1>2. CASE watch' = GM!NoWatch /\ cmd'.out # "hung"
  <2>1. /\ watch' = [exits |-> 0, dev |-> 0, pc |-> 1, same |-> 0, samples |-> <<>>, seen |-> <<>>]
    BY <1>2 DEF GM!NoWatch
  <2>2. /\ watch'.exits = 0 /\ watch'.pc = 1 /\ watch'.same = 0 /\ watch'.samples = <<>> /\ watch'.dev = 0
        /\ watch'.seen = <<>>
    BY <2>1
  <2>3. GMWatch'
    BY <1>2, <2>2, GMAssumption DEF GMWatch
  <2> QED
    BY <2>1, <2>2, <2>3
<1> QED
  BY <1>1, <1>2

(* A step of the setup that is not its last. *)
LEMMA GMSetupOn ==
    ASSUME GMInv, GM!setupGuest, cmd.i < Len(GM!StepsNow)
    PROVE GMInv'
<1>1. /\ cmd.phase \in {"setup", "restore"} /\ cmd.i <= Len(GM!StepsNow) /\ GM!DoStep(GM!StepsNow[cmd.i])
      /\ cmd' = [cmd EXCEPT !.i = cmd.i + 1] /\ watch' = watch /\ trail' = trail /\ stayed' = stayed /\ saved' = saved
  BY DEF GM!setupGuest
<1>2. GMShape
  BY DEF GMInv
<1>3. cmd' = [kind |-> cmd.kind, phase |-> cmd.phase, i |-> cmd.i + 1, out |-> cmd.out, first |-> cmd.first,
              program |-> cmd.program, disks |-> cmd.disks, fresh |-> cmd.fresh]
  BY <1>1, <1>2, GMCmdPut
<1>4. /\ cmd'.kind = cmd.kind /\ cmd'.phase = cmd.phase /\ cmd'.i = cmd.i + 1 /\ cmd'.out = cmd.out
      /\ cmd'.first = cmd.first /\ cmd'.program = cmd.program /\ cmd'.disks = cmd.disks /\ cmd'.fresh = cmd.fresh
  BY <1>3
<1>5. GMWatch' /\ watch' = [exits |-> watch'.exits, dev |-> watch'.dev, pc |-> watch'.pc, same |-> watch'.same,
                            samples |-> watch'.samples, seen |-> watch'.seen]
  BY <1>1, <1>4, GMWatchNone
<1>6. GMCPU(Len(cmd.program)) /\ Len(cmd.program) \in Nat \ {0} /\ cmd.fresh \in BOOLEAN
  BY <1>2 DEF GMShape, GMCPU, ProgramOK
<1>7. GM!TreeReached' /\ GM!RestoredAsSaved'
  BY <1>1, <1>4 DEF GMInv, GM!TreeReached, GM!RestoredAsSaved
<1>8. GMTrail'
  <2>1. Completed' = Completed
    BY <1>1, <1>4 DEF Completed
  <2>2. Completed => Where' = Where
    <3>1. CASE cmd.phase = "setup"
      BY <3>1 DEF GMInv, GMPhase, GMSetup, Completed
    <3>2. CASE cmd.phase = "restore"
      BY <3>2, <1>1, <1>4 DEF Where
    <3> QED
      BY <3>1, <3>2, <1>1
  <2> QED
    BY <1>1, <1>4, <2>1, <2>2, GMTrailKept DEF GMInv
<1>9. CASE cmd.phase = "setup"
  <2> DEFINE i == cmd.i
             kind == cmd.kind
  <2>1. GM!StepsNow = GM!Setup(cmd.kind) /\ GMSetup
    BY <1>9 DEF GM!StepsNow, GMInv, GMPhase
  <2>2. i \in Nat
    BY <2>1 DEF GMSetup
  <2>3. i <= Len(GM!Setup(kind)) /\ GM!DoStep(GM!Setup(kind)[i])
    BY <1>1, <2>1
  <2>4. i = cmd.i /\ kind = cmd.kind
    OBVIOUS
  <2> HIDE DEF i, kind
  <2>5. PICK j \in Nat, k \in {kind} : j = i /\ k = kind
    BY <2>2
  <2>6. /\ j \in 1 .. IF k = "test" THEN 3 ELSE 7
        /\ GMHv' /\ GMRegions' /\ GMBuilt(j + 1, k)' /\ GMCPU(Len(cmd.program))'
    <3>1. PICK n \in Nat \ {0} : n = Len(cmd.program)
      BY <1>6
    <3>2. GMHv' /\ GMRegions' /\ GMBuilt(j + 1, k)' /\ (GMCPU(n) => GMCPU(n)') /\ j \in 1 .. IF k = "test" THEN 3 ELSE 7
      BY <2>3, <2>4, <2>5, <1>9, GMBuild
    <3>3. GMCPU(n)'
      BY <3>1, <3>2, <1>6
    <3>4. GMCPU(Len(cmd.program))'
      BY <3>1, <3>3, <1>4 DEF GMCPU
    <3> QED
      BY <3>2, <3>4
  <2>7. GMShape'
    BY <1>2, <1>3, <1>5, <1>6, <2>6, GMCmdStep
  <2>8. GMBuilt(cmd.i, cmd.kind)'
    BY <2>4, <2>5, <2>6, <1>4 DEF GMBuilt
  <2>9. cmd'.i \in 1 .. IF cmd'.kind = "test" THEN 3 ELSE 7
    <3>1. Len(GM!Setup(k)) = IF k = "test" THEN 3 ELSE 7
      BY DEF GM!Setup
    <3>2. j < Len(GM!Setup(k))
      BY <2>1, <2>4, <2>5
    <3> QED
      BY <3>1, <3>2, <2>4, <2>5, <1>4
  <2>10. GMPhase'
    BY <1>1, <1>4, <1>9, <2>1, <2>8, <2>9 DEF GMPhase, GMPhases, GMSetup
  <2> QED
    BY <1>5, <1>7, <1>8, <2>7, <2>10 DEF GMInv
<1>10. CASE cmd.phase = "restore"
  <2>1. GM!StepsNow = GM!RestoreSteps /\ GMRestore /\ GMSaved /\ cmd.phase # "setup"
    BY <1>10 DEF GM!StepsNow, GMInv, GMPhase
  <2>2. PICK j \in Nat : j = cmd.i
    BY <2>1 DEF GMRestore
  <2>3. j <= Len(GM!RestoreSteps) /\ GM!DoStep(GM!RestoreSteps[j])
    BY <1>1, <2>1, <2>2
  <2>4. PICK n \in Nat \ {0} : n = Len(cmd.program)
    BY <1>6
  <2>5. j \in 1 .. 6 /\ GMHv' /\ GMRegions' /\ GMRebuilt(j + 1)' /\ GMCPU(n)'
    BY <1>1, <1>10, <2>2, <2>3, <2>4, GMRebuild
  <2>6. GMCPU(Len(cmd.program))'
    BY <2>4, <2>5, <1>4 DEF GMCPU
  <2>7. GMShape'
    BY <1>2, <1>3, <1>5, <1>6, <2>5, <2>6, GMCmdStep
  <2>8. cmd'.i \in 1 .. 6
    <3>1. Len(GM!RestoreSteps) = 6
      BY DEF GM!RestoreSteps
    <3>2. j < 6
      BY <3>1, <2>1, <2>2
    <3> QED
      BY <3>2, <2>2, <1>4
  <2>9. GMRebuilt(cmd.i)'
    BY <2>2, <2>5, <1>4 DEF GMRebuilt
  <2>10. GMSaved'
    BY <2>1, <1>1, <1>4 DEF GMSaved
  <2>11. GMPhase'
    BY <1>1, <1>4, <1>10, <2>1, <2>8, <2>9, <2>10 DEF GMPhase, GMPhases, GMRestore
  <2> QED
    BY <1>5, <1>7, <1>8, <2>7, <2>11 DEF GMInv
<1> QED
  BY <1>1, <1>9, <1>10

(* The last step: the machine is there, the guest begins or goes on. *)
LEMMA GMSetupDone ==
    ASSUME GMInv, GM!setupGuest, ~(cmd.i < Len(GM!StepsNow))
    PROVE GMInv'
<1>1. /\ cmd.phase \in {"setup", "restore"} /\ cmd.i <= Len(GM!StepsNow) /\ GM!DoStep(GM!StepsNow[cmd.i])
      /\ watch' = GM!NoWatch /\ trail' = trail /\ stayed' = stayed /\ saved' = saved
      /\ cmd' = [cmd EXCEPT !.i = 1, !.phase = IF @ = "setup" THEN "run" ELSE "rerun", !.fresh = TRUE]
  BY DEF GM!setupGuest
<1> DEFINE ph == IF cmd.phase = "setup" THEN "run" ELSE "rerun"
<1>2. GMShape
  BY DEF GMInv
<1>c. cmd' = [cmd EXCEPT !.i = 1, !.phase = ph, !.fresh = TRUE]
  <2> DEFINE c1 == [cmd EXCEPT !.i = 1]
             c2 == [c1 EXCEPT !.phase = IF @ = "setup" THEN "run" ELSE "rerun"]
  <2>1. c1.phase = cmd.phase /\ c1 = [kind |-> cmd.kind, phase |-> cmd.phase, i |-> 1, out |-> cmd.out, first |-> cmd.first,
              program |-> cmd.program, disks |-> cmd.disks, fresh |-> cmd.fresh]
    <3>1. c1 = [kind |-> cmd.kind, phase |-> cmd.phase, i |-> 1, out |-> cmd.out, first |-> cmd.first,
              program |-> cmd.program, disks |-> cmd.disks, fresh |-> cmd.fresh]
      BY <1>2, GMCmdPut
    <3> HIDE DEF c1
    <3> QED
      BY <3>1
  <2>2. cmd' = [c2 EXCEPT !.fresh = TRUE]
    BY <1>1, Zenon
  <2> HIDE DEF c1
  <2>3. c2 = [c1 EXCEPT !.phase = ph]
    BY <2>1
  <2> HIDE DEF c2, ph
  <2> QED
    BY <2>2, <2>3, Zenon DEF c1
<1> HIDE DEF ph
<1>3. cmd' = [kind |-> cmd.kind, phase |-> ph, i |-> 1, out |-> cmd.out, first |-> cmd.first,
              program |-> cmd.program, disks |-> cmd.disks, fresh |-> TRUE]
  BY <1>c, <1>2, GMCmdPut, ZenonT(60)
<1>4. /\ cmd'.kind = cmd.kind /\ cmd'.phase = ph /\ cmd'.i = 1 /\ cmd'.out = cmd.out
      /\ cmd'.first = cmd.first /\ cmd'.program = cmd.program /\ cmd'.disks = cmd.disks /\ cmd'.fresh = TRUE
      /\ (GMHv' /\ GMRegions' /\ GMCPU(Len(cmd.program))'
              /\ watch' = [exits |-> watch'.exits, dev |-> watch'.dev, pc |-> watch'.pc, same |-> watch'.same,
                           samples |-> watch'.samples, seen |-> watch'.seen]) => GMShape'
  <2>1. PICK b \in BOOLEAN : b = TRUE
    OBVIOUS
  <2>2. cmd' = [kind |-> cmd.kind, phase |-> ph, i |-> 1, out |-> cmd.out, first |-> cmd.first,
              program |-> cmd.program, disks |-> cmd.disks, fresh |-> b]
    BY <1>3, <2>1, Zenon
  <2> QED
    BY <1>2, <2>1, <2>2, GMCmdStep, Zenon
<1>o. cmd.out = "none"
  BY <1>1 DEF GMInv, GMPhase, GMSetup, GMRestore
<1>5. GMWatch' /\ watch' = [exits |-> watch'.exits, dev |-> watch'.dev, pc |-> watch'.pc, same |-> watch'.same,
                            samples |-> watch'.samples, seen |-> watch'.seen]
  BY <1>1, <1>4, <1>o, GMWatchNone
<1>w. watch'.exits = 0 /\ watch'.same = 0 /\ MaxExits \in Nat /\ StuckSamples \in Nat \ {0}
  BY <1>1, GMAssumption DEF GM!NoWatch
<1>6. GMCPU(Len(cmd.program)) /\ Len(cmd.program) \in Nat \ {0} /\ cmd.fresh \in BOOLEAN
  BY <1>2 DEF GMShape, GMCPU, ProgramOK
<1>7. GM!TreeReached'
  BY <1>1 DEF GMInv, GM!TreeReached
<1>9. CASE cmd.phase = "setup"
  <2> DEFINE i == cmd.i
             kind == cmd.kind
  <2>1. GM!StepsNow = GM!Setup(cmd.kind) /\ GMSetup /\ ph = "run"
    BY <1>9 DEF GM!StepsNow, GMInv, GMPhase, ph
  <2>2. i \in Nat
    BY <2>1 DEF GMSetup
  <2>3. i <= Len(GM!Setup(kind)) /\ GM!DoStep(GM!Setup(kind)[i]) /\ ~(i < Len(GM!Setup(kind)))
    BY <1>1, <2>1
  <2>4. i = cmd.i /\ kind = cmd.kind
    OBVIOUS
  <2> HIDE DEF i, kind
  <2>5. PICK j \in Nat, k \in {kind} : j = i /\ k = kind
    BY <2>2
  <2>6. /\ GMHv' /\ GMRegions' /\ GMBuilt(j + 1, k)' /\ GMCPU(Len(cmd.program))'
    <3>1. PICK n \in Nat \ {0} : n = Len(cmd.program)
      BY <1>6
    <3>2. GMHv' /\ GMRegions' /\ GMBuilt(j + 1, k)' /\ (GMCPU(n) => GMCPU(n)') /\ j \in 1 .. IF k = "test" THEN 3 ELSE 7
      BY <2>3, <2>4, <2>5, <1>9, GMBuild
    <3>3. GMCPU(n)'
      BY <3>1, <3>2, <1>6
    <3>4. GMCPU(Len(cmd.program))'
      BY <3>1, <3>3, <1>4 DEF GMCPU
    <3> QED
      BY <3>2, <3>4
  <2>7. GMShape'
    BY <1>4, <1>5, <2>6
  <2>9. j = IF k = "test" THEN 3 ELSE 7
    <3>1. Len(GM!Setup(k)) = IF k = "test" THEN 3 ELSE 7
      BY DEF GM!Setup
    <3>2. j <= Len(GM!Setup(k)) /\ ~(j < Len(GM!Setup(k)))
      BY <2>3, <2>5
    <3> QED
      BY <3>1, <3>2
  <2>8. hv'.vm = TRUE /\ cpu'.pc = 1 /\ (cmd.kind # "test" => DOMAIN regions' = {"rom", "ram"})
    <3>1. k = cmd.kind
      BY <2>4, <2>5
    <3>2. CASE k = "test"
      BY <2>6, <2>9, <3>1, <3>2 DEF GMBuilt
    <3>3. CASE k # "test"
      BY <2>6, <2>9, <3>1, <3>3 DEF GMBuilt
    <3> QED
      BY <3>1, <3>2, <3>3
  <2>10. GMRun'
    BY <1>4, <1>6, <1>w, <2>1, <2>8 DEF GMRun, GMSetup
  <2>11. GMPhase'
    BY <1>4, <2>1, <2>10 DEF GMPhase, GMPhases
  <2>12. GMTrail'
    <3>1. trail = <<>>
      BY <2>1 DEF GMSetup
    <3>2. ~Completed'
      BY <3>1, <1>1 DEF Completed
    <3> QED
      BY <1>1, <1>4, <3>2, GMTrailKept DEF GMInv
  <2>13. GM!RestoredAsSaved'
    BY <1>4, <2>1 DEF GM!RestoredAsSaved
  <2> QED
    BY <1>5, <1>7, <2>7, <2>11, <2>12, <2>13 DEF GMInv
<1>10. CASE cmd.phase = "restore"
  <2>1. GM!StepsNow = GM!RestoreSteps /\ GMRestore /\ GMSaved /\ ph = "rerun"
    BY <1>10 DEF GM!StepsNow, GMInv, GMPhase, ph
  <2>2. PICK j \in Nat : j = cmd.i
    BY <2>1 DEF GMRestore
  <2>3. j <= Len(GM!RestoreSteps) /\ GM!DoStep(GM!RestoreSteps[j]) /\ ~(j < Len(GM!RestoreSteps))
    BY <1>1, <2>1, <2>2
  <2>4. PICK n \in Nat \ {0} : n = Len(cmd.program)
    BY <1>6
  <2>5. j \in 1 .. 6 /\ GMHv' /\ GMRegions' /\ GMRebuilt(j + 1)' /\ GMCPU(n)'
    BY <1>1, <1>10, <2>2, <2>3, <2>4, GMRebuild
  <2>6. GMCPU(Len(cmd.program))'
    BY <2>4, <2>5, <1>4 DEF GMCPU
  <2>7. GMShape'
    BY <1>4, <1>5, <2>5, <2>6
  <2>8. j = 6
    <3>1. Len(GM!RestoreSteps) = 6
      BY DEF GM!RestoreSteps
    <3> QED
      BY <3>1, <2>3
  <2>9. hv'.vm = TRUE /\ GMSame' /\ hv'.gic = saved'.gic /\ hv'.redist = saved'.redist /\ cpu' = saved'.cpu
    BY <2>5, <2>8 DEF GMRebuilt
  <2>10. GMSaved'
    BY <2>1, <1>1, <1>4 DEF GMSaved
  <2>11. GMRun'
    <3>1. cpu'.pc \in 1 .. Len(cmd'.program) /\ DOMAIN regions' = {"rom", "ram"} /\ cmd'.kind = "snapshot"
      BY <2>9, <2>10 DEF GMSaved, GMSame
    <3> QED
      BY <3>1, <1>4, <1>w, <2>1, <2>9 DEF GMRun
  <2>12. GMPhase'
    BY <1>4, <2>1, <2>10, <2>11 DEF GMPhase, GMPhases
  <2>13. GMTrail'
    <3>1. Completed' => Completed
      BY <1>1, <1>4, <1>10 DEF Completed
    <3>2. Where' = Where
      BY <1>4, <1>10, <1>1, <2>1, <2>9 DEF Where
    <3> QED
      BY <1>1, <1>4, <3>1, <3>2, GMTrailKept DEF GMInv
  <2>14. GM!RestoredAsSaved'
    BY <2>9 DEF GM!RestoredAsSaved, GMSame
  <2> QED
    BY <1>5, <1>7, <2>7, <2>12, <2>13, <2>14 DEF GMInv
<1> QED
  BY <1>1, <1>9, <1>10

-----------------------------------------------------------------------------
(* After the run *)
LEMMA GMReleased ==
    ASSUME GMHv, hv' = GM!Released, regions' = <<>>
    PROVE GMHv' /\ GMRegions' /\ hv'.vm = FALSE /\ hv'.cpus = 0
<1>1. GM!NoHV = [vm |-> FALSE, gic |-> "none", redist |-> "none", cpus |-> 0, clash |-> FALSE]
  BY DEF GM!NoHV
<1>2. hv.clash = FALSE
  BY DEF GMHv
<1>3. hv' = [vm |-> FALSE, gic |-> "none", redist |-> "none", cpus |-> 0, clash |-> hv.clash]
  BY <1>1 DEF GM!Released
<1>4. GMHv' /\ hv'.vm = FALSE /\ hv'.cpus = 0
  <2>1. hv'.vm = FALSE /\ hv'.gic = "none" /\ hv'.redist = "none" /\ hv'.cpus = 0 /\ hv'.clash = hv.clash
    BY <1>3
  <2>2. hv' = [vm |-> hv'.vm, gic |-> hv'.gic, redist |-> hv'.redist, cpus |-> hv'.cpus, clash |-> hv'.clash]
    BY <1>3, <2>1, Zenon
  <2>3. hv'.cpus \in {0, 1} /\ hv'.cpus # 1
    BY <2>1
  <2>4. hv'.vm \in BOOLEAN /\ hv'.clash = FALSE
    BY <1>2, <2>1, Zenon
  <2>5. GMHv'
    BY <2>2, <2>3, <2>4, Zenon DEF GMHv
  <2> QED
    BY <2>1, <2>5, Zenon
<1>5. GMRegions'
  <2>1. DOMAIN regions' = {}
    OBVIOUS
  <2> QED
    BY <2>1 DEF GMRegions
<1> QED
  BY <1>4, <1>5

(* The command is over: it holds nothing, whatever it was doing. *)
LEMMA GMEnded ==
    ASSUME GMInv, NEW o, hv' = GM!Released, regions' = <<>>, cpu' = cpu, watch' = watch, trail' = trail,
           stayed' = stayed, saved' = saved, o = "hung" => cmd.out = "hung",
           cmd' = [kind |-> cmd.kind, phase |-> "ended", i |-> cmd.i, out |-> o, first |-> cmd.first,
                   program |-> cmd.program, disks |-> cmd.disks, fresh |-> cmd.fresh]
    PROVE GMInv'
<1>1. GMShape /\ cmd.fresh \in BOOLEAN /\ GMHv /\ GMCPU(Len(cmd.program))
  BY DEF GMInv, GMShape, GMCPU
<1>2. /\ cmd'.kind = cmd.kind /\ cmd'.phase = "ended" /\ cmd'.out = o
      /\ cmd'.first = cmd.first /\ cmd'.program = cmd.program /\ cmd'.disks = cmd.disks
      /\ (GMHv' /\ GMRegions' /\ GMCPU(Len(cmd.program))'
              /\ watch' = [exits |-> watch'.exits, dev |-> watch'.dev, pc |-> watch'.pc, same |-> watch'.same,
                           samples |-> watch'.samples, seen |-> watch'.seen]) => GMShape'
  BY <1>1, GMCmdStep
<1>3. GMHv' /\ GMRegions' /\ hv'.vm = FALSE
  BY <1>1, GMReleased
<1>4. GMCPU(Len(cmd.program))'
  BY <1>1, <1>2 DEF GMCPU
<1>5. GMWatch' /\ watch' = [exits |-> watch'.exits, dev |-> watch'.dev, pc |-> watch'.pc, same |-> watch'.same,
                            samples |-> watch'.samples, seen |-> watch'.seen]
  BY <1>2, GMWatchNone
<1>6. GMShape'
  BY <1>2, <1>3, <1>4, <1>5
<1>7. GMPhase'
  BY <1>2, <1>3 DEF GMPhase, GMPhases
<1>8. GMTrail'
  <2>1. ~Completed'
    BY <1>2 DEF Completed
  <2> QED
    BY <1>2, <2>1, GMTrailKept DEF GMInv
<1>9. GM!TreeReached' /\ GM!RestoredAsSaved'
  BY <1>2 DEF GMInv, GM!TreeReached, GM!RestoredAsSaved
<1> QED
  BY <1>5, <1>6, <1>7, <1>8, <1>9 DEF GMInv

LEMMA GMStepFails ==
    ASSUME GMInv, GM!StepFails
    PROVE GMInv'
<1>1. cmd' = [cmd EXCEPT !.phase = "ended", !.out = "failed"]
  BY DEF GM!StepFails
<1>2. cmd' = [kind |-> cmd.kind, phase |-> "ended", i |-> cmd.i, out |-> "failed", first |-> cmd.first,
              program |-> cmd.program, disks |-> cmd.disks, fresh |-> cmd.fresh]
  BY <1>1, GMCmdPut DEF GMInv
<1> QED
  BY <1>2, GMEnded DEF GM!StepFails

LEMMA GMRunEnds ==
    ASSUME GMInv, GM!RunEnds
    PROVE GMInv'
<1>1. cmd' = [cmd EXCEPT !.phase = "ended"]
  BY DEF GM!RunEnds
<1>2. cmd' = [kind |-> cmd.kind, phase |-> "ended", i |-> cmd.i, out |-> cmd.out, first |-> cmd.first,
              program |-> cmd.program, disks |-> cmd.disks, fresh |-> cmd.fresh]
  BY <1>1, GMCmdPut DEF GMInv
<1> QED
  BY <1>2, GMEnded DEF GM!RunEnds

LEMMA GMTakeSnapshot ==
    ASSUME GMInv, GM!TakeSnapshot
    PROVE GMInv'
<1>1. /\ cmd.kind = "snapshot" /\ cmd.phase = "run" /\ cmd.out # "none"
      /\ saved' = [taken |-> TRUE, cpu |-> cpu, gic |-> hv.gic, redist |-> hv.redist, regions |-> regions]
      /\ cmd' = [cmd EXCEPT !.phase = "close", !.first = cmd.out]
      /\ hv' = hv /\ regions' = regions /\ cpu' = cpu /\ watch' = watch /\ trail' = trail /\ stayed' = stayed
  BY DEF GM!TakeSnapshot
<1>2. GMShape /\ cmd.fresh \in BOOLEAN /\ GMHv /\ GMRegions /\ GMCPU(Len(cmd.program)) /\ GMRun
  BY <1>1 DEF GMInv, GMShape, GMCPU, GMRegions, GMPhase
<1>3. cmd' = [kind |-> cmd.kind, phase |-> "close", i |-> cmd.i, out |-> cmd.out, first |-> cmd.out,
              program |-> cmd.program, disks |-> cmd.disks, fresh |-> cmd.fresh]
  BY <1>1, <1>2, GMCmdPut
<1>4. /\ cmd'.kind = cmd.kind /\ cmd'.phase = "close" /\ cmd'.out = cmd.out
      /\ cmd'.first = cmd.out /\ cmd'.program = cmd.program /\ cmd'.disks = cmd.disks
      /\ (GMHv' /\ GMRegions' /\ GMCPU(Len(cmd.program))'
              /\ watch' = [exits |-> watch'.exits, dev |-> watch'.dev, pc |-> watch'.pc, same |-> watch'.same,
                           samples |-> watch'.samples, seen |-> watch'.seen]) => GMShape'
  BY <1>2, <1>3, GMCmdStep
<1>5. GMHv' /\ GMRegions' /\ GMCPU(Len(cmd.program))'
  BY <1>1, <1>2, <1>4 DEF GMHv, GMRegions, GMCPU
<1>6. GMWatch' /\ watch' = [exits |-> watch'.exits, dev |-> watch'.dev, pc |-> watch'.pc, same |-> watch'.same,
                            samples |-> watch'.samples, seen |-> watch'.seen]
  BY <1>1, <1>4, GMWatchNone
<1>7. GMShape'
  BY <1>4, <1>5, <1>6
<1>8. saved'.cpu = cpu /\ saved'.regions = regions
  BY <1>1
<1>9. GMSaved'
  <2>1. cpu = [pc |-> cpu.pc, x |-> cpu.x, cnthctl |-> cpu.cnthctl, simd |-> cpu.simd] /\ cpu.pc \in 1 .. Len(cmd.program)
        /\ DOMAIN regions = {"rom", "ram"} /\ \A r \in DOMAIN regions : RegionOK(regions[r])
    BY <1>1, <1>2 DEF GMCPU, GMRun, GMRegions
  <2> QED
    BY <1>1, <1>4, <1>8, <2>1 DEF GMSaved
<1>10. GMPhase'
  BY <1>4, <1>9 DEF GMPhase, GMPhases
<1>11. GMTrail'
  <2>1. cmd.first = "none"
    BY <1>1, <1>2 DEF GMRun
  <2>2. Completed' => Completed
    BY <1>1, <1>4, <2>1 DEF Completed
  <2>3. Where' = Where
    BY <1>1, <1>4, <1>8 DEF Where
  <2> QED
    BY <1>1, <1>4, <2>1, <2>2, <2>3, GMTrailKept DEF GMInv
<1>12. GM!TreeReached' /\ GM!RestoredAsSaved'
  BY <1>1, <1>4 DEF GMInv, GM!TreeReached, GM!RestoredAsSaved
<1> QED
  BY <1>6, <1>7, <1>10, <1>11, <1>12 DEF GMInv

LEMMA GMCloseFirst ==
    ASSUME GMInv, GM!CloseFirst
    PROVE GMInv'
<1>1. /\ cmd.phase = "close" /\ hv' = GM!Released /\ regions' = <<>> /\ cpu' = GM!NoCPU
      /\ cmd' = [cmd EXCEPT !.phase = "restore", !.i = 1, !.out = "none"]
      /\ watch' = watch /\ trail' = trail /\ stayed' = stayed /\ saved' = saved
  BY DEF GM!CloseFirst
<1>2. GMShape /\ cmd.fresh \in BOOLEAN /\ GMHv /\ Len(cmd.program) \in Nat /\ GMSaved /\ cmd.first = cmd.out
  BY <1>1 DEF GMInv, GMShape, GMPhase, ProgramOK
<1>3. cmd' = [kind |-> cmd.kind, phase |-> "restore", i |-> 1, out |-> "none", first |-> cmd.first,
              program |-> cmd.program, disks |-> cmd.disks, fresh |-> cmd.fresh]
  BY <1>1, <1>2, GMCmdPut
<1>4. /\ cmd'.kind = cmd.kind /\ cmd'.phase = "restore" /\ cmd'.i = 1 /\ cmd'.out = "none"
      /\ cmd'.first = cmd.first /\ cmd'.program = cmd.program /\ cmd'.disks = cmd.disks
      /\ (GMHv' /\ GMRegions' /\ GMCPU(Len(cmd.program))'
              /\ watch' = [exits |-> watch'.exits, dev |-> watch'.dev, pc |-> watch'.pc, same |-> watch'.same,
                           samples |-> watch'.samples, seen |-> watch'.seen]) => GMShape'
  BY <1>2, <1>3, GMCmdStep
<1>5. GMHv' /\ GMRegions' /\ hv'.vm = FALSE /\ hv'.cpus = 0
  BY <1>1, <1>2, GMReleased
<1>6. GMCPU(Len(cmd.program))'
  <2>1. cpu' = [pc |-> 0, x |-> 0, cnthctl |-> 0, simd |-> 0]
    BY <1>1 DEF GM!NoCPU
  <2>2. cpu'.pc = 0 /\ cpu'.x = 0 /\ cpu'.cnthctl = 0 /\ cpu'.simd = 0
    BY <2>1
  <2> QED
    BY <1>2, <1>4, <2>1, <2>2 DEF GMCPU
<1>7. GMWatch' /\ watch' = [exits |-> watch'.exits, dev |-> watch'.dev, pc |-> watch'.pc, same |-> watch'.same,
                            samples |-> watch'.samples, seen |-> watch'.seen]
  BY <1>1, <1>4, GMWatchNone
<1>8. GMShape'
  BY <1>4, <1>5, <1>6, <1>7
<1>9. GMSaved'
  BY <1>1, <1>2, <1>4 DEF GMSaved
<1>10. GMPhase'
  BY <1>4, <1>5, <1>9 DEF GMPhase, GMPhases, GMRestore, GMRebuilt
<1>11. GMTrail'
  <2>1. Completed' => Completed
    BY <1>1, <1>2, <1>4 DEF Completed, GMSaved
  <2>2. Where' = Where
    BY <1>1, <1>4 DEF Where
  <2> QED
    BY <1>1, <1>4, <2>1, <2>2, GMTrailKept DEF GMInv
<1>12. GM!TreeReached' /\ GM!RestoredAsSaved'
  BY <1>1, <1>4 DEF GMInv, GM!TreeReached, GM!RestoredAsSaved
<1> QED
  BY <1>7, <1>8, <1>10, <1>11, <1>12 DEF GMInv

-----------------------------------------------------------------------------
(* The invariant *)
LEMMA GMNextInv ==
    ASSUME GMInv, GM!Next
    PROVE GMInv'
<1>1. CASE GM!Run
  BY <1>1, GMRunLoop
<1>2. CASE GM!StepTrace
  BY <1>2, GMStepTrace
<1>3. CASE GM!setupGuest
  <2>1. CASE cmd.i < Len(GM!StepsNow)
    BY <1>3, <2>1, GMSetupOn
  <2>2. CASE ~(cmd.i < Len(GM!StepsNow))
    BY <1>3, <2>2, GMSetupDone
  <2> QED
    BY <2>1, <2>2
<1>4. CASE GM!RunEnds
  BY <1>4, GMRunEnds
<1>5. CASE GM!TakeSnapshot
  BY <1>5, GMTakeSnapshot
<1>6. CASE GM!CloseFirst
  BY <1>6, GMCloseFirst
<1>7. CASE GM!GuestRuns
  BY <1>7, GMGuestRuns
<1>8. CASE GM!VTimer
  BY <1>8, GMVTimer
<1>9. CASE GM!Watchdog
  BY <1>9, GMWatchdog
<1>10. CASE GM!StepFails
  BY <1>10, GMStepFails
<1> QED
  BY <1>1, <1>2, <1>3, <1>4, <1>5, <1>6, <1>7, <1>8, <1>9, <1>10 DEF GM!Next, GM!Host

LEMMA GMStutterInv ==
    ASSUME GMInv, UNCHANGED GM!gmvars
    PROVE GMInv'
<1>1. /\ hv' = hv /\ regions' = regions /\ cmd' = cmd /\ cpu' = cpu /\ watch' = watch /\ trail' = trail
      /\ stayed' = stayed /\ saved' = saved
  BY DEF GM!gmvars
<1>2. GMShape' /\ GMWatch'
  BY <1>1 DEF GMInv, GMShape, GMHv, GMWatch
<1>3. GMSetup' = GMSetup /\ GMRun' = GMRun /\ GMSaved' = GMSaved /\ GMRestore' = GMRestore
  BY <1>1 DEF GMSetup, GMBuilt, GMRun, GMSaved, GMRestore, GMRebuilt, GMSame
<1>4. GMPhase'
  BY <1>1, <1>3 DEF GMInv, GMPhase
<1>5. GMTrail'
  BY <1>1, GMTrailKept DEF GMInv, Completed, Where
<1>6. GM!TreeReached' /\ GM!RestoredAsSaved'
  BY <1>1 DEF GMInv, GM!TreeReached, GM!RestoredAsSaved
<1> QED
  BY <1>2, <1>4, <1>5, <1>6 DEF GMInv

LEMMA GMInitInv ==
    ASSUME GM!Init
    PROVE GMInv
<1>1. PICK k \in Commands, p \in Programs, d \in BOOLEAN :
          cmd = [kind |-> k, phase |-> "setup", i |-> 1, out |-> "none", first |-> "none",
                 program |-> IF k = "test" THEN <<[op |-> "store", at |-> "pl011"], [op |-> "spin"]>> ELSE p,
                 disks |-> d, fresh |-> FALSE]
  BY DEF GM!Init
<1> DEFINE pr == IF k = "test" THEN <<[op |-> "store", at |-> "pl011"], [op |-> "spin"]>> ELSE p
<1>2. /\ cmd.kind = k /\ cmd.phase = "setup" /\ cmd.i = 1 /\ cmd.out = "none" /\ cmd.first = "none"
      /\ cmd.program = pr /\ cmd.disks = d /\ cmd.fresh = FALSE
  BY <1>1
<1>3. cmd = [kind |-> cmd.kind, phase |-> cmd.phase, i |-> cmd.i, out |-> cmd.out, first |-> cmd.first,
             program |-> cmd.program, disks |-> cmd.disks, fresh |-> cmd.fresh]
  <2>1. PICK b : b = FALSE
    OBVIOUS
  <2>2. cmd = [kind |-> k, phase |-> "setup", i |-> 1, out |-> "none", first |-> "none",
               program |-> pr, disks |-> d, fresh |-> b]
    BY <1>1, <2>1, Zenon
  <2> HIDE DEF pr
  <2> QED
    BY <2>2
<1>4. ProgramOK(pr) /\ (k = "test" => pr[1].op = "store")
  <2>1. CASE k = "test"
    <3>1. pr = <<[op |-> "store", at |-> "pl011"], [op |-> "spin"]>>
      BY <2>1
    <3>2. Len(pr) = 2 /\ pr[2].op = "spin" /\ pr[1].op = "store"
      BY <3>1
    <3> QED
      BY <3>2 DEF ProgramOK
  <2>2. CASE k # "test"
    BY <2>2, GMAssumption
  <2> QED
    BY <2>1, <2>2
<1>5. /\ hv = GM!NoHV /\ regions = <<>> /\ cpu = GM!NoCPU /\ watch = GM!NoWatch /\ trail = <<>>
      /\ stayed = [node |-> "none", dev |-> "none", disks |-> FALSE]
  BY DEF GM!Init
<1>6. GMHv /\ hv.vm = FALSE /\ hv.cpus = 0
  <2>1. /\ GM!NoHV.vm = FALSE /\ GM!NoHV.gic = "none" /\ GM!NoHV.redist = "none" /\ GM!NoHV.cpus = 0 /\ GM!NoHV.clash = FALSE
    BY DEF GM!NoHV
  <2>2. GM!NoHV = [vm |-> GM!NoHV.vm, gic |-> GM!NoHV.gic, redist |-> GM!NoHV.redist, cpus |-> GM!NoHV.cpus, clash |-> GM!NoHV.clash]
    BY <2>1, Zenon DEF GM!NoHV
  <2>3. /\ hv.vm = FALSE /\ hv.gic = "none" /\ hv.redist = "none" /\ hv.cpus = 0 /\ hv.clash = FALSE
        /\ hv = [vm |-> hv.vm, gic |-> hv.gic, redist |-> hv.redist, cpus |-> hv.cpus, clash |-> hv.clash]
    BY <1>5, <2>1, <2>2, Zenon
  <2>4. hv.cpus \in {0, 1} /\ hv.cpus # 1
    BY <2>3
  <2>5. hv.vm \in BOOLEAN
    BY <2>3, Zenon
  <2>6. GMHv
    BY <2>3, <2>4, <2>5, Zenon DEF GMHv
  <2> QED
    BY <2>3, <2>6, Zenon
<1>7. GMCPU(Len(cmd.program))
  <2>1. cpu = [pc |-> 0, x |-> 0, cnthctl |-> 0, simd |-> 0]
    BY <1>5 DEF GM!NoCPU
  <2>2. cpu.pc = 0 /\ cpu.x = 0 /\ cpu.cnthctl = 0 /\ cpu.simd = 0
    BY <2>1
  <2>3. Len(cmd.program) \in Nat
    BY <1>2, <1>4 DEF ProgramOK
  <2> QED
    BY <2>1, <2>2, <2>3 DEF GMCPU
<1>8. /\ watch = [exits |-> 0, dev |-> 0, pc |-> 1, same |-> 0, samples |-> <<>>, seen |-> <<>>]
  BY <1>5 DEF GM!NoWatch
<1>9. /\ watch.exits = 0 /\ watch.dev = 0 /\ watch.pc = 1 /\ watch.same = 0 /\ watch.samples = <<>> /\ watch.seen = <<>>
  BY <1>8
<1>10. GMWatch
  BY <1>9, <1>2, GMAssumption DEF GMWatch
<1>11. GMShape
  <2>1. watch = [exits |-> watch.exits, dev |-> watch.dev, pc |-> watch.pc, same |-> watch.same,
                 samples |-> watch.samples, seen |-> watch.seen]
    BY <1>8, <1>9
  <2>2. DOMAIN regions = {}
    BY <1>5
  <2>3. ProgramOK(cmd.program) /\ cmd.disks \in BOOLEAN /\ (cmd.kind = "test" => cmd.program[1].op = "store") /\ cmd.fresh \in BOOLEAN
    BY <1>2, <1>4
  <2> QED
    BY <1>3, <1>6, <1>7, <2>1, <2>2, <2>3 DEF GMShape, GMCPU
<1>12. GMPhase
  <2>1. DOMAIN regions = {}
    BY <1>5
  <2>2. GMSetup
    BY <1>2, <1>5, <1>6, <2>1 DEF GMSetup, GMBuilt
  <2> QED
    BY <1>2, <2>2 DEF GMPhase, GMPhases
<1>13. GMTrail
  BY <1>5 DEF GMTrail, TrailOK, GM!EachOnce, Completed
<1>14. GM!TreeReached /\ GM!RestoredAsSaved
  <2>1. stayed.node = "none" /\ "none" \notin DOMAIN GM!buildDTB
    BY <1>5, GMTree DEF GMNodes
  <2> QED
    BY <1>2, <2>1 DEF GM!TreeReached, GM!RestoredAsSaved
<1> QED
  BY <1>10, <1>11, <1>12, <1>13, <1>14 DEF GMInv

(* What is promised follows from it. *)
LEMMA GMKept ==
    ASSUME GMInv
    PROVE GM!GMSafe
<1>1. GM!TypeOK
  <2>1. hv.cpus \in {0, 1} /\ (hv.cpus = 1 => hv.vm)
    BY DEF GMInv, GMShape, GMHv
  <2>2. cmd.phase \in {"setup", "run", "close", "restore", "rerun", "ended"}
    BY DEF GMInv, GMPhase, GMPhases
  <2>3. cpu.pc \in 0 .. Len(cmd.program) /\ DOMAIN regions \subseteq {"rom", "ram"}
    BY DEF GMInv, GMShape
  <2>4. GM!Running => cpu.pc > 0
    BY GMRunning
  <2>5. watch.exits <= MaxExits + 1
    BY GMAssumption DEF GMInv, GMWatch
  <2>6. (GM!Running /\ cmd.kind # "test") => DOMAIN regions = {"rom", "ram"}
    BY GMRunning
  <2> QED
    BY <2>1, <2>2, <2>3, <2>4, <2>5, <2>6 DEF GM!TypeOK
<1>2. GM!OneVM
  <2>1. hv.clash = FALSE
    BY DEF GMInv, GMShape, GMHv
  <2>2. cmd.phase = "ended" => ~hv.vm /\ regions = <<>>
    BY DEF GMInv, GMPhase
  <2> QED
    BY <2>1, <2>2 DEF GM!OneVM
<1>3. GM!EachOnce /\ GM!TreeReached /\ GM!RestoredAsSaved
  BY DEF GMInv, GMTrail
<1>4. GM!HungWhenStuck
  <2> SUFFICES ASSUME cmd.out = "hung"
               PROVE /\ Len(watch.samples) >= StuckSamples
                     /\ \A i \in 0 .. StuckSamples - 1 : watch.samples[Len(watch.samples) - i] = watch.samples[Len(watch.samples)]
    BY DEF GM!HungWhenStuck
  <2>1. /\ watch.same >= StuckSamples /\ watch.same \in 0 .. Len(watch.samples) /\ Len(watch.samples) \in Nat
        /\ \A i \in 0 .. watch.same - 1 : watch.samples[Len(watch.samples) - i] = watch.pc
        /\ StuckSamples \in Nat \ {0}
    BY GMAssumption DEF GMInv, GMWatch
  <2>2. Len(watch.samples) >= StuckSamples
    BY <2>1
  <2>3. watch.samples[Len(watch.samples)] = watch.pc
    <3>1. 0 \in 0 .. watch.same - 1 /\ Len(watch.samples) - 0 = Len(watch.samples)
      BY <2>1
    <3> QED
      BY <2>1, <3>1
  <2>4. ASSUME NEW i \in 0 .. StuckSamples - 1
        PROVE watch.samples[Len(watch.samples) - i] = watch.pc
    <3>1. i \in 0 .. watch.same - 1
      BY <2>1
    <3> QED
      BY <2>1, <3>1
  <2> QED
    BY <2>2, <2>3, <2>4
<1> QED
  BY <1>1, <1>2, <1>3, <1>4 DEF GM!GMSafe
-----------------------------------------------------------------------------
(* The theorems *)
LEMMA ClipInvAlways == GuestSideSpec => []ClipInv
<1>1. GuestSideInit => ClipInv
  BY ClipInitInv DEF GuestSideInit
<1>2. ClipInv /\ [GuestSideNext]_guestsidevars => ClipInv'
  <2> SUFFICES ASSUME ClipInv, [GuestSideNext]_guestsidevars PROVE ClipInv'
    OBVIOUS
  <2>1. CASE Clip!Next
    BY <2>1, ClipNextInv
  <2>2. CASE UNCHANGED clipvars
    BY <2>2, ClipStutterInv DEF clipvars, Clip!cvars
  <2> QED
    BY <2>1, <2>2 DEF GuestSideNext, guestsidevars
<1> QED
  BY <1>1, <1>2, PTL DEF GuestSideSpec

(* The two properties of a cycle's step. *)
NothingCrosses ==
    /\ (guest' # guest /\ eng'.pc # eng.pc)
         => Clip!AllowHostToGuest(eng.policy) /\ guest'.item.f \subseteq eng.policy.formats
    /\ (host' # host /\ eng'.pc # eng.pc)
         => Clip!AllowGuestToHost(eng.policy) /\ host'.item.f \subseteq eng.policy.formats

HostKeeps ==
    (host' # host /\ eng'.pc # eng.pc) =>
        \/ host'.item.by = "guest"
        \/ host'.item = Clip!Written(eng.lastGuestHash) /\ host'.item # eng.lastGuestHash

(* What crosses from one clipboard to the other is allowed by the policy   *)
(* that was in force when the cycle began, and the engine replaces the     *)
(* host's clipboard only by a copy made in the guest, or by what the guest *)
(* kept of the host's own: for every policy, every number of copies and of *)
(* control requests (engine.go).                                           *)
THEOREM ClipboardSteps == GuestSideSpec => ClipSteps
<1>1. ClipInv /\ [GuestSideNext]_guestsidevars => [NothingCrosses]_(Clip!cvars) /\ [HostKeeps]_(Clip!cvars)
  <2> SUFFICES ASSUME ClipInv, [GuestSideNext]_guestsidevars
               PROVE [NothingCrosses]_(Clip!cvars) /\ [HostKeeps]_(Clip!cvars)
    OBVIOUS
  <2>1. CASE Clip!Next
    BY <2>1, ClipCarries DEF NothingCrosses, HostKeeps
  <2>2. CASE UNCHANGED clipvars
    BY <2>2 DEF clipvars, Clip!cvars
  <2> QED
    BY <2>1, <2>2 DEF GuestSideNext, guestsidevars
<1> QED
  BY <1>1, ClipInvAlways, PTL DEF GuestSideSpec, ClipSteps, Clip!NothingAgainstPolicy, Clip!HostKeepsItsCopy,
                                  NothingCrosses, HostKeeps

LEMMA FWInvAlways == GuestSideSpec => []FWInv
<1>1. GuestSideInit => FWInv
  BY FWInitInv DEF GuestSideInit
<1>2. FWInv /\ [GuestSideNext]_guestsidevars => FWInv'
  <2> SUFFICES ASSUME FWInv, [GuestSideNext]_guestsidevars PROVE FWInv'
    OBVIOUS
  <2>1. CASE FW!Next
    BY <2>1, FWNextInv
  <2>2. CASE UNCHANGED fwvars
    BY <2>2, FWStutterInv DEF fwvars, FW!fdvars
  <2> QED
    BY <2>1, <2>2 DEF GuestSideNext, guestsidevars
<1> QED
  BY <1>1, <1>2, PTL DEF GuestSideSpec

(* The flash holds what its driver programmed and erased, a transfer gives *)
(* the bytes of the item that was selected, a frame is drawn from one      *)
(* configuration, and keys are read in the order they were typed: for any  *)
(* size of the flash, any items and any capacity of the queue              *)
(* (cfiflash.go, fwcfg.go, ramfb.go, pl011.go).                            *)
THEOREM DevicesAreSafe == GuestSideSpec => []DevicesSafe
<1>1. FWInv => DevicesSafe
  BY FWKept DEF DevicesSafe
<1> QED
  BY <1>1, FWInvAlways, PTL

LEMMA AddrInvAlways == GuestSideSpec => []AddrInv
<1>1. GuestSideInit => AddrInv
  BY AddrInitInv DEF GuestSideInit
<1>2. AddrInv /\ [GuestSideNext]_guestsidevars => AddrInv'
  <2> SUFFICES ASSUME AddrInv, [GuestSideNext]_guestsidevars PROVE AddrInv'
    OBVIOUS
  <2>1. CASE Addr!Next
    BY <2>1, AddrNextInv
  <2>2. CASE UNCHANGED addressvars
    BY <2>2, AddrStutterInv DEF addressvars, Addr!addrvars
  <2> QED
    BY <2>1, <2>2 DEF GuestSideNext, guestsidevars
<1> QED
  BY <1>1, <1>2, PTL DEF GuestSideSpec

(* An address that is found is the machine's, from a lease that was        *)
(* granted to it and a file that is read while it is written, and nobody   *)
(* gives up before the time asked for: for any number of machines, leases  *)
(* and requests (one of the agent at a time).                              *)
THEOREM AddressesAreSafe == GuestSideSpec => []AddrSafe
<1>1. AddrInv => AddrSafe
  BY AddrKept DEF AddrSafe
<1> QED
  BY <1>1, AddrInvAlways, PTL

LEMMA GMInvAlways == GuestSideSpec => []GMInv
<1>1. GuestSideInit => GMInv
  BY GMInitInv DEF GuestSideInit
<1>2. GMInv /\ [GuestSideNext]_guestsidevars => GMInv'
  <2> SUFFICES ASSUME GMInv, [GuestSideNext]_guestsidevars PROVE GMInv'
    OBVIOUS
  <2>1. CASE GM!Next
    BY <2>1, GMNextInv
  <2>2. CASE UNCHANGED gmvars
    BY <2>2, GMStutterInv DEF gmvars, GM!gmvars
  <2> QED
    BY <2>1, <2>2 DEF GuestSideNext, guestsidevars
<1> QED
  BY <1>1, <1>2, PTL DEF GuestSideSpec

(* A process holds one VM at most and none when its command is over, each  *)
(* instruction that exits is completed once, an access at a register of    *)
(* the device tree gets to the device behind it, a machine made again is   *)
(* the one that was captured, and only a guest that stays at one place is  *)
(* given up as hung: for every guest program, any budget of exits and any  *)
(* number of samples, whatever step fails (vcpu.go, setup.go, mmio.go,     *)
(* snapshot.go).                                                           *)
THEOREM MachinesAreSafe == GuestSideSpec => []MachinesSafe
<1>1. GMInv => MachinesSafe
  BY GMKept DEF MachinesSafe
<1> QED
  BY <1>1, GMInvAlways, PTL

-----------------------------------------------------------------------------
(* AgentChannel *)
Bounds == MaxExchanges \in Nat /\ MaxData \in Nat

(* The records of both ends, in every proof: the fields are what is used.   *)
USE DEF Chan!Agents, Chan!Engines

-----------------------------------------------------------------------------
(* Sequences of frames *)

LEMMA Elements ==
    ASSUME NEW S, NEW s \in Seq(S)
    PROVE  Len(s) \in Nat /\ DOMAIN s = 1..Len(s) /\ \A i \in 1..Len(s) : s[i] \in S
OBVIOUS

LEMMA Nothing == ASSUME NEW S PROVE <<>> \in Seq(S) /\ Len(<<>>) = 0
      /\ \A s \in Seq(S) : Len(s) = 0 <=> s = <<>>
OBVIOUS

LEMMA One == ASSUME NEW S, NEW e \in S PROVE <<e>> \in Seq(S) /\ Len(<<e>>) = 1 /\ <<e>>[1] = e
OBVIOUS

LEMMA Joined ==
    ASSUME NEW S, NEW s \in Seq(S), NEW t \in Seq(S)
    PROVE  /\ s \o t \in Seq(S) /\ Len(s \o t) = Len(s) + Len(t)
           /\ \A i \in 1..Len(s) : (s \o t)[i] = s[i]
           /\ \A i \in 1..Len(t) : (s \o t)[Len(s) + i] = t[i]
OBVIOUS

LEMMA Appended ==
    ASSUME NEW S, NEW s \in Seq(S), NEW e \in S
    PROVE  /\ Append(s, e) \in Seq(S) /\ Len(Append(s, e)) = Len(s) + 1
           /\ Append(s, e)[Len(s) + 1] = e /\ \A i \in 1..Len(s) : Append(s, e)[i] = s[i]
OBVIOUS

LEMMA Taken ==
    ASSUME NEW S, NEW s \in Seq(S), s # <<>>
    PROVE  /\ Head(s) = s[1] /\ s[1] \in S /\ Tail(s) \in Seq(S) /\ Len(s) \in Nat \ {0}
           /\ Len(Tail(s)) = Len(s) - 1 /\ \A i \in 1..Len(s) - 1 : Tail(s)[i] = s[i + 1]
OBVIOUS

(* What is left of a pipe when the first k frames are gone, or all but k.   *)
LEMMA Dropped ==
    ASSUME NEW S, NEW s \in Seq(S), NEW k \in 0..Len(s)
    PROVE  /\ SubSeq(s, k + 1, Len(s)) \in Seq(S) /\ Len(SubSeq(s, k + 1, Len(s))) = Len(s) - k
           /\ \A i \in 1..Len(s) - k : SubSeq(s, k + 1, Len(s))[i] = s[i + k]
OBVIOUS

LEMMA Kept ==
    ASSUME NEW S, NEW s \in Seq(S), NEW k \in 0..Len(s)
    PROVE  /\ SubSeq(s, 1, k) \in Seq(S) /\ Len(SubSeq(s, 1, k)) = k
           /\ \A i \in 1..k : SubSeq(s, 1, k)[i] = s[i]
OBVIOUS

LEMMA Untouched ==
    ASSUME NEW S, NEW s \in Seq(S)
    PROVE  SubSeq(s, 0 + 1, Len(s)) = s /\ SubSeq(s, 1, Len(s)) = s
OBVIOUS

LEMMA Frames ==
    ASSUME Bounds
    PROVE  /\ \A c, n, w : Chan!Frame(c, n, w).kind = c /\ Chan!Frame(c, n, w).n = n /\ Chan!Frame(c, n, w).w = w
           /\ \A c \in {"hello", "stat", "get", "set", "data"}, n \in 0..MaxExchanges, w \in 0..MaxData :
                 Chan!Frame(c, n, w) \in Chan!ToAgentFrames
           /\ \A c \in {"ok", "meta", "err", "data"}, n \in 0..MaxExchanges, w \in 0..MaxData :
                 Chan!Frame(c, n, w) \in Chan!ToHostFrames
           /\ \A f \in Chan!ToAgentFrames \cup Chan!ToHostFrames : f.n \in 0..MaxExchanges /\ f.w \in 0..MaxData
BY DEF Bounds, Chan!Frame, Chan!ToAgentFrames, Chan!ToHostFrames

LEMMA Bodies ==
    ASSUME Bounds, NEW n \in 0..MaxExchanges, NEW w \in 0..MaxData
    PROVE  /\ Chan!Body(n, w) \in Seq(Chan!ToAgentFrames) /\ Chan!Body(n, w) \in Seq(Chan!ToHostFrames) /\ Len(Chan!Body(n, w)) = w
           /\ \A i \in 1..w : Chan!Body(n, w)[i] = Chan!Frame("data", n, i)
<1>1. w \in Nat /\ \A i \in 1..w : Chan!Frame("data", n, i) \in Chan!ToAgentFrames \cap Chan!ToHostFrames
  BY Frames DEF Bounds
<1>2. Len([i \in 1..w |-> Chan!Frame("data", n, i)]) = w
  BY <1>1
<1>3. QED BY <1>1, <1>2 DEF Chan!Body

(* One more frame of a payload. *)
LEMMA BodyGrows ==
    ASSUME Bounds, NEW n \in 0..MaxExchanges, NEW w \in 0..MaxData, w + 1 \in 0..MaxData
    PROVE  Append(Chan!Body(n, w), Chan!Frame("data", n, w + 1)) = Chan!Body(n, w + 1)
<1>1. w \in Nat
  BY DEF Bounds
<1>2. Append([i \in 1..w |-> Chan!Frame("data", n, i)], Chan!Frame("data", n, w + 1)) = [i \in 1..w + 1 |-> Chan!Frame("data", n, i)]
  BY <1>1
<1>3. QED BY <1>2 DEF Chan!Body

-----------------------------------------------------------------------------
(* Requests and their payloads *)

LEMMA FollowedDrops ==
    ASSUME Bounds, NEW s \in Seq(Chan!ToAgentFrames), Chan!Followed(s), NEW k \in 0..Len(s)
    PROVE  Chan!Followed(SubSeq(s, k + 1, Len(s)))
<1> DEFINE t == SubSeq(s, k + 1, Len(s))
<1>1. /\ t \in Seq(Chan!ToAgentFrames) /\ Len(t) = Len(s) - k /\ DOMAIN t = 1..Len(s) - k /\ DOMAIN s = 1..Len(s)
      /\ \A i \in 1..Len(s) - k : t[i] = s[i + k] /\ Len(s) \in Nat /\ k \in Nat
  BY Dropped, Elements
<1> HIDE DEF t
<1>2. SUFFICES ASSUME NEW i \in DOMAIN t, t[i].kind # "data"
               PROVE  /\ t[i].kind = "set" => t[i].n > 0
                      /\ i + t[i].w <= Len(t)
                      /\ \A j \in 1..t[i].w : t[i + j] = Chan!Frame("data", t[i].n, j)
  BY DEF Chan!Followed, t
<1>3. t[i] = s[i + k] /\ i + k \in DOMAIN s /\ t[i].w \in Nat /\ i \in Nat
  BY <1>1, Elements, Frames
<1>4. /\ s[i + k].kind = "set" => s[i + k].n > 0
      /\ i + k + s[i + k].w <= Len(s)
      /\ \A j \in 1..s[i + k].w : s[i + k + j] = Chan!Frame("data", s[i + k].n, j)
  BY <1>2, <1>3 DEF Chan!Followed
<1>5. i + t[i].w <= Len(t)
  BY <1>1, <1>3, <1>4
<1>6. ASSUME NEW j \in 1..t[i].w PROVE t[i + j] = Chan!Frame("data", t[i].n, j)
  <2>1. i + j \in 1..Len(s) - k /\ i + j + k = i + k + j
    BY SMTT(30), <1>1, <1>3, <1>5
  <2>2. QED BY <1>1, <1>3, <1>4, <2>1
<1>7. QED BY <1>3, <1>4, <1>5, <1>6

LEMMA FollowedTail ==
    ASSUME Bounds, NEW s \in Seq(Chan!ToAgentFrames), Chan!Followed(s), s # <<>>
    PROVE  Chan!Followed(Tail(s))
<1>1. 1 \in 0..Len(s)
  BY Taken
<1>2. Tail(s) = SubSeq(s, 1 + 1, Len(s))
  BY Taken
<1>3. QED BY <1>1, <1>2, FollowedDrops

(* A request and its payload, put behind what is sent. *)
SentAfter(s, c, n, w) == s \o <<Chan!Frame(c, n, w)>> \o Chan!Body(n, w)
SentWell(s, c, n, w) ==
    /\ SentAfter(s, c, n, w) \in Seq(Chan!ToAgentFrames)
    /\ Len(SentAfter(s, c, n, w)) = Len(s) + 1 + w
    /\ \A i \in 1..Len(s) : SentAfter(s, c, n, w)[i] = s[i]
    /\ SentAfter(s, c, n, w)[Len(s) + 1] = Chan!Frame(c, n, w)
    /\ \A i \in 1..w : SentAfter(s, c, n, w)[Len(s) + 1 + i] = Chan!Frame("data", n, i)

LEMMA SentOff ==
    ASSUME Bounds, NEW s \in Seq(Chan!ToAgentFrames), NEW c \in {"hello", "stat", "get", "set"},
           NEW n \in 0..MaxExchanges, NEW w \in 0..MaxData
    PROVE  SentWell(s, c, n, w)
<1> DEFINE r == s \o <<Chan!Frame(c, n, w)>>
<1>0. Chan!Frame(c, n, w) \in Chan!ToAgentFrames /\ Len(s) \in Nat
  BY Frames, Elements
<1>1. /\ r \in Seq(Chan!ToAgentFrames) /\ Len(r) = Len(s) + 1 /\ r[Len(s) + 1] = Chan!Frame(c, n, w)
      /\ \A i \in 1..Len(s) : r[i] = s[i]
  BY <1>0
<1>2. Chan!Body(n, w) \in Seq(Chan!ToAgentFrames) /\ Len(Chan!Body(n, w)) = w
      /\ \A i \in 1..w : Chan!Body(n, w)[i] = Chan!Frame("data", n, i)
  BY Bodies
<1> DEFINE b == Chan!Body(n, w)
<1> HIDE DEF r, b
<1>3. /\ r \o b \in Seq(Chan!ToAgentFrames) /\ Len(r \o b) = Len(r) + Len(b)
      /\ \A i \in 1..Len(r) : (r \o b)[i] = r[i]
      /\ \A i \in 1..Len(b) : (r \o b)[Len(r) + i] = b[i]
  <2>1. r \in Seq(Chan!ToAgentFrames) /\ b \in Seq(Chan!ToAgentFrames)
    BY <1>1, <1>2 DEF b
  <2>2. QED BY <2>1, Joined
<1>4. Len(b) = w /\ \A i \in 1..w : (r \o b)[Len(s) + 1 + i] = Chan!Frame("data", n, i)
  BY <1>1, <1>2, <1>3 DEF b
<1>5. SentAfter(s, c, n, w) = r \o b
  BY DEF r, b, SentAfter
<1>6. QED BY <1>0, <1>1, <1>3, <1>4, <1>5 DEF SentWell

LEMMA FollowedSent ==
    ASSUME Bounds, NEW s \in Seq(Chan!ToAgentFrames), Chan!Followed(s), NEW c \in {"hello", "stat", "get", "set"},
           NEW n \in 0..MaxExchanges, NEW w \in 0..MaxData, c = "set" => n > 0
    PROVE  Chan!Followed(SentAfter(s, c, n, w))
<1> DEFINE t == SentAfter(s, c, n, w)
<1>1. /\ t \in Seq(Chan!ToAgentFrames) /\ Len(t) = Len(s) + 1 + w /\ DOMAIN t = 1..Len(s) + 1 + w
      /\ \A i \in 1..Len(s) : t[i] = s[i]
      /\ t[Len(s) + 1] = Chan!Frame(c, n, w)
      /\ \A i \in 1..w : t[Len(s) + 1 + i] = Chan!Frame("data", n, i)
      /\ Len(s) \in Nat /\ w \in Nat /\ DOMAIN s = 1..Len(s)
  <2>1. Len(s) \in Nat /\ w \in Nat /\ DOMAIN s = 1..Len(s)
    BY Elements
  <2>2. SentWell(s, c, n, w)
    BY SentOff
  <2>3. /\ t \in Seq(Chan!ToAgentFrames) /\ Len(t) = Len(s) + 1 + w
        /\ \A i \in 1..Len(s) : t[i] = s[i]
        /\ t[Len(s) + 1] = Chan!Frame(c, n, w)
        /\ \A i \in 1..w : t[Len(s) + 1 + i] = Chan!Frame("data", n, i)
    BY <2>2, Zenon DEF SentWell
  <2> QED BY <2>1, <2>3, Elements
<1> HIDE DEF t
<1>2. SUFFICES ASSUME NEW i \in DOMAIN t, t[i].kind # "data"
               PROVE  /\ t[i].kind = "set" => t[i].n > 0
                      /\ i + t[i].w <= Len(t)
                      /\ \A j \in 1..t[i].w : t[i + j] = Chan!Frame("data", t[i].n, j)
  BY DEF Chan!Followed, t
<1>3. CASE i \in 1..Len(s)
  <2>1. t[i] = s[i] /\ s[i].kind # "data" /\ i \in DOMAIN s /\ i \in Nat /\ s[i].w \in Nat
    BY <1>1, <1>2, <1>3, Elements, Frames
  <2>2. s[i].kind = "set" => s[i].n > 0
    BY <2>1 DEF Chan!Followed
  <2>3. i + s[i].w <= Len(s)
    BY <2>1 DEF Chan!Followed
  <2>4. ASSUME NEW j \in 1..s[i].w PROVE t[i + j] = Chan!Frame("data", s[i].n, j)
    <3>1. t[i + j] = s[i + j]
      BY <1>1, <2>1, <2>3
    <3>2. s[i + j] = Chan!Frame("data", s[i].n, j)
      BY <2>1 DEF Chan!Followed
    <3>3. QED BY <3>1, <3>2
  <2>5. i + s[i].w <= Len(t)
    BY <1>1, <2>1, <2>3
  <2>6. QED BY <2>1, <2>2, <2>4, <2>5
<1>4. CASE i = Len(s) + 1
  BY <1>1, <1>4, Frames
<1>5. CASE i \in Len(s) + 2..Len(s) + 1 + w
  <2>1. i - (Len(s) + 1) \in 1..w /\ i = Len(s) + 1 + (i - (Len(s) + 1))
    BY <1>1, <1>5
  <2>2. t[i] = Chan!Frame("data", n, i - (Len(s) + 1))
    BY <1>1, <2>1
  <2>3. QED BY <1>2, <2>2, Frames
<1>6. QED BY <1>1, <1>3, <1>4, <1>5

-----------------------------------------------------------------------------
(* Types *)

LEMMA Sleeps ==
    ASSUME Bounds
    PROVE  /\ Chan!Asleep \in Chan!Agents /\ Chan!Restarted \in Chan!Agents /\ [Chan!Asleep EXCEPT !.pc = "read"] \in Chan!Agents
           /\ Chan!Asleep.pc = "dead" /\ Chan!Restarted.pc = "read" /\ [Chan!Asleep EXCEPT !.pc = "read"].pc = "read"
<1>1. Chan!Asleep \in Chan!Agents
  BY Nothing DEF Chan!Asleep, Chan!Agents, Bounds
<1>2. QED BY <1>1 DEF Chan!Restarted, Chan!Agents, Chan!Asleep

LEMMA Types == ASSUME Bounds, Chan!TypeOK, Chan!Next PROVE Chan!TypeOK'
<1> USE DEF Chan!TypeOK, Bounds, Chan!Agents, Chan!Engines
<1>0. toAgent \in Seq(Chan!ToAgentFrames) /\ toHost \in Seq(Chan!ToHostFrames) /\ guestd \in Chan!Agents
  OBVIOUS
<1>1. CASE Chan!EnsureResident
  BY <1>1, Sleeps DEF Chan!EnsureResident, Chan!Deployed
<1>2. CASE Chan!NewSerial
  <2>1. Append(toAgent, Chan!Frame("hello", 0, 0)) \in Seq(Chan!ToAgentFrames)
    BY Frames, Appended
  <2>2. QED BY <1>2, <2>1 DEF Chan!NewSerial
<1>3. CASE Chan!WriteRequest
  <2>1. PICK kind \in {"stat"} \cup (chanmix \cap {"get", "set"}), w \in 0..MaxData :
           /\ toAgent' = toAgent \o <<Chan!Frame(kind, hst.n + 1, w)>> \o Chan!Body(hst.n + 1, w)
           /\ hst' = [hst EXCEPT !.pc = "wait", !.n = hst.n + 1]
    BY <1>3 DEF Chan!WriteRequest
  <2>2. hst.n + 1 \in 0..MaxExchanges /\ hst.pc = "idle" /\ kind \in {"hello", "stat", "get", "set"}
    BY SMTT(30), <1>3 DEF Chan!WriteRequest
  <2>3. toAgent' \in Seq(Chan!ToAgentFrames)
    BY <2>1, <2>2, SentOff DEF SentWell, SentAfter
  <2>4. QED BY <1>3, <2>1, <2>2, <2>3 DEF Chan!WriteRequest
<1>4. CASE Chan!Ready
  BY <1>4, Taken DEF Chan!Ready
<1>5. CASE Chan!readMeta
  <2>1. /\ toHost # <<>> /\ Head(toHost) \in Chan!ToHostFrames /\ Tail(toHost) \in Seq(Chan!ToHostFrames)
        /\ Head(toHost).n \in 0..MaxExchanges /\ Head(toHost).w \in 0..MaxData
    BY SMTT(30), <1>5, Taken, Frames DEF Chan!readMeta
  <2>2. took' \in [1..MaxExchanges -> SUBSET (0..MaxExchanges)]
    BY <1>5, <2>1 DEF Chan!readMeta
  <2>3. QED BY <1>5, <2>1, <2>2 DEF Chan!readMeta
<1>6. CASE Chan!ReadBody
  <2>1. /\ toHost # <<>> /\ Head(toHost) \in Chan!ToHostFrames /\ Tail(toHost) \in Seq(Chan!ToHostFrames)
        /\ Head(toHost).n \in 0..MaxExchanges
    BY SMTT(30), <1>6, Taken, Frames DEF Chan!ReadBody
  <2>2. took' \in [1..MaxExchanges -> SUBSET (0..MaxExchanges)]
    BY <1>6, <2>1 DEF Chan!ReadBody
  <2>3. \/ hst' = [hst EXCEPT !.pc = "idle", !.left = 0]
        \/ hst' = [hst EXCEPT !.left = hst.left - 1] /\ hst.left - 1 \in 0..MaxData /\ hst.left - 1 > 0
              /\ hst.pc = "body"
    <3>1. hst.left \in 0..MaxData /\ hst.left > 0 /\ hst.pc = "body"
      BY <1>6 DEF Chan!ReadBody
    <3>2. QED BY <1>6, <3>1 DEF Chan!ReadBody
  <2>4. hst' \in Chan!Engines
        /\ (hst'.pc = "body" <=> hst'.left > 0)
    <3>1. CASE hst' = [hst EXCEPT !.pc = "idle", !.left = 0]
      <4>1. hst' = [pc |-> "idle", n |-> hst.n, left |-> 0] /\ hst.n \in 0..MaxExchanges
        BY <3>1
      <4>2. QED BY <4>1
    <3>2. CASE hst' = [hst EXCEPT !.left = hst.left - 1] /\ hst.left - 1 \in 0..MaxData /\ hst.left - 1 > 0
          /\ hst.pc = "body"
      BY <3>2
    <3>3. QED BY <2>3, <3>1, <3>2
  <2>5. QED BY <1>6, <2>1, <2>2, <2>4 DEF Chan!ReadBody
<1>7. ASSUME toAgent # <<>>
      PROVE  /\ Tail(toAgent) \in Seq(Chan!ToAgentFrames) /\ Head(toAgent) \in Chan!ToAgentFrames
             /\ Head(toAgent).n \in 0..MaxExchanges /\ Head(toAgent).w \in 0..MaxData
  BY SMTT(30), <1>7, Taken, Frames
<1>8. \A c \in {"ok", "err"}, n \in 0..MaxExchanges : toHost \o <<Chan!Frame(c, n, 0)>> \in Seq(Chan!ToHostFrames)
  <2> SUFFICES ASSUME NEW c \in {"ok", "err"}, NEW n \in 0..MaxExchanges
               PROVE  toHost \o <<Chan!Frame(c, n, 0)>> \in Seq(Chan!ToHostFrames)
    OBVIOUS
  <2>1. Chan!Frame(c, n, 0) \in Chan!ToHostFrames
    BY SMTT(30), Frames
  <2>2. QED BY <2>1
<1>9. CASE Chan!serveHello
  BY <1>7, <1>8, <1>9 DEF Chan!serveHello, Chan!NextIs, Chan!Reply
<1>10. CASE Chan!ServeStat
  BY <1>7, <1>8, <1>10 DEF Chan!ServeStat, Chan!NextIs, Chan!Reply, Chan!Refuse
<1>11. CASE Chan!ServeGet
  <2>1. toAgent # <<>> /\ toAgent' = Tail(toAgent)
    BY <1>11 DEF Chan!ServeGet, Chan!NextIs, Chan!Reply, Chan!Refuse
  <2> DEFINE n == Head(toAgent).n
  <2>2. CASE toHost' = toHost \o <<Chan!Frame("err", n, 0)>>
    BY <1>7, <1>8, <1>11, <2>1, <2>2 DEF Chan!ServeGet
  <2>3. CASE \E w \in 0..MaxData : toHost' = toHost \o (<<Chan!Frame("meta", n, w)>> \o Chan!Body(n, w))
    <3>1. PICK w \in 0..MaxData : toHost' = toHost \o (<<Chan!Frame("meta", n, w)>> \o Chan!Body(n, w))
      BY <2>3
    <3>2. Chan!Frame("meta", n, w) \in Chan!ToHostFrames /\ Chan!Body(n, w) \in Seq(Chan!ToHostFrames)
      BY <1>7, <2>1, Frames, Bodies
    <3>3. <<Chan!Frame("meta", n, w)>> \o Chan!Body(n, w) \in Seq(Chan!ToHostFrames)
      BY <3>2, One, Joined
    <3>4. toHost' \in Seq(Chan!ToHostFrames)
      BY <3>1, <3>3, Joined
    <3>5. QED BY <1>7, <1>11, <2>1, <3>4 DEF Chan!ServeGet
  <2>4. QED BY <1>11, <2>2, <2>3 DEF Chan!ServeGet, Chan!Reply, Chan!Refuse
<1>12. CASE Chan!ServeSet
  <2>1. CASE resident.backend
    <3>1. <<>> \in Seq(Chan!ToAgentFrames) /\ toAgent # <<>> /\ toHost' = toHost /\ toAgent' = Tail(toAgent)
          /\ guestd' = [pc |-> "body", n |-> Head(toAgent).n, left |-> Head(toAgent).w, of |-> Head(toAgent).w, got |-> <<>>]
      BY <1>12, <2>1, Nothing DEF Chan!ServeSet, Chan!NextIs
    <3>2. QED BY <1>7, <1>12, <3>1 DEF Chan!ServeSet
  <2>2. CASE ~resident.backend
    BY <1>7, <1>8, <1>12, <2>2 DEF Chan!ServeSet, Chan!NextIs, Chan!Reply, Chan!Refuse
  <2>3. QED BY <2>1, <2>2
<1>13. CASE Chan!AgentReadBody
  <2>1. Append(guestd.got, Head(toAgent)) \in Seq(Chan!ToAgentFrames)
    BY <1>7, <1>13, Appended DEF Chan!AgentReadBody
  <2>2. guestd' \in Chan!Agents
    <3>1. CASE Head(toAgent).kind # "data"
      BY <1>13, <3>1, Sleeps DEF Chan!AgentReadBody
    <3>2. CASE Head(toAgent).kind = "data"
      <4>1. guestd' = [guestd EXCEPT !.left = guestd.left - 1, !.got = Append(guestd.got, Head(toAgent))]
        BY <1>13, <3>2 DEF Chan!AgentReadBody
      <4>2. guestd.left - 1 \in 0..MaxData
        BY <1>13 DEF Chan!AgentReadBody
      <4>3. QED BY <2>1, <4>1, <4>2
    <3>3. QED BY <3>1, <3>2
  <2>3. QED BY <1>7, <1>13, <2>2 DEF Chan!AgentReadBody
<1>14. CASE Chan!BackendWrite
  <2>1. \A c \in {"ok", "err"} : Append(toHost, Chan!Frame(c, guestd.n, 0)) \in Seq(Chan!ToHostFrames)
    <3> SUFFICES ASSUME NEW c \in {"ok", "err"} PROVE Append(toHost, Chan!Frame(c, guestd.n, 0)) \in Seq(Chan!ToHostFrames)
      OBVIOUS
    <3>1. Chan!Frame(c, guestd.n, 0) \in Chan!ToHostFrames
      BY Frames
    <3>2. QED BY <1>0, <3>1, Appended
  <2>2. guestd' \in Chan!Agents /\ board' \in [of : 0..MaxData, got : Seq(Chan!ToAgentFrames)]
    <3>1. guestd' \in Chan!Agents
      BY <1>14, Sleeps DEF Chan!BackendWrite
    <3>2. guestd.of \in 0..MaxData /\ guestd.got \in Seq(Chan!ToAgentFrames)
      BY <1>0
    <3>3. board' = [of |-> guestd.of, got |-> guestd.got] \/ board' = board
      BY <1>14 DEF Chan!BackendWrite
    <3>4. QED BY <3>1, <3>2, <3>3
  <2>3. toHost' \in Seq(Chan!ToHostFrames)
    BY <1>14, <2>1 DEF Chan!BackendWrite
  <2>4. QED BY <1>14, <2>2, <2>3 DEF Chan!BackendWrite
<1>15. CASE Chan!ServeStray
  <2>1. toAgent # <<>> /\ toAgent' = Tail(toAgent) /\ UNCHANGED <<resident, hst, board, took>>
        /\ \/ guestd' = Chan!Asleep /\ toHost' = toHost
           \/ guestd' = guestd /\ toHost' = toHost \o <<Chan!Frame("err", Head(toAgent).n, 0)>>
    BY <1>15 DEF Chan!ServeStray, Chan!NextIs, Chan!Reply, Chan!Refuse
  <2>2. guestd' \in Chan!Agents
    BY <2>1, Sleeps
  <2>3. toHost' \in Seq(Chan!ToHostFrames) /\ toAgent' \in Seq(Chan!ToAgentFrames)
    BY <1>7, <1>8, <2>1
  <2>4. QED BY <2>1, <2>2, <2>3
<1>16. CASE Chan!AgentExits
  <2>1. toAgent' \in Seq(Chan!ToAgentFrames)
    BY <1>16, Dropped DEF Chan!AgentExits
  <2>2. toHost' \in Seq(Chan!ToHostFrames)
    BY SMTT(30), <1>16, Kept DEF Chan!AgentExits
  <2>3. QED BY <1>16, <2>1, <2>2, Sleeps DEF Chan!AgentExits
<1>17. CASE Chan!ServiceRestarts
  BY <1>17, Sleeps DEF Chan!ServiceRestarts
<1>18. CASE Chan!newBackend
  BY <1>18 DEF Chan!newBackend
<1>19. QED
  BY <1>1, <1>2, <1>3, <1>4, <1>5, <1>6, <1>9, <1>10, <1>11, <1>12, <1>13, <1>14, <1>15, <1>16, <1>17, <1>18
  DEF Chan!Next, Chan!HostReads, Chan!AgentServes

-----------------------------------------------------------------------------
(* Payloads behind their requests, in every history *)

Streams == Chan!Followed(toAgent) /\ Chan!ReadsOn /\ Chan!WholePayloads

LEMMA SentAlone ==
    ASSUME Bounds, NEW s \in Seq(Chan!ToAgentFrames)
    PROVE  Append(s, Chan!Frame("hello", 0, 0)) = s \o <<Chan!Frame("hello", 0, 0)>> \o Chan!Body(0, 0)
<1>1. Chan!Body(0, 0) = <<>>
  BY Bodies, Nothing DEF Bounds
<1>2. Chan!Frame("hello", 0, 0) \in Chan!ToAgentFrames
  BY Frames DEF Bounds
<1>3. QED BY <1>1, <1>2

(* The agent reads on, or does not read, however much is sent behind it. *)
LEMMA SentBehind ==
    ASSUME Bounds, Chan!TypeOK, Streams, NEW c \in {"hello", "stat", "get", "set"},
           NEW n \in 0..MaxExchanges, NEW w \in 0..MaxData, c = "set" => n > 0,
           toAgent' = SentAfter(toAgent, c, n, w), UNCHANGED <<guestd, board>>
    PROVE  Streams'
<1>1. Chan!Followed(toAgent')
  BY FollowedSent DEF Streams, Chan!TypeOK
<1>2. /\ Len(toAgent) \in Nat /\ Len(toAgent') = Len(toAgent) + 1 + w /\ w \in Nat
      /\ \A i \in 1..Len(toAgent) : toAgent'[i] = toAgent[i]
  <2>1. SentWell(toAgent, c, n, w) /\ Len(toAgent) \in Nat
    BY SentOff, Elements DEF Chan!TypeOK
  <2>2. toAgent' = SentAfter(toAgent, c, n, w)
    OBVIOUS
  <2> DEFINE t == SentAfter(toAgent, c, n, w)
  <2>3. Len(t) = Len(toAgent) + 1 + w /\ \A i \in 1..Len(toAgent) : t[i] = toAgent[i]
    BY <2>1, Zenon DEF SentWell
  <2>4. toAgent' = t
    BY <2>2
  <2> HIDE DEF t
  <2>5. QED BY <2>1, <2>3, <2>4
<1>3. Chan!ReadsOn'
  <2> SUFFICES ASSUME guestd.pc = "body"
               PROVE  /\ guestd.n > 0 /\ guestd.left <= guestd.of /\ guestd.left <= Len(toAgent')
                      /\ guestd.got = Chan!Body(guestd.n, guestd.of - guestd.left)
                      /\ \A k \in 1..guestd.left :
                            toAgent'[k] = Chan!Frame("data", guestd.n, guestd.of - guestd.left + k)
    BY DEF Chan!ReadsOn
  <2>1. /\ guestd.n > 0 /\ guestd.left <= guestd.of /\ guestd.left <= Len(toAgent) /\ guestd.left \in Nat
        /\ guestd.got = Chan!Body(guestd.n, guestd.of - guestd.left)
        /\ \A k \in 1..guestd.left : toAgent[k] = Chan!Frame("data", guestd.n, guestd.of - guestd.left + k)
    BY DEF Streams, Chan!ReadsOn, Chan!TypeOK, Bounds
  <2>2. QED BY <1>2, <2>1
<1>4. QED BY <1>1, <1>3 DEF Streams, Chan!WholePayloads

(* An agent that reads no payload takes away what it likes. *)
LEMMA NotReading ==
    ASSUME Bounds, Chan!TypeOK, Streams, guestd'.pc # "body", board' = board,
           \/ toAgent' = toAgent
           \/ toAgent # <<>> /\ toAgent' = Tail(toAgent)
           \/ \E k \in 0..Len(toAgent) : toAgent' = SubSeq(toAgent, k + 1, Len(toAgent))
    PROVE  Streams'
<1>1. toAgent \in Seq(Chan!ToAgentFrames) /\ Chan!Followed(toAgent)
  BY DEF Streams, Chan!TypeOK
<1>2. CASE toAgent # <<>> /\ toAgent' = Tail(toAgent)
  BY <1>1, <1>2, FollowedTail DEF Streams, Chan!ReadsOn, Chan!WholePayloads
<1>3. CASE \E k \in 0..Len(toAgent) : toAgent' = SubSeq(toAgent, k + 1, Len(toAgent))
  BY <1>1, <1>3, FollowedDrops DEF Streams, Chan!ReadsOn, Chan!WholePayloads
<1>4. CASE toAgent' = toAgent
  BY <1>1, <1>4 DEF Streams, Chan!ReadsOn, Chan!WholePayloads
<1>5. QED BY <1>2, <1>3, <1>4

LEMMA ServeSetStreams == ASSUME Bounds, Chan!TypeOK, Streams, Chan!ServeSet PROVE Streams'
<1> DEFINE f == Head(toAgent)
<1>1. toAgent # <<>> /\ toAgent' = Tail(toAgent) /\ board' = board /\ guestd.pc = "read" /\ f.kind = "set"
  BY DEF Chan!ServeSet, Chan!NextIs, Chan!Reply, Chan!Refuse
<1>2. CASE ~resident.backend
  BY <1>1, <1>2, NotReading DEF Chan!ServeSet
<1>3. CASE resident.backend
  <2>1. guestd' = [pc |-> "body", n |-> f.n, left |-> f.w, of |-> f.w, got |-> <<>>]
    BY <1>3 DEF Chan!ServeSet
  <2>2. /\ f = toAgent[1] /\ Len(toAgent) \in Nat \ {0} /\ DOMAIN toAgent = 1..Len(toAgent)
        /\ Len(toAgent') = Len(toAgent) - 1 /\ \A i \in 1..Len(toAgent) - 1 : toAgent'[i] = toAgent[i + 1]
        /\ f \in Chan!ToAgentFrames
    BY <1>1, Taken, Elements DEF Chan!TypeOK
  <2>3. f.w \in 0..MaxData /\ f.w \in Nat /\ f.n \in 0..MaxExchanges
    BY <2>2, Frames DEF Bounds
  <2>4. f.n > 0 /\ 1 + f.w <= Len(toAgent) /\ \A k \in 1..f.w : toAgent[1 + k] = Chan!Frame("data", f.n, k)
    BY <1>1, <2>2 DEF Streams, Chan!Followed
  <2>5. Chan!Body(f.n, 0) = <<>>
    BY <2>3, Bodies, Nothing DEF Bounds
  <2>6. ASSUME NEW k \in 1..f.w PROVE toAgent'[k] = Chan!Frame("data", f.n, f.w - f.w + k)
    <3>1. k \in 1..Len(toAgent) - 1 /\ f.w - f.w + k = k /\ k + 1 = 1 + k
      BY <2>2, <2>3, <2>4
    <3>2. QED BY <2>2, <2>4, <3>1
  <2>7. f.w <= f.w /\ f.w <= Len(toAgent') /\ f.w - f.w = 0
    BY <2>2, <2>3, <2>4
  <2> HIDE DEF f
  <2>8. guestd'.n = f.n /\ guestd'.left = f.w /\ guestd'.of = f.w /\ guestd'.got = <<>>
    BY <2>1
  <2>9. Chan!ReadsOn'
    BY <2>4, <2>5, <2>6, <2>7, <2>8 DEF Chan!ReadsOn
  <2>10. Chan!Followed(toAgent')
    BY <1>1, FollowedTail DEF Streams, Chan!TypeOK
  <2>11. QED BY <1>1, <2>9, <2>10 DEF Streams, Chan!WholePayloads
<1>4. QED BY <1>2, <1>3

LEMMA ReadBodyStreams == ASSUME Bounds, Chan!TypeOK, Streams, Chan!AgentReadBody PROVE Streams'
<1> DEFINE n == guestd.n
           got == guestd.of - guestd.left
<1>1. toAgent # <<>> /\ toAgent' = Tail(toAgent) /\ board' = board /\ guestd.pc = "body" /\ guestd.left > 0
  BY DEF Chan!AgentReadBody
<1>2. /\ Head(toAgent) = toAgent[1] /\ Len(toAgent) \in Nat \ {0}
      /\ Len(toAgent') = Len(toAgent) - 1 /\ \A i \in 1..Len(toAgent) - 1 : toAgent'[i] = toAgent[i + 1]
  BY <1>1, Taken DEF Chan!TypeOK
<1>3. /\ n > 0 /\ guestd.left <= guestd.of /\ guestd.left <= Len(toAgent)
      /\ guestd.got = Chan!Body(n, got)
      /\ \A k \in 1..guestd.left : toAgent[k] = Chan!Frame("data", n, got + k)
  BY <1>1 DEF Streams, Chan!ReadsOn
<1>4. /\ guestd.left \in Nat \ {0} /\ guestd.of \in 0..MaxData /\ n \in 0..MaxExchanges /\ MaxData \in Nat
      /\ got \in 0..MaxData /\ got + 1 \in 0..MaxData
  BY <1>1, <1>3 DEF Chan!TypeOK, Bounds
<1>5. Head(toAgent) = Chan!Frame("data", n, got + 1)
  BY <1>2, <1>3, <1>4
<1>6. guestd' = [guestd EXCEPT !.left = guestd.left - 1, !.got = Append(guestd.got, Head(toAgent))]
  BY <1>5, Frames DEF Chan!AgentReadBody
<1>7. /\ guestd'.pc = "body" /\ guestd'.n = n /\ guestd'.left = guestd.left - 1 /\ guestd'.of = guestd.of
      /\ guestd'.got = Append(guestd.got, Head(toAgent))
  BY <1>1, <1>6 DEF Chan!TypeOK
<1>8. guestd'.got = Chan!Body(n, got + 1)
  BY <1>3, <1>4, <1>5, <1>7, BodyGrows
<1>9. guestd'.of - guestd'.left = got + 1
  BY <1>4, <1>7 DEF Chan!TypeOK
<1>10. ASSUME NEW k \in 1..guestd'.left PROVE toAgent'[k] = Chan!Frame("data", n, got + 1 + k)
  <2>1. k \in Nat /\ k >= 1 /\ k <= guestd.left - 1 /\ guestd.left <= Len(toAgent)
    BY <1>3, <1>4, <1>7
  <2>2. got \in Nat
    BY <1>4
  <2> HIDE DEF got
  <2>3. k \in 1..Len(toAgent) - 1 /\ k + 1 \in 1..guestd.left /\ got + (k + 1) = got + 1 + k
    BY <1>2, <1>4, <2>1, <2>2
  <2>4. QED BY <1>2, <1>3, <2>3
<1>11. n > 0 /\ guestd'.left <= guestd'.of /\ guestd'.left <= Len(toAgent')
  BY <1>2, <1>3, <1>4, <1>7
<1> HIDE DEF n, got
<1>12. Chan!ReadsOn'
  BY <1>7, <1>8, <1>9, <1>10, <1>11 DEF Chan!ReadsOn
<1>13. Chan!Followed(toAgent')
  BY <1>1, FollowedTail DEF Streams, Chan!TypeOK
<1>14. QED BY <1>1, <1>12, <1>13 DEF Streams, Chan!WholePayloads

LEMMA BackendWriteStreams == ASSUME Bounds, Chan!TypeOK, Streams, Chan!BackendWrite PROVE Streams'
<1>1. guestd.left = 0 /\ guestd.pc = "body" /\ toAgent' = toAgent /\ guestd' = [Chan!Asleep EXCEPT !.pc = "read"]
  BY DEF Chan!BackendWrite
<1>2. guestd'.pc # "body"
  BY <1>1, Sleeps
<1>3. guestd.n \in 1..MaxExchanges /\ guestd.of - guestd.left = guestd.of
      /\ guestd.got = Chan!Body(guestd.n, guestd.of - guestd.left)
  BY <1>1 DEF Streams, Chan!ReadsOn, Chan!TypeOK, Bounds
<1>4. board' = board \/ (board'.got = Chan!Body(guestd.n, board'.of))
  BY <1>3 DEF Chan!BackendWrite
<1>5. Chan!WholePayloads'
  BY <1>3, <1>4 DEF Streams, Chan!WholePayloads
<1>6. QED BY <1>1, <1>2, <1>5 DEF Streams, Chan!ReadsOn

LEMMA StreamsKept == ASSUME Bounds, Chan!TypeOK, Streams, Chan!Next PROVE Streams'
<1>1. CASE Chan!EnsureResident \/ Chan!ServiceRestarts
  BY <1>1, Sleeps, NotReading DEF Chan!EnsureResident, Chan!ServiceRestarts
<1>2. CASE Chan!NewSerial
  <2>1. toAgent' = toAgent \o <<Chan!Frame("hello", 0, 0)>> \o Chan!Body(0, 0) /\ UNCHANGED <<guestd, board>>
    BY <1>2, SentAlone DEF Chan!NewSerial, Chan!TypeOK
  <2>2. QED BY <2>1, SentBehind DEF Bounds, SentAfter
<1>3. CASE Chan!WriteRequest
  <2>1. PICK kind \in {"stat"} \cup (chanmix \cap {"get", "set"}), w \in 0..MaxData :
           toAgent' = toAgent \o <<Chan!Frame(kind, hst.n + 1, w)>> \o Chan!Body(hst.n + 1, w)
    BY <1>3 DEF Chan!WriteRequest
  <2>2. hst.n + 1 \in 0..MaxExchanges /\ hst.n + 1 > 0 /\ kind \in {"hello", "stat", "get", "set"}
        /\ UNCHANGED <<guestd, board>>
    BY <1>3 DEF Chan!WriteRequest, Chan!TypeOK, Bounds
  <2>3. QED BY <2>1, <2>2, SentBehind DEF SentAfter
<1>4. CASE Chan!HostReads \/ Chan!newBackend
  <2>1. UNCHANGED <<toAgent, guestd, board>>
    BY <1>4 DEF Chan!HostReads, Chan!Ready, Chan!readMeta, Chan!ReadBody, Chan!newBackend
  <2>2. QED BY <2>1 DEF Streams, Chan!ReadsOn, Chan!WholePayloads
<1>5. CASE Chan!serveHello \/ Chan!ServeStat \/ Chan!ServeGet
  <2>1. toAgent # <<>> /\ toAgent' = Tail(toAgent) /\ guestd' = guestd /\ board' = board /\ guestd.pc = "read"
    BY <1>5 DEF Chan!serveHello, Chan!ServeStat, Chan!ServeGet, Chan!NextIs, Chan!Reply, Chan!Refuse
  <2>2. QED BY <2>1, NotReading
<1>6. CASE Chan!ServeStray
  <2>1. toAgent # <<>> /\ toAgent' = Tail(toAgent) /\ (guestd' = guestd \/ guestd' = Chan!Asleep) /\ board' = board
        /\ guestd.pc = "read"
    BY <1>6 DEF Chan!ServeStray, Chan!NextIs, Chan!Reply, Chan!Refuse
  <2>2. QED BY <2>1, Sleeps, NotReading
<1>7. CASE Chan!AgentExits
  BY <1>7, Sleeps, NotReading DEF Chan!AgentExits
<1>8. CASE Chan!ServeSet \/ Chan!AgentReadBody \/ Chan!BackendWrite
  BY <1>8, ServeSetStreams, ReadBodyStreams, BackendWriteStreams
<1>9. QED BY <1>1, <1>2, <1>3, <1>4, <1>5, <1>6, <1>7, <1>8 DEF Chan!Next, Chan!AgentServes

-----------------------------------------------------------------------------
(* Where both ends are in the stream, when no data frame reads as a request *)

Stepping == Bounds /\ Chan!TypeOK /\ Chan!TypeOK' /\ Streams /\ Chan!InStep

LEMMA Pipes ==
    ASSUME Chan!TypeOK
    PROVE  /\ Len(toAgent) \in Nat /\ DOMAIN toAgent = 1..Len(toAgent) /\ Len(toHost) \in Nat
          /\ DOMAIN toHost = 1..Len(toHost)
           /\ (toHost = <<>> <=> Len(toHost) = 0) /\ (toAgent = <<>> <=> Len(toAgent) = 0)
           /\ toAgent \in Seq(Chan!ToAgentFrames) /\ toHost \in Seq(Chan!ToHostFrames)
BY Elements, Nothing DEF Chan!TypeOK

LEMMA Heads ==
    ASSUME Chan!TypeOK
    PROVE  /\ toAgent # <<>> =>
                 /\ Head(toAgent) = toAgent[1] /\ 1 \in DOMAIN toAgent /\ Len(Tail(toAgent)) = Len(toAgent) - 1
                 /\ DOMAIN Tail(toAgent) = 1..Len(toAgent) - 1
                 /\ \A i \in 1..Len(toAgent) - 1 : Tail(toAgent)[i] = toAgent[i + 1] /\ i + 1 \in DOMAIN toAgent
           /\ toHost # <<>> =>
                 /\ Head(toHost) = toHost[1] /\ 1 \in DOMAIN toHost /\ Len(Tail(toHost)) = Len(toHost) - 1
                 /\ DOMAIN Tail(toHost) = 1..Len(toHost) - 1
                 /\ \A i \in 1..Len(toHost) - 1 : Tail(toHost)[i] = toHost[i + 1] /\ i + 1 \in DOMAIN toHost
BY Pipes, Taken, Elements

(* Behind the last request of a pipe there are only its data frames. *)
LEMMA Rest ==
    ASSUME Bounds, NEW s \in Seq(Chan!ToAgentFrames), Chan!Followed(s), NEW i \in DOMAIN s, s[i].kind # "data",
           i + s[i].w = Len(s), NEW j \in i + 1..Len(s)
    PROVE  s[j].kind = "data"
<1> DEFINE w == s[i].w
<1>1. w \in Nat /\ i \in Nat /\ i + w = Len(s)
  BY Elements, Frames DEF Bounds
<1>2. \A k \in 1..w : s[i + k] = Chan!Frame("data", s[i].n, k)
  BY DEF Chan!Followed
<1> HIDE DEF w
<1>3. j - i \in 1..w /\ i + (j - i) = j
  BY <1>1
<1>4. s[j] = Chan!Frame("data", s[i].n, j - i)
  BY <1>2, <1>3
<1>5. QED BY <1>4, Frames

(* An agent at a request is at the one the host waits for. *)
LEMMA AtRequest ==
    ASSUME Stepping, guestd.pc = "read", toAgent # <<>>, Head(toAgent).kind \in {"stat", "get", "set"}
    PROVE  /\ hst.pc = "wait" /\ hst.n > 0 /\ toHost = <<>>
           /\ Head(toAgent).n = hst.n /\ 1 + Head(toAgent).w = Len(toAgent)
           /\ \A j \in DOMAIN Tail(toAgent) : Tail(toAgent)[j].kind = "data"
<1>1. toAgent[1].kind \in {"stat", "get", "set"} /\ 1 \in DOMAIN toAgent /\ Head(toAgent) = toAgent[1]
  BY Heads DEF Stepping
<1>2. ~Chan!Unasked
  BY <1>1 DEF Chan!Unasked
<1>3. hst.pc = "wait" /\ hst.n > 0 /\ Chan!Asked
  <2>1. hst.pc \notin {"install", "open", "never", "idle", "body"}
    BY <1>2 DEF Stepping, Chan!InStep, Chan!Delivered
  <2>2. hst.pc # "hello"
    BY <1>1, Frames DEF Stepping, Chan!InStep, Chan!Greeting, Chan!Frame
  <2>3. hst.pc = "wait"
    BY <2>1, <2>2 DEF Stepping, Chan!TypeOK
  <2>4. QED BY <1>2, <2>3 DEF Stepping, Chan!InStep, Chan!Receiving, Chan!Answered
<1>4. PICK i \in DOMAIN toAgent :
         /\ toAgent[i].kind \in {"stat", "get", "set"} /\ toAgent[i].n = hst.n
         /\ i + toAgent[i].w = Len(toAgent)
         /\ \A j \in 1..i - 1 : toAgent[j].kind = "data"
  BY <1>3 DEF Chan!Asked
<1>5. i = 1
  <2>1. i \in Nat /\ i >= 1
    BY Pipes DEF Stepping
  <2>2. i # 1 => 1 \in 1..i - 1
    BY <2>1
  <2>3. QED BY <1>1, <1>4, <2>2
<1>6. ASSUME NEW j \in DOMAIN Tail(toAgent) PROVE Tail(toAgent)[j].kind = "data"
  <2>1. j \in 1..Len(toAgent) - 1 /\ Tail(toAgent)[j] = toAgent[j + 1]
    BY Heads DEF Stepping
  <2>2. j + 1 \in 1 + 1..Len(toAgent) /\ toAgent \in Seq(Chan!ToAgentFrames)
    BY <2>1, Pipes DEF Stepping
  <2>3. toAgent[1].kind # "data" /\ 1 + toAgent[1].w = Len(toAgent) /\ Bounds /\ Chan!Followed(toAgent)
    BY <1>1, <1>4, <1>5 DEF Stepping, Streams
  <2>4. toAgent[j + 1].kind = "data"
    BY <1>1, <2>2, <2>3, Rest
  <2>5. QED BY <2>1, <2>4
<1>7. QED BY <1>1, <1>3, <1>4, <1>5, <1>6 DEF Chan!Asked

(* What the agent answers is the answer. *)
LEMMA Answers ==
    ASSUME Stepping, NEW c \in {"ok", "err"}, hst.pc = "wait", hst.n > 0, toHost = <<>>, hst' = hst,
           toHost' = toHost \o <<Chan!Frame(c, hst.n, 0)>>, Chan!Unasked'
    PROVE  Chan!InStep'
<1>1. toHost' = <<Chan!Frame(c, hst.n, 0)>>
  <2>1. Chan!Frame(c, hst.n, 0) \in Chan!ToHostFrames
    BY Frames DEF Stepping, Chan!TypeOK, Bounds
  <2>2. QED BY <2>1
<1>2. DOMAIN toHost' = {1} /\ Len(toHost') = 1 /\ toHost'[1] = Chan!Frame(c, hst.n, 0)
  BY <1>1
<1>3. toHost'[1].kind = c /\ toHost'[1].n = hst.n /\ toHost'[1].w = 0 /\ c \notin {"data", "meta"}
  BY <1>2, Frames DEF Stepping
<1>4. Chan!Answered'
  BY <1>2, <1>3 DEF Chan!Answered
<1>5. QED BY <1>4 DEF Chan!InStep

LEMMA Replies ==
    ASSUME Stepping, guestd.pc = "read", toAgent # <<>>, Head(toAgent).kind \in {"stat", "get", "set"},
           toAgent' = Tail(toAgent), guestd' = guestd, hst' = hst, NEW c \in {"ok", "err"},
           toHost' = toHost \o <<Chan!Frame(c, Head(toAgent).n, 0)>>
    PROVE  Chan!InStep'
<1>1. /\ hst.pc = "wait" /\ hst.n > 0 /\ toHost = <<>> /\ Head(toAgent).n = hst.n
      /\ \A j \in DOMAIN Tail(toAgent) : Tail(toAgent)[j].kind = "data"
  BY AtRequest
<1>2. Chan!Unasked'
  BY <1>1 DEF Chan!Unasked
<1>3. QED BY <1>1, <1>2, Answers

LEMMA WriteRequestSteps == ASSUME Stepping, Chan!WriteRequest PROVE Chan!InStep'
<1>1. PICK kind \in {"stat"} \cup (chanmix \cap {"get", "set"}), w \in 0..MaxData :
         /\ toAgent' = toAgent \o <<Chan!Frame(kind, hst.n + 1, w)>> \o Chan!Body(hst.n + 1, w)
         /\ hst' = [hst EXCEPT !.pc = "wait", !.n = hst.n + 1]
  BY DEF Chan!WriteRequest
<1>2. /\ Chan!Unasked /\ toHost = <<>> /\ hst.n + 1 \in 0..MaxExchanges /\ hst.n + 1 > 0
      /\ kind \in {"stat", "get", "set"}
      /\ guestd' = guestd /\ toHost' = toHost
  BY SMTT(30) DEF Chan!WriteRequest, Stepping, Chan!InStep, Chan!TypeOK, Bounds
<1>3. hst'.pc = "wait" /\ hst'.n = hst.n + 1
  BY <1>1 DEF Stepping, Chan!TypeOK
<1>4. /\ Len(toAgent) \in Nat /\ w \in Nat /\ Len(toAgent') = Len(toAgent) + 1 + w
      /\ \A i \in 1..Len(toAgent) : toAgent'[i] = toAgent[i]
      /\ toAgent'[Len(toAgent) + 1] = Chan!Frame(kind, hst.n + 1, w)
  <2>1. toAgent \in Seq(Chan!ToAgentFrames) /\ kind \in {"hello", "stat", "get", "set"} /\ Bounds
        /\ Len(toAgent) \in Nat /\ w \in Nat
    BY <1>2, Pipes DEF Stepping, Bounds
  <2>2. toAgent' = SentAfter(toAgent, kind, hst.n + 1, w) /\ hst.n + 1 \in 0..MaxExchanges /\ w \in 0..MaxData
    BY <1>1, <1>2 DEF SentAfter
  <2>3. SentWell(toAgent, kind, hst.n + 1, w) /\ Len(toAgent) \in Nat /\ w \in Nat
    BY <2>1, <2>2, SentOff
  <2> QED
    BY <2>2, <2>3 DEF SentWell
<1>5. DOMAIN toAgent = 1..Len(toAgent) /\ DOMAIN toAgent' = 1..Len(toAgent')
  BY Elements DEF Stepping, Chan!TypeOK
<1> DEFINE i == Len(toAgent) + 1
<1>6. i \in DOMAIN toAgent' /\ i + toAgent'[i].w = Len(toAgent') /\ toAgent'[i].kind = kind
      /\ toAgent'[i].n = hst'.n
  BY <1>3, <1>4, <1>5, Frames DEF Stepping
<1>7. \A j \in 1..i - 1 : toAgent'[j].kind = "data"
  BY <1>2, <1>4, <1>5 DEF Chan!Unasked
<1> HIDE DEF i
<1>8. Chan!Asked'
  BY <1>2, <1>6, <1>7 DEF Chan!Asked, Chan!Unasked
<1>9. QED BY <1>2, <1>3, <1>8 DEF Chan!InStep

LEMMA readMetaSteps ==
    ASSUME Stepping, Chan!readMeta
    PROVE  Chan!InStep' /\ hst.n > 0 /\ Head(toHost).n = hst.n
<1> DEFINE f == Head(toHost)
<1>1. hst.pc = "wait" /\ toHost # <<>> /\ toHost' = Tail(toHost) /\ UNCHANGED <<toAgent, guestd>>
  BY DEF Chan!readMeta
<1>2. Chan!Answered /\ hst.n > 0
  BY <1>1 DEF Stepping, Chan!InStep, Chan!Asked, Chan!Receiving
<1>3. /\ f = toHost[1] /\ 1 \in DOMAIN toHost /\ Len(toHost') = Len(toHost) - 1
      /\ DOMAIN toHost' = 1..Len(toHost) - 1
      /\ \A i \in 1..Len(toHost) - 1 : toHost'[i] = toHost[i + 1] /\ i + 1 \in DOMAIN toHost
      /\ Len(toHost) \in Nat
  BY <1>1, Heads, Pipes DEF Stepping
<1>4. f.n = hst.n /\ Len(toHost) <= 1 + f.w /\ (f.kind # "meta" => f.w = 0) /\ f.w \in Nat
  <2>1. f \in Chan!ToHostFrames
    BY <1>1, Taken, Pipes DEF Stepping
  <2>2. f.w \in Nat
    BY <2>1, Frames DEF Stepping, Bounds
  <2>3. QED BY <1>1, <1>2, <1>3, <2>2 DEF Chan!Answered
<1>5. \A i \in DOMAIN toHost' : toHost'[i].n = hst.n /\ toHost'[i].kind = "data"
  <2> SUFFICES ASSUME NEW i \in DOMAIN toHost' PROVE toHost'[i].n = hst.n /\ toHost'[i].kind = "data"
    OBVIOUS
  <2>1. i + 1 # 1 /\ i + 1 \in DOMAIN toHost /\ toHost'[i] = toHost[i + 1]
    BY <1>3
  <2>2. QED BY <1>2, <2>1 DEF Chan!Answered
<1>6. Chan!Unasked'
  BY <1>1, <1>2 DEF Chan!Answered, Chan!Unasked
<1>7. CASE f.kind = "meta" /\ f.w > 0
  <2>1. hst' = [hst EXCEPT !.pc = "body", !.left = f.w]
    BY <1>7 DEF Chan!readMeta
  <2>2. hst'.pc = "body" /\ hst'.left = f.w /\ hst'.n = hst.n
    BY <2>1 DEF Stepping, Chan!TypeOK
  <2>3. Len(toHost') <= hst'.left
    BY <1>3, <1>4, <2>2
  <2>4. Chan!Delivered'
    BY <1>5, <1>6, <2>2, <2>3 DEF Chan!Delivered
  <2>5. QED BY <1>2, <1>4, <2>2, <2>4 DEF Chan!InStep
<1>8. CASE ~(f.kind = "meta" /\ f.w > 0)
  <2>1. hst' = [hst EXCEPT !.pc = "idle"]
    BY <1>8 DEF Chan!readMeta
  <2>2. hst'.pc = "idle"
    BY <2>1 DEF Stepping, Chan!TypeOK
  <2>3. f.w = 0
    BY <1>4, <1>8
  <2>4. Len(toHost') = 0
    BY <1>1, <1>3, <1>4, <2>3, Pipes DEF Stepping
  <2>5. toHost' = <<>>
    BY <2>4, Nothing DEF Stepping, Chan!TypeOK
  <2>6. QED BY <1>2, <1>4, <1>6, <2>2, <2>5 DEF Chan!InStep
<1>9. QED BY <1>7, <1>8

LEMMA ReadBodySteps ==
    ASSUME Stepping, Chan!ReadBody
    PROVE  Chan!InStep' /\ hst.n > 0 /\ Head(toHost).n = hst.n
<1>1. hst.pc = "body" /\ toHost # <<>> /\ toHost' = Tail(toHost) /\ UNCHANGED <<toAgent, guestd>>
  BY DEF Chan!ReadBody
<1>2. Chan!Delivered /\ hst.n > 0 /\ hst.left \in Nat
  BY <1>1 DEF Stepping, Chan!InStep, Chan!TypeOK, Bounds
<1>3. /\ Head(toHost) = toHost[1] /\ 1 \in DOMAIN toHost /\ Len(toHost') = Len(toHost) - 1
      /\ DOMAIN toHost' = 1..Len(toHost) - 1
      /\ \A i \in 1..Len(toHost) - 1 : toHost'[i] = toHost[i + 1] /\ i + 1 \in DOMAIN toHost
      /\ Len(toHost) \in Nat /\ Len(toHost) # 0
  BY <1>1, Heads, Pipes DEF Stepping
<1>4. Head(toHost).n = hst.n /\ Head(toHost).kind = "data"
  BY <1>2, <1>3 DEF Chan!Delivered
<1>5. Chan!Unasked' /\ \A i \in DOMAIN toHost' : toHost'[i].n = hst.n /\ toHost'[i].kind = "data"
  BY <1>1, <1>2, <1>3 DEF Chan!Delivered, Chan!Unasked
<1>6. CASE hst.left = 1
  <2>1. hst' = [hst EXCEPT !.pc = "idle", !.left = 0]
    BY <1>6 DEF Chan!ReadBody
  <2>2. hst'.pc = "idle"
    BY <2>1 DEF Stepping, Chan!TypeOK
  <2>3. Len(toHost') = 0
    BY <1>2, <1>3, <1>6 DEF Chan!Delivered
  <2>4. toHost' = <<>>
    BY <2>3, Nothing DEF Stepping, Chan!TypeOK
  <2>5. QED BY <1>2, <1>4, <1>5, <2>2, <2>4 DEF Chan!InStep
<1>7. CASE hst.left # 1
  <2>1. hst' = [hst EXCEPT !.left = hst.left - 1]
    BY <1>4, <1>7 DEF Chan!ReadBody
  <2>2. hst'.pc = "body" /\ hst'.left = hst.left - 1 /\ hst'.n = hst.n
    BY <1>1, <2>1 DEF Stepping, Chan!TypeOK
  <2>3. Len(toHost') <= hst'.left
    BY <1>2, <1>3, <2>2 DEF Chan!Delivered
  <2>4. Chan!Delivered'
    BY <1>5, <2>2, <2>3 DEF Chan!Delivered
  <2>5. QED BY <1>2, <1>4, <2>2, <2>4 DEF Chan!InStep
<1>8. QED BY <1>6, <1>7

LEMMA GreetingSteps ==
    ASSUME Stepping, Chan!EnsureResident \/ Chan!NewSerial \/ Chan!Ready \/ Chan!serveHello
    PROVE  Chan!InStep'
<1>1. CASE Chan!EnsureResident
  <2>1. hst'.pc = "open" /\ toAgent' = <<>> /\ toHost' = <<>> /\ guestd'.pc = "read"
    BY <1>1, Sleeps DEF Chan!EnsureResident, Stepping, Chan!InStep, Chan!TypeOK
  <2>2. QED BY <2>1 DEF Chan!InStep
<1>2. CASE Chan!NewSerial
  <2>1. hst'.pc = "hello" /\ toHost' = <<>> /\ guestd'.pc # "body"
    BY <1>2 DEF Chan!NewSerial, Stepping, Chan!InStep, Chan!TypeOK
  <2>2. toAgent' = <<Chan!Frame("hello", 0, 0)>>
    BY <1>2 DEF Chan!NewSerial, Stepping, Chan!InStep, Chan!Frame
  <2>3. QED BY <2>1, <2>2 DEF Chan!InStep, Chan!Greeting
<1>3. CASE Chan!Ready
  <2>1. toAgent = <<>> /\ toHost = <<Chan!Frame("ok", 0, 0)>> /\ guestd.pc # "body"
    BY <1>3 DEF Chan!Ready, Stepping, Chan!InStep, Chan!Greeting
  <2>2. Head(toHost).kind = "ok" /\ Tail(toHost) = <<>>
    BY <2>1 DEF Chan!Frame
  <2>3. hst'.pc = "idle" /\ toHost' = <<>> /\ toAgent' = <<>> /\ guestd'.pc # "body"
    BY <1>3, <2>1, <2>2 DEF Chan!Ready, Stepping, Chan!TypeOK
  <2>4. QED BY <2>3 DEF Chan!InStep, Chan!Unasked
<1>4. CASE Chan!serveHello
  <2>1. /\ guestd.pc = "read" /\ toAgent # <<>> /\ Head(toAgent).kind = "hello" /\ toAgent' = Tail(toAgent)
        /\ toHost' = toHost \o <<Chan!Frame("ok", 0, 0)>> /\ UNCHANGED <<guestd, hst>>
    BY <1>4 DEF Chan!serveHello, Chan!NextIs, Chan!Reply
  <2>2. toAgent[1].kind = "hello" /\ 1 \in DOMAIN toAgent /\ \A i \in DOMAIN toAgent : i \in Nat /\ i >= 1
    BY <2>1, Heads, Pipes DEF Stepping
  <2>3. ~Chan!Unasked
    BY <2>2 DEF Chan!Unasked
  <2>4. ~Chan!Asked
    <3>1. \A i \in DOMAIN toAgent : i # 1 => 1 \in 1..i - 1
      BY <2>2
    <3>2. QED BY <2>2, <3>1 DEF Chan!Asked
  <2>5. hst.pc = "hello" /\ Chan!Greeting
    BY <2>1, <2>3, <2>4 DEF Stepping, Chan!InStep, Chan!Delivered, Chan!Answered, Chan!Receiving, Chan!TypeOK
  <2>6. toAgent = <<Chan!Frame("hello", 0, 0)>> /\ toHost = <<>>
    BY <2>1, <2>5 DEF Chan!Greeting
  <2>7. toAgent' = <<>> /\ toHost' = <<Chan!Frame("ok", 0, 0)>>
    BY <2>1, <2>6 DEF Chan!Frame
  <2>8. QED BY <2>1, <2>5, <2>7 DEF Chan!InStep, Chan!Greeting
<1>5. QED BY <1>1, <1>2, <1>3, <1>4

LEMMA ServeSteps ==
    ASSUME Stepping, Chan!ServeStat \/ Chan!ServeGet \/ Chan!ServeSet
    PROVE  Chan!InStep'
<1> DEFINE f == Head(toAgent)
<1>1. /\ guestd.pc = "read" /\ toAgent # <<>> /\ f.kind \in {"stat", "get", "set"} /\ toAgent' = Tail(toAgent)
      /\ hst' = hst
  BY DEF Chan!ServeStat, Chan!ServeGet, Chan!ServeSet, Chan!NextIs, Chan!Reply, Chan!Refuse
<1>2. CASE guestd' = guestd /\ \E c \in {"ok", "err"} : toHost' = toHost \o <<Chan!Frame(c, f.n, 0)>>
  BY <1>1, <1>2, Replies
<1>3. /\ hst.pc = "wait" /\ hst.n > 0 /\ toHost = <<>> /\ f.n = hst.n /\ 1 + f.w = Len(toAgent)
      /\ \A j \in DOMAIN toAgent' : toAgent'[j].kind = "data"
  BY <1>1, AtRequest
<1>4. CASE guestd' = guestd
      /\ \E w \in 0..MaxData : toHost' = toHost \o (<<Chan!Frame("meta", f.n, w)>> \o Chan!Body(f.n, w))
  <2>1. PICK w \in 0..MaxData : toHost' = toHost \o (<<Chan!Frame("meta", f.n, w)>> \o Chan!Body(f.n, w))
    BY <1>4
  <2> DEFINE m == Chan!Frame("meta", hst.n, w)
             b == Chan!Body(hst.n, w)
  <2>0. Bounds /\ hst.n \in 0..MaxExchanges /\ w \in Nat
    BY DEF Stepping, Chan!TypeOK, Bounds
  <2>2. m \in Chan!ToHostFrames /\ w \in Nat
    BY <2>0, Frames
  <2>3. b \in Seq(Chan!ToHostFrames) /\ Len(b) = w /\ \A i \in 1..w : b[i] = Chan!Frame("data", hst.n, i)
    BY <2>0, Bodies
  <2>4. toHost' = <<>> \o (<<m>> \o b)
    BY <1>3, <2>1
  <2>5. m.kind = "meta" /\ m.n = hst.n /\ m.w = w
    BY Frames DEF Stepping
  <2> HIDE DEF m, b
  <2>6. toHost' = <<m>> \o b
    BY <2>2, <2>3, <2>4
  <2>7. /\ Len(toHost') = 1 + w /\ DOMAIN toHost' = 1..1 + w /\ toHost'[1] = m
        /\ \A i \in 1..w : toHost'[1 + i] = Chan!Frame("data", hst.n, i)
    <3>1. <<m>> \in Seq(Chan!ToHostFrames) /\ Len(<<m>>) = 1 /\ <<m>>[1] = m
      BY <2>2
    <3>2. /\ Len(<<m>> \o b) = 1 + Len(b) /\ (<<m>> \o b)[1] = m
          /\ \A i \in 1..Len(b) : (<<m>> \o b)[1 + i] = b[i]
          /\ <<m>> \o b \in Seq(Chan!ToHostFrames)
      BY <2>3, <3>1, Joined
    <3>3. QED BY <2>3, <2>6, <3>2, Elements
  <2>8. ASSUME NEW i \in DOMAIN toHost' PROVE toHost'[i].n = hst.n /\ (i = 1 <=> toHost'[i].kind # "data")
    <3>1. CASE i = 1
      BY <2>5, <2>7, <3>1
    <3>2. CASE i # 1
      <4>1. i - 1 \in 1..w /\ 1 + (i - 1) = i
        BY <2>2, <2>7, <3>2
      <4>2. toHost'[i] = Chan!Frame("data", hst.n, i - 1)
        BY <2>7, <4>1
      <4>3. QED BY <3>2, <4>2, Frames DEF Stepping
    <3>3. QED BY <3>1, <3>2
  <2>9. Chan!Unasked'
    BY <1>1, <1>3, <1>4 DEF Chan!Unasked
  <2>10. Chan!Answered'
    BY <1>1, <2>5, <2>7, <2>8, <2>9 DEF Chan!Answered
  <2>11. QED BY <1>1, <1>3, <2>10 DEF Chan!InStep
<1>5. CASE toHost' = toHost /\ guestd' = [pc |-> "body", n |-> f.n, left |-> f.w, of |-> f.w, got |-> <<>>]
  <2>1. guestd'.pc = "body" /\ guestd'.n = hst.n /\ guestd'.left = f.w
    BY <1>3, <1>5
  <2>2. f.w = Len(toAgent) - 1 /\ Len(toAgent') = Len(toAgent) - 1
    <3>1. f.w \in Nat /\ Len(toAgent) \in Nat
      BY <1>1, Taken, Frames, Pipes DEF Stepping, Bounds
    <3>2. QED BY <1>1, <1>3, <3>1, Heads DEF Stepping
  <2>3. Chan!Receiving'
    BY <1>1, <1>3, <1>5, <2>1, <2>2 DEF Chan!Receiving
  <2>4. QED BY <1>1, <1>3, <2>3 DEF Chan!InStep
<1>6. \/ guestd' = guestd /\ \E c \in {"ok", "err"} : toHost' = toHost \o <<Chan!Frame(c, f.n, 0)>>
      \/ guestd' = guestd /\ \E w \in 0..MaxData : toHost' = toHost \o (<<Chan!Frame("meta", f.n, w)>> \o Chan!Body(f.n, w))
      \/ toHost' = toHost /\ guestd' = [pc |-> "body", n |-> f.n, left |-> f.w, of |-> f.w, got |-> <<>>]
  BY DEF Chan!ServeStat, Chan!ServeGet, Chan!ServeSet, Chan!Reply, Chan!Refuse
<1>7. QED BY <1>2, <1>4, <1>5, <1>6

(* Who reads a payload reads it for the host that waits. *)
LEMMA Reading ==
    ASSUME Stepping, guestd.pc = "body"
    PROVE  hst.pc = "wait" /\ hst.n > 0 /\ Chan!Receiving
<1>1. ~Chan!Unasked /\ ~Chan!Asked
  BY DEF Chan!Unasked, Chan!Asked
<1>2. QED BY <1>1 DEF Stepping, Chan!InStep, Chan!Greeting, Chan!Delivered, Chan!Answered, Chan!TypeOK

LEMMA PayloadSteps ==
    ASSUME Stepping, Chan!AgentReadBody \/ Chan!BackendWrite
    PROVE  Chan!InStep'
<1>1. guestd.pc = "body" /\ hst' = hst
  BY DEF Chan!AgentReadBody, Chan!BackendWrite
<1>2. hst.pc = "wait" /\ hst.n > 0 /\ guestd.n = hst.n /\ guestd.left = Len(toAgent) /\ toHost = <<>>
  BY <1>1, Reading DEF Chan!Receiving
<1>3. CASE Chan!AgentReadBody
  <2>1. toAgent # <<>> /\ toAgent' = Tail(toAgent) /\ toHost' = toHost /\ guestd.left > 0
    BY <1>3 DEF Chan!AgentReadBody
  <2>2. guestd.left \in Nat /\ guestd.of - guestd.left \in Nat /\ 1 \in 1..guestd.left
    BY SMTT(30), <1>1, <2>1 DEF Stepping, Streams, Chan!ReadsOn, Chan!TypeOK, Bounds
  <2>3. toAgent[1] = Chan!Frame("data", guestd.n, guestd.of - guestd.left + 1)
    BY <1>1, <2>2 DEF Stepping, Streams, Chan!ReadsOn
  <2>4. Head(toAgent).kind = "data"
    BY <2>1, <2>3, Heads, Frames DEF Stepping
  <2>5. guestd' = [guestd EXCEPT !.left = guestd.left - 1, !.got = Append(guestd.got, Head(toAgent))]
    BY <1>3, <2>4 DEF Chan!AgentReadBody
  <2>6. guestd'.pc = "body" /\ guestd'.n = hst.n /\ guestd'.left = guestd.left - 1
    BY <1>1, <1>2, <2>5 DEF Stepping, Chan!TypeOK
  <2>7. Len(toAgent') = Len(toAgent) - 1
    BY <2>1, Heads DEF Stepping
  <2>8. Chan!Receiving'
    BY <1>1, <1>2, <2>1, <2>6, <2>7 DEF Chan!Receiving
  <2>9. QED BY <1>1, <1>2, <2>8 DEF Chan!InStep
<1>4. CASE Chan!BackendWrite
  <2>1. guestd.left = 0 /\ toAgent' = toAgent /\ guestd' = [Chan!Asleep EXCEPT !.pc = "read"]
        /\ \E c \in {"ok", "err"} : toHost' = Append(toHost, Chan!Frame(c, guestd.n, 0))
    BY <1>4 DEF Chan!BackendWrite
  <2>2. toAgent' = <<>> /\ guestd'.pc # "body"
    BY <1>2, <2>1, Sleeps, Pipes DEF Stepping
  <2>3. Chan!Unasked'
    BY <2>2 DEF Chan!Unasked
  <2>4. PICK c \in {"ok", "err"} : toHost' = Append(toHost, Chan!Frame(c, guestd.n, 0))
    BY <2>1
  <2>5. toHost' = toHost \o <<Chan!Frame(c, hst.n, 0)>>
    <3>1. Bounds /\ hst.n \in 0..MaxExchanges /\ 0 \in 0..MaxData
      BY DEF Stepping, Chan!TypeOK, Bounds
    <3>2. Chan!Frame(c, hst.n, 0) \in Chan!ToHostFrames
      BY <3>1, Frames
    <3>3. QED BY <1>2, <2>4, <3>2
  <2>6. QED BY <1>1, <1>2, <2>3, <2>5, Answers
<1>5. QED BY <1>3, <1>4

LEMMA StraySteps ==
    ASSUME Stepping, Chan!ServeStray, "text" \notin chanmix
    PROVE  Chan!InStep'
<1>1. /\ guestd.pc = "read" /\ toAgent # <<>> /\ Head(toAgent).kind = "data" /\ toAgent' = Tail(toAgent)
      /\ guestd' = Chan!Asleep /\ toHost' = toHost /\ hst' = hst /\ guestd'.pc = "dead"
  BY Sleeps DEF Chan!ServeStray, Chan!NextIs, Stepping
<1>2. /\ toAgent[1].kind = "data" /\ 1 \in DOMAIN toAgent /\ DOMAIN toAgent' = 1..Len(toAgent) - 1
      /\ DOMAIN toAgent = 1..Len(toAgent) /\ Len(toAgent) \in Nat /\ Len(toAgent') = Len(toAgent) - 1
      /\ \A i \in 1..Len(toAgent) - 1 : toAgent'[i] = toAgent[i + 1] /\ i + 1 \in DOMAIN toAgent
  BY <1>1, Heads, Pipes DEF Stepping
<1>3. Chan!Unasked => Chan!Unasked'
  BY <1>1, <1>2 DEF Chan!Unasked
<1>4. Chan!Asked => Chan!Asked'
  <2> SUFFICES ASSUME Chan!Asked PROVE Chan!Asked'
    OBVIOUS
  <2>1. PICK i \in DOMAIN toAgent :
           /\ toAgent[i].kind \in {"stat", "get", "set"} /\ toAgent[i].n = hst.n
           /\ i + toAgent[i].w = Len(toAgent)
           /\ \A j \in 1..i - 1 : toAgent[j].kind = "data"
    BY DEF Chan!Asked
  <2>2. i \in Nat /\ i > 1 /\ i <= Len(toAgent)
    BY <1>2, <2>1
  <2>3. i - 1 \in DOMAIN toAgent' /\ i - 1 \in 1..Len(toAgent) - 1 /\ (i - 1) + 1 = i
    BY <1>2, <2>2
  <2>4. toAgent'[i - 1] = toAgent[i]
    BY <1>2, <2>3
  <2>5. toAgent[i].w \in Nat
    BY <2>1, Elements, Frames, Pipes DEF Stepping, Bounds
  <2>6. (i - 1) + toAgent'[i - 1].w = Len(toAgent')
    <3> DEFINE w == toAgent[i].w
    <3>1. w \in Nat /\ i + w = Len(toAgent)
      BY <2>1, <2>5
    <3>5. toAgent'[i - 1].w = w
      BY <2>4
    <3> HIDE DEF w
    <3>2. Len(toAgent') = Len(toAgent) - 1 /\ Len(toAgent) \in Nat /\ i \in Nat
      BY <1>2, <2>2
    <3>3. (i - 1) + w = Len(toAgent')
      BY <3>1, <3>2
    <3>4. QED BY <3>3, <3>5
  <2>7. ASSUME NEW j \in 1..(i - 1) - 1 PROVE toAgent'[j].kind = "data"
    <3>1. j \in 1..Len(toAgent) - 1 /\ j + 1 \in 1..i - 1
      BY <1>2, <2>2
    <3>2. QED BY <1>2, <2>1, <3>1
  <2>8. toHost' = <<>> /\ guestd'.pc # "body"
    BY <1>1 DEF Chan!Asked
  <2> DEFINE h == i - 1
  <2>9. h \in DOMAIN toAgent' /\ toAgent'[h].kind \in {"stat", "get", "set"} /\ toAgent'[h].n = hst'.n
        /\ h + toAgent'[h].w = Len(toAgent') /\ \A j \in 1..h - 1 : toAgent'[j].kind = "data"
    BY <1>1, <2>1, <2>3, <2>4, <2>6, <2>7
  <2> HIDE DEF h
  <2>10. QED BY <2>8, <2>9 DEF Chan!Asked
<1>5. Chan!Answered => Chan!Answered'
  BY <1>1, <1>3 DEF Chan!Answered
<1>6. Chan!Delivered => Chan!Delivered'
  BY <1>1, <1>3 DEF Chan!Delivered
<1>7. hst.pc \notin {"install", "open", "hello"} /\ ~Chan!Receiving
  BY <1>1, <1>2, Frames DEF Stepping, Chan!InStep, Chan!Greeting, Chan!Receiving, Chan!Frame
<1>8. QED BY <1>1, <1>3, <1>4, <1>5, <1>6, <1>7 DEF Stepping, Chan!InStep

LEMMA ExitSteps == ASSUME Stepping, Chan!AgentExits PROVE Chan!InStep'
<1>1. PICK k \in 0..Len(toAgent) : toAgent' = SubSeq(toAgent, k + 1, Len(toAgent))
  BY DEF Chan!AgentExits
<1>2. PICK l \in 0..Len(toHost) : toHost' = SubSeq(toHost, 1, l)
  BY DEF Chan!AgentExits
<1>3. guestd'.pc = "dead" /\ hst' = hst
  BY Sleeps DEF Chan!AgentExits, Stepping
<1>4. /\ Len(toAgent') = Len(toAgent) - k /\ DOMAIN toAgent' = 1..Len(toAgent) - k
      /\ DOMAIN toAgent = 1..Len(toAgent)
      /\ k \in Nat /\ k <= Len(toAgent) /\ Len(toAgent) \in Nat
      /\ \A i \in 1..Len(toAgent) - k : toAgent'[i] = toAgent[i + k] /\ i + k \in DOMAIN toAgent
  <2>1. /\ Len(toAgent') = Len(toAgent) - k /\ toAgent' \in Seq(Chan!ToAgentFrames)
        /\ \A i \in 1..Len(toAgent) - k : toAgent'[i] = toAgent[i + k]
    BY <1>1, Dropped, Pipes DEF Stepping
  <2>2. DOMAIN toAgent' = 1..Len(toAgent) - k
    BY <2>1, Elements
  <2>3. k \in Nat /\ k <= Len(toAgent) /\ Len(toAgent) \in Nat /\ DOMAIN toAgent = 1..Len(toAgent)
    BY <1>1, Pipes DEF Stepping
  <2>4. \A i \in 1..Len(toAgent) - k : i + k \in 1..Len(toAgent)
    BY <2>3
  <2>5. QED BY <2>1, <2>2, <2>3, <2>4
<1>5. /\ Len(toHost') = l /\ DOMAIN toHost' = 1..l /\ l <= Len(toHost) /\ l \in Nat /\ Len(toHost) \in Nat
      /\ \A i \in 1..l : toHost'[i] = toHost[i] /\ i \in DOMAIN toHost
  <2>1. Len(toHost') = l /\ toHost' \in Seq(Chan!ToHostFrames) /\ \A i \in 1..l : toHost'[i] = toHost[i]
    BY <1>2, Kept, Pipes DEF Stepping
  <2>2. l <= Len(toHost) /\ l \in Nat /\ Len(toHost) \in Nat /\ DOMAIN toHost = 1..Len(toHost)
    BY <1>2, Pipes DEF Stepping
  <2>3. QED BY <2>1, <2>2, Elements
<1>6. (\A i \in DOMAIN toAgent : toAgent[i].kind = "data") => Chan!Unasked'
  BY <1>3, <1>4 DEF Chan!Unasked
<1>7. toHost = <<>> => toHost' = <<>>
  BY <1>5, Pipes, Nothing DEF Stepping, Chan!TypeOK
<1>8. toHost' # <<>> => l > 0 /\ toHost # <<>> /\ toHost'[1] = toHost[1]
  BY <1>5, <1>7, Nothing DEF Stepping, Chan!TypeOK
<1>9. Chan!Unasked => Chan!Unasked'
  BY <1>6 DEF Chan!Unasked
<1>10. Chan!Answered => Chan!Answered'
  <2> SUFFICES ASSUME Chan!Answered PROVE Chan!Answered'
    OBVIOUS
  <2>1. \A i \in DOMAIN toHost' : toHost'[i].n = hst'.n /\ (i = 1 <=> toHost'[i].kind # "data")
    BY <1>3, <1>5 DEF Chan!Answered
  <2>2. ASSUME toHost' # <<>>
        PROVE  Len(toHost') <= 1 + toHost'[1].w /\ (toHost'[1].kind # "meta" => toHost'[1].w = 0)
    <3> DEFINE w == toHost[1].w
    <3>1. toHost # <<>> /\ toHost'[1] = toHost[1]
      BY <1>8, <2>2
    <3>2. w \in Nat
      BY <3>1, Taken, Frames, Pipes DEF Stepping, Bounds
    <3>3. Len(toHost) <= 1 + w /\ (toHost[1].kind # "meta" => w = 0)
      BY <3>1 DEF Chan!Answered
    <3> HIDE DEF w
    <3>4. Len(toHost') <= 1 + w
      BY <1>5, <3>2, <3>3
    <3>5. QED BY <3>1, <3>3, <3>4 DEF w
  <2>3. QED BY <1>9, <2>1, <2>2 DEF Chan!Answered
<1>11. Chan!Delivered => Chan!Delivered'
  <2>1. hst.left \in Nat
    BY DEF Stepping, Chan!TypeOK, Bounds
  <2>2. QED BY <1>3, <1>5, <1>9, <2>1 DEF Chan!Delivered
<1>12. Chan!Unasked' /\ toHost' = <<>> => Chan!Answered'
  BY DEF Chan!Answered
<1>13. Chan!Receiving => Chan!Answered'
  <2> SUFFICES ASSUME Chan!Receiving PROVE Chan!Answered'
    OBVIOUS
  <2>1. ASSUME NEW i \in DOMAIN toAgent PROVE toAgent[i].kind = "data"
    <3>1. i \in 1..guestd.left
      BY <1>4 DEF Chan!Receiving
    <3>2. QED BY <3>1, Frames DEF Chan!Receiving, Stepping, Streams, Chan!ReadsOn
  <2>2. QED BY <1>6, <1>7, <1>12, <2>1 DEF Chan!Receiving
<1>14. Chan!Asked => Chan!Asked' \/ Chan!Answered'
  <2> SUFFICES ASSUME Chan!Asked PROVE Chan!Asked' \/ Chan!Answered'
    OBVIOUS
  <2>1. PICK i \in DOMAIN toAgent :
           /\ toAgent[i].kind \in {"stat", "get", "set"} /\ toAgent[i].n = hst.n
           /\ i + toAgent[i].w = Len(toAgent)
           /\ \A j \in 1..i - 1 : toAgent[j].kind = "data"
    BY DEF Chan!Asked
  <2>2. i \in Nat /\ i <= Len(toAgent) /\ i >= 1
    BY <1>4
  <2>3. toHost' = <<>>
    BY <1>7 DEF Chan!Asked
  <2>4. CASE i <= k
    <3>1. ASSUME NEW j \in DOMAIN toAgent' PROVE toAgent'[j].kind = "data"
      <4>1. j + k \in i + 1..Len(toAgent) /\ toAgent'[j] = toAgent[j + k]
        BY <1>4, <2>2, <2>4
      <4>2. toAgent \in Seq(Chan!ToAgentFrames) /\ Chan!Followed(toAgent) /\ Bounds
        BY Pipes DEF Stepping, Streams
      <4>3. toAgent[i].kind # "data" /\ i + toAgent[i].w = Len(toAgent)
        BY <2>1
      <4>4. toAgent[j + k].kind = "data"
        BY <4>1, <4>2, <4>3, Rest
      <4>5. QED BY <4>1, <4>4
    <3>2. QED BY <1>3, <1>12, <2>3, <3>1 DEF Chan!Unasked
  <2>5. CASE i > k
    <3> DEFINE h == i - k
    <3>1. h \in 1..Len(toAgent) - k /\ h + k = i
      BY <1>4, <2>2, <2>5
    <3>2. toAgent'[h] = toAgent[i]
      BY <1>4, <3>1
    <3>3. toAgent[i].w \in Nat
      BY <2>1, Elements, Frames, Pipes DEF Stepping, Bounds
    <3>4. h + toAgent'[h].w = Len(toAgent')
      BY <1>4, <2>1, <2>2, <3>2, <3>3
    <3>5. ASSUME NEW j \in 1..h - 1 PROVE toAgent'[j].kind = "data"
      <4>1. j \in 1..Len(toAgent) - k /\ j + k \in 1..i - 1
        BY <1>4, <2>2, <2>5
      <4>2. QED BY <1>4, <2>1, <4>1
    <3> HIDE DEF h
    <3>6. h \in DOMAIN toAgent' /\ toAgent'[h].kind \in {"stat", "get", "set"} /\ toAgent'[h].n = hst'.n
      BY <1>3, <1>4, <2>1, <3>1, <3>2
    <3>7. QED BY <1>3, <2>3, <3>4, <3>5, <3>6 DEF Chan!Asked
  <2>6. QED BY <1>4, <2>2, <2>4, <2>5
<1>15. hst.pc \in {"install", "open"} => toAgent' = <<>> /\ toHost' = <<>>
  BY <1>4, <1>7, Pipes, Nothing DEF Stepping, Chan!InStep, Chan!TypeOK
<1>16. Chan!Greeting => Chan!Greeting'
  <2>1. toAgent = <<Chan!Frame("hello", 0, 0)>> /\ toHost = <<>> => toHost' = <<>>
        /\ (toAgent' = toAgent \/ toAgent' = <<>>)
    <3> SUFFICES ASSUME toAgent = <<Chan!Frame("hello", 0, 0)>>, toHost = <<>>
                 PROVE  toHost' = <<>> /\ (toAgent' = toAgent \/ toAgent' = <<>>)
      OBVIOUS
    <3>1. Len(toAgent) = 1
      OBVIOUS
    <3>2. CASE k = 0
      BY <1>1, <1>7, <3>2, Untouched, Pipes DEF Stepping
    <3>3. CASE k # 0
      BY <1>4, <1>7, <3>1, <3>3, Nothing DEF Stepping, Chan!TypeOK
    <3>4. QED BY <3>2, <3>3
  <2>2. toAgent = <<>> => toAgent' = <<>>
    BY <1>4, Pipes, Nothing DEF Stepping, Chan!TypeOK
  <2>3. toHost = <<Chan!Frame("ok", 0, 0)>> => toHost' \in {<<>>, toHost}
    <3> SUFFICES ASSUME toHost = <<Chan!Frame("ok", 0, 0)>> PROVE toHost' \in {<<>>, toHost}
      OBVIOUS
    <3>1. Len(toHost) = 1
      OBVIOUS
    <3>2. CASE l = 1
      BY <1>2, <3>1, <3>2, Untouched, Pipes DEF Stepping
    <3>3. CASE l # 1
      BY <1>5, <3>1, <3>3, Nothing DEF Stepping, Chan!TypeOK
    <3>4. QED BY <3>2, <3>3
  <2>4. QED BY <1>3, <1>7, <2>1, <2>2, <2>3 DEF Chan!Greeting
<1>17. QED BY <1>3, <1>7, <1>9, <1>10, <1>11, <1>13, <1>14, <1>15, <1>16 DEF Stepping, Chan!InStep

LEMMA RestSteps == ASSUME Stepping, Chan!ServiceRestarts \/ Chan!newBackend PROVE Chan!InStep'
<1>1. UNCHANGED <<toAgent, toHost, hst>> /\ (guestd' = guestd \/ (guestd'.pc = "read" /\ guestd.pc = "dead"))
  BY Sleeps DEF Chan!ServiceRestarts, Chan!newBackend, Stepping
<1>2. CASE guestd' = guestd
  BY <1>1, <1>2 DEF Stepping, Chan!InStep, Chan!Greeting, Chan!Unasked, Chan!Asked, Chan!Receiving, Chan!Answered, Chan!Delivered
<1>3. CASE guestd'.pc = "read" /\ guestd.pc = "dead"
  BY <1>1, <1>3 DEF Stepping, Chan!InStep, Chan!Greeting, Chan!Unasked, Chan!Asked, Chan!Receiving, Chan!Answered, Chan!Delivered
<1>4. QED BY <1>1, <1>2, <1>3

LEMMA StepsKept ==
    ASSUME Stepping, "text" \notin chanmix, Chan!AnswersMatch, Chan!Next
    PROVE  Chan!InStep' /\ Chan!AnswersMatch'
<1>1. CASE Chan!readMeta \/ Chan!ReadBody
  <2>1. Chan!InStep' /\ hst.n > 0 /\ Head(toHost).n = hst.n
    BY <1>1, readMetaSteps, ReadBodySteps
  <2>2. took' = [took EXCEPT ![hst.n] = @ \cup {Head(toHost).n}]
    BY <1>1 DEF Chan!readMeta, Chan!ReadBody
  <2>3. \A n \in 1..MaxExchanges : took'[n] \subseteq {n}
    BY SMTT(30), <2>1, <2>2 DEF Chan!AnswersMatch, Stepping, Chan!TypeOK
  <2>4. QED BY <2>1, <2>3 DEF Chan!AnswersMatch
<1>2. CASE ~(Chan!readMeta \/ Chan!ReadBody)
  <2>1. took' = took
    BY <1>2 DEF Chan!Next, Chan!HostReads, Chan!AgentServes, Chan!EnsureResident, Chan!NewSerial, Chan!WriteRequest, Chan!Ready, Chan!serveHello, Chan!ServeStat,
                Chan!ServeGet, Chan!ServeSet, Chan!AgentReadBody, Chan!BackendWrite, Chan!ServeStray, Chan!AgentExits, Chan!ServiceRestarts, Chan!newBackend
  <2>2. Chan!InStep'
    BY <1>2, GreetingSteps, WriteRequestSteps, ServeSteps, PayloadSteps, StraySteps, ExitSteps, RestSteps
    DEF Chan!Next, Chan!HostReads, Chan!AgentServes
  <2>3. QED BY <2>1, <2>2 DEF Chan!AnswersMatch
<1>3. QED BY <1>1, <1>2

-----------------------------------------------------------------------------
(* The invariant *)

LEMMA ChanInit == Bounds /\ Chan!Init => Chan!ChanIInv
<1> SUFFICES ASSUME Bounds, Chan!Init PROVE Chan!ChanIInv
  OBVIOUS
<1>1. Chan!TypeOK
  BY Sleeps, Nothing DEF Bounds, Chan!Init, Chan!TypeOK, Chan!Agents, Chan!Engines
<1>2. toAgent = <<>> /\ toHost = <<>> /\ guestd.pc = "dead" /\ hst.pc = "install" /\ board.got = <<>>
      /\ board.of = 0
  BY Sleeps DEF Chan!Init
<1>3. Chan!Followed(toAgent) /\ Chan!ReadsOn /\ Chan!WholePayloads /\ Chan!InStep
  BY <1>2 DEF Chan!Followed, Chan!ReadsOn, Chan!WholePayloads, Chan!InStep
<1>4. Chan!AnswersMatch
  BY DEF Chan!Init, Chan!AnswersMatch
<1>5. QED BY <1>1, <1>3, <1>4 DEF Chan!ChanIInv

LEMMA ChanNext == Bounds /\ Chan!ChanIInv /\ [Chan!Next]_(Chan!avars) => Chan!ChanIInv'
<1> SUFFICES ASSUME Bounds, Chan!ChanIInv, [Chan!Next]_(Chan!avars) PROVE Chan!ChanIInv'
  OBVIOUS
<1>1. CASE Chan!Next
  <2>1. Chan!TypeOK' /\ Streams'
    BY <1>1, Types, StreamsKept DEF Chan!ChanIInv, Streams
  <2>2. chanmix' = chanmix
    BY <1>1 DEF Chan!Next, Chan!HostReads, Chan!AgentServes, Chan!EnsureResident, Chan!NewSerial, Chan!WriteRequest, Chan!Ready, Chan!readMeta, Chan!ReadBody, Chan!serveHello,
                Chan!ServeStat, Chan!ServeGet, Chan!ServeSet, Chan!AgentReadBody, Chan!BackendWrite, Chan!ServeStray, Chan!AgentExits, Chan!ServiceRestarts,
                Chan!newBackend
  <2>3. "text" \notin chanmix => Chan!InStep' /\ Chan!AnswersMatch'
    BY <1>1, <2>1, StepsKept DEF Chan!ChanIInv, Streams, Stepping
  <2>4. QED BY <2>1, <2>2, <2>3 DEF Chan!ChanIInv, Streams
<1>2. CASE UNCHANGED Chan!avars
  BY <1>2 DEF Chan!avars, Chan!ChanIInv, Chan!TypeOK, Chan!Followed, Chan!ReadsOn, Chan!WholePayloads, Chan!InStep, Chan!AnswersMatch, Chan!Unasked, Chan!Asked, Chan!Receiving,
              Chan!Answered, Chan!Delivered, Chan!Greeting
<1>3. QED BY <1>1, <1>2

LEMMA ChanInvAlways == GuestSideSpec => []Chan!ChanIInv
<1>0. Bounds
  BY ChannelAssumption DEF Bounds
<1>1. GuestSideInit => Chan!ChanIInv
  BY <1>0, ChanInit DEF GuestSideInit
<1>2. Chan!ChanIInv /\ [GuestSideNext]_guestsidevars => Chan!ChanIInv'
  <2> SUFFICES ASSUME Chan!ChanIInv, [GuestSideNext]_guestsidevars PROVE Chan!ChanIInv'
    OBVIOUS
  <2>1. CASE Chan!Next
    BY <1>0, <2>1, ChanNext
  <2>2. CASE UNCHANGED channelvars
    <3>1. UNCHANGED Chan!avars
      BY <2>2 DEF channelvars, Chan!avars
    <3> QED
      BY <1>0, <3>1, ChanNext
  <2> QED
    BY <2>1, <2>2 DEF GuestSideNext, guestsidevars
<1> QED
  BY <1>1, <1>2, PTL DEF GuestSideSpec

(* Through refusals, empty payloads, an agent that exits and comes back and *)
(* users who log in late, the answers the host takes are to what it asked,  *)
(* unless a data frame may read as a request; and the guest's clipboard     *)
(* only gets whole payloads, in every history, for any number of exchanges  *)
(* and any length of payloads (readMeta, ReadBody); and the engine is what  *)
(* its type says (engine.go).                                               *)
THEOREM ChannelKept == GuestSideSpec => []ChanSafe
<1>1. ClipInv /\ Chan!ChanIInv => ChanSafe
  <2> SUFFICES ASSUME ClipInv, Chan!ChanIInv PROVE ChanSafe
    OBVIOUS
  <2>1. Clip!TypeOK
    BY ClipTyped
  <2>2. Chan!ChanSafe
    BY DEF Chan!ChanIInv, Chan!ChanSafe, Chan!AnswersMatch
  <2> QED
    BY <2>1, <2>2 DEF ChanSafe
<1> QED
  BY <1>1, ClipInvAlways, ChanInvAlways, PTL
=============================================================================
