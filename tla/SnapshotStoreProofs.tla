------------------------ MODULE SnapshotStoreProofs ------------------------
(* The snapshots of a VM, for any number of commands, snapshots and moments: *)
(* where whoever deletes is alone, the index leads to whole payloads of one  *)
(* moment and loses none.                                                    *)
EXTENDS SnapshotStore, TLAPS

LEMMA Consts == MaxSnapshots \in Nat /\ SnapMoments \in Nat \ {0} /\ NoId \notin SnapIds
  BY SnapAssumption

(* What an index of entries is made of. *)
LEMMA IndexFacts ==
    ASSUME NEW idx \in Seq(Entries)
    PROVE  /\ Len(idx) \in Nat /\ DOMAIN idx = 1..Len(idx)
           /\ \A k \in DOMAIN idx : /\ idx[k] \in Entries /\ idx[k].id \in SnapIds
                                    /\ idx[k].name \in SnapNames /\ idx[k].has \in {"disk", "memory"}
<1>1. Len(idx) \in Nat /\ DOMAIN idx = 1..Len(idx) /\ \A k \in DOMAIN idx : idx[k] \in Entries
  OBVIOUS
<1>2. \A e \in Entries : e.id \in SnapIds /\ e.name \in SnapNames /\ e.has \in {"disk", "memory"}
  BY DEF Entries
<1>3. QED BY <1>1, <1>2

(* An entry is added, of a new name and a new payload. *)
LEMMA AppendFacts ==
    ASSUME NEW idx \in Seq(Entries), NEW e \in Entries,
           Distinct(idx), e.id \notin IdsOf(idx), Acceptable(idx, e.name)
    PROVE  /\ Append(idx, e) \in Seq(Entries)
           /\ Distinct(Append(idx, e))
           /\ IdsOf(Append(idx, e)) = IdsOf(idx) \cup {e.id}
           /\ \A k \in DOMAIN Append(idx, e) : Append(idx, e)[k] = e \/ \E j \in DOMAIN idx : Append(idx, e)[k] = idx[j]
<1> DEFINE new == Append(idx, e)
<1>1. new \in Seq(Entries) /\ Len(new) = Len(idx) + 1 /\ DOMAIN new = 1..(Len(idx) + 1)
  OBVIOUS
<1>2. Len(idx) \in Nat /\ DOMAIN idx = 1..Len(idx)
  OBVIOUS
<1>3. \A k \in DOMAIN idx : new[k] = idx[k]
  BY <1>2
<1>4. new[Len(idx) + 1] = e
  BY <1>2
<1>5. Distinct(new)
  BY <1>1, <1>2, <1>3, <1>4, Consts DEF Distinct, IdsOf, Acceptable
<1>6. IdsOf(new) = IdsOf(idx) \cup {e.id}
  BY <1>1, <1>2, <1>3, <1>4 DEF IdsOf
<1>7. QED BY <1>1, <1>2, <1>3, <1>4, <1>5, <1>6

(* The entry at k is removed. *)
LEMMA WithoutFacts ==
    ASSUME NEW idx \in Seq(Entries), NEW k \in DOMAIN idx, Distinct(idx)
    PROVE  /\ Without(idx, k) \in Seq(Entries)
           /\ Distinct(Without(idx, k))
           /\ IdsOf(Without(idx, k)) = IdsOf(idx) \ {idx[k].id}
           /\ \A i \in DOMAIN Without(idx, k) :
                 \E j \in DOMAIN idx : Without(idx, k)[i] = idx[j] /\ idx[j].id # idx[k].id
<1> DEFINE new == Without(idx, k)
<1>1. Len(idx) \in Nat /\ DOMAIN idx = 1..Len(idx) /\ k \in 1..Len(idx)
  OBVIOUS
<1>2. new \in Seq(Entries) /\ Len(new) = Len(idx) - 1 /\ DOMAIN new = 1..(Len(idx) - 1)
  BY <1>1 DEF Without
<1>3. \A i \in DOMAIN new : new[i] = IF i < k THEN idx[i] ELSE idx[i + 1]
  <2> DEFINE a == SubSeq(idx, 1, k - 1)
             b == SubSeq(idx, k + 1, Len(idx))
  <2>1. a \in Seq(Entries) /\ Len(a) = k - 1 /\ \A i \in 1..(k - 1) : a[i] = idx[i]
    BY <1>1
  <2>2. b \in Seq(Entries) /\ Len(b) = Len(idx) - k /\ \A i \in 1..(Len(idx) - k) : b[i] = idx[k + i]
    BY <1>1
  <2>3. \A i \in 1..(Len(a) + Len(b)) : (a \o b)[i] = IF i <= Len(a) THEN a[i] ELSE b[i - Len(a)]
    BY SMTT(30), <2>1, <2>2
  <2>4. new = a \o b
    BY DEF Without
  <2> HIDE DEF a, b, new
  <2>5. ASSUME NEW i \in DOMAIN new PROVE new[i] = IF i < k THEN idx[i] ELSE idx[i + 1]
    <3>1. i \in 1..(Len(a) + Len(b)) /\ i \in 1..(Len(idx) - 1)
      BY <1>1, <1>2, <2>1, <2>2
    <3>2. new[i] = IF i <= k - 1 THEN a[i] ELSE b[i - (k - 1)]
      BY <3>1, <2>1, <2>3, <2>4
    <3>3. CASE i < k
      BY <3>1, <3>2, <3>3, <1>1, <2>1
    <3>4. CASE i >= k
      <4>1. i - (k - 1) \in 1..(Len(idx) - k) /\ k + (i - (k - 1)) = i + 1
        BY <3>1, <3>4, <1>1
      <4>2. QED BY <4>1, <3>1, <3>2, <3>4, <1>1, <2>2
    <3>5. QED BY <3>1, <3>3, <3>4, <1>1
  <2>6. QED BY <2>5
<1>4. \A i \in DOMAIN new : \E j \in DOMAIN idx \ {k} : new[i] = idx[j] /\ j = IF i < k THEN i ELSE i + 1
  BY <1>1, <1>2, <1>3
<1>5. \A j \in DOMAIN idx \ {k} : \E i \in DOMAIN new : new[i] = idx[j]
  <2> TAKE j \in DOMAIN idx \ {k}
  <2>1. CASE j < k
    BY <2>1, <1>1, <1>2, <1>3
  <2>2. CASE j > k
    <3>1. j - 1 \in DOMAIN new /\ new[j - 1] = idx[j]
      BY <2>2, <1>1, <1>2, <1>3
    <3>2. QED BY <3>1
  <2>3. QED BY <1>1, <2>1, <2>2
<1>6. Distinct(new)
  <2>1. Len(new) <= MaxSnapshots
    BY <1>1, <1>2, Consts DEF Distinct
  <2>2. ASSUME NEW i \in DOMAIN new, NEW j \in DOMAIN new, i # j
        PROVE  new[i].name # new[j].name /\ new[i].id # new[j].id
    BY SMTT(30), <2>2, <1>1, <1>2, <1>3 DEF Distinct
  <2>3. QED BY <2>1, <2>2 DEF Distinct
<1>7. IdsOf(new) = IdsOf(idx) \ {idx[k].id}
  <2>1. \A j \in DOMAIN idx \ {k} : idx[j].id # idx[k].id
    BY DEF Distinct
  <2>2. QED BY <2>1, <1>4, <1>5 DEF IdsOf
<1>8. \A j \in DOMAIN idx \ {k} : idx[j].id # idx[k].id
  BY DEF Distinct
<1>9. QED BY <1>2, <1>4, <1>6, <1>7, <1>8

-----------------------------------------------------------------------------
(* The entries of the index, and of the copies commands have of it, are of *)
(* payloads that are listed.                                               *)
LEMMA EntriesListed ==
    ASSUME SnapIInv
    PROVE  /\ listed \subseteq SnapIds /\ DOMAIN index \subseteq Nat
           /\ \A k \in DOMAIN index : /\ index[k].id \in listed /\ index[k].id \in SnapIds
                                      /\ index[k].name \in SnapNames /\ index[k].has \in {"disk", "memory"}
           /\ \A o \in SnapOps : Creates(o) \/ Deletes(o) =>
                 \A k \in DOMAIN sidx[o] : sidx[o][k].id \in listed
<1>1. index \in Seq(Entries) /\ listed \subseteq SnapIds
  BY DEF SnapIInv, SnapSafe, TypeOK, IndexTyped
<1>2. \A k \in DOMAIN index : index[k].id \in listed
  BY DEF SnapIInv, SnapSafe, IndexCurrent, IdsOf
<1>3. DOMAIN index \subseteq Nat /\ \A k \in DOMAIN index :
         index[k].id \in SnapIds /\ index[k].name \in SnapNames /\ index[k].has \in {"disk", "memory"}
  BY <1>1, IndexFacts
<1>4. \A o \in SnapOps : Creates(o) \/ Deletes(o) => \A k \in DOMAIN sidx[o] : sidx[o][k].id \in listed
  BY DEF SnapIInv, CopiesCurrent, CopyCurrent, IdsOf
<1>5. QED BY <1>1, <1>2, <1>3, <1>4

(* A new UUID is nobody's. *)
LEMMA FreshUUID ==
    ASSUME SnapIInv, json = "whole", FreeIds # {}
    PROVE  /\ NewUUID \in SnapIds \ listed /\ Missing(NewUUID)
           /\ \A q \in SnapOps : sid[q] # NewUUID
<1>1. NewUUID \in FreeIds
  BY DEF NewUUID
<1>2. QED BY <1>1 DEF FreeIds, SnapIInv, SnapSafe, IndexCurrent

(* Who creates or reverts is alone with it, and nobody deletes meanwhile.  *)
LEMMA HolderAlone ==
    ASSUME SnapIInv, DeletesAlone, NEW o \in SnapOps, NEW q \in SnapOps,
           Creates(o) \/ Reverts(o) \/ Deletes(o), Creates(q) \/ Reverts(q) \/ Deletes(q)
    PROVE  o = q
  BY DEF SnapIInv, OneHolder, Turns, DeletesAlone, Creates, Reverts, Deletes, Busy, May

(* A payload whose files are all there is a whole one of the machine.      *)
LEMMA PayloadWhole ==
    ASSUME SnapIInv, NEW o \in SnapOps, spc[o] = "index"
    PROVE  /\ sid[o] \notin emptied /\ pdisk[sid[o]] = vdisk /\ pfw[sid[o]] = vfw /\ vdisk # 0 /\ vfw # 0
           /\ IF sholds[o] = "memory" THEN pstate[sid[o]] = vdisk ELSE pstate[sid[o]] = 0
<1>1. vdisk # 0 /\ vfw # 0
  BY Consts DEF SnapIInv, SnapSafe, TypeOK
<1>2. sid[o] \notin emptied
  BY DEF SnapIInv, NewPayload, Emptied, Creates
<1>3. QED BY <1>1, <1>2 DEF SnapIInv, NewPayload, Creates

(* What the index becomes when a snapshot is created, or deleted.          *)
LEMMA IndexCreated ==
    ASSUME SnapIInv, NEW o \in SnapOps, CreateIndex(o)
    PROVE  /\ json' = "whole" /\ index' \in Seq(Entries) /\ Distinct(index') /\ IdsOf(index') = listed'
           /\ \A k \in DOMAIN index' :
                 \/ index'[k] = [id |-> sid[o], name |-> sname[o], has |-> sholds[o]]
                 \/ \E j \in DOMAIN sidx[o] : index'[k] = sidx[o][j]
<1> DEFINE e == [id |-> sid[o], name |-> sname[o], has |-> sholds[o]]
<1>1. CopyCurrent(o) /\ sidx[o] \in Seq(Entries)
  BY DEF SnapIInv, SnapSafe, TypeOK, IndexTyped, CopiesCurrent, Creates, CreateIndex
<1>2. sid[o] \in SnapIds \ listed /\ Acceptable(sidx[o], sname[o]) /\ sname[o] \in SnapNames
  BY DEF SnapIInv, NewPayload, Creates, CreateIndex
<1>3. e \in Entries /\ e.id = sid[o] /\ e.name = sname[o]
  BY <1>2 DEF SnapIInv, SnapSafe, TypeOK, Entries
<1>4. index' = Append(sidx[o], e) /\ listed' = listed \cup {e.id}
  BY <1>3 DEF CreateIndex, Writes
<1> HIDE DEF e
<1>5. Distinct(sidx[o]) /\ IdsOf(sidx[o]) = listed
  BY <1>1 DEF CopyCurrent
<1>6. /\ index' \in Seq(Entries) /\ Distinct(index') /\ IdsOf(index') = IdsOf(sidx[o]) \cup {e.id}
      /\ \A k \in DOMAIN index' : index'[k] = e \/ \E j \in DOMAIN sidx[o] : index'[k] = sidx[o][j]
  BY <1>1, <1>2, <1>3, <1>4, <1>5, AppendFacts
<1>7. json' = "whole"
  BY DEF CreateIndex, Writes
<1>8. QED BY <1>4, <1>5, <1>6, <1>7 DEF e

LEMMA IndexDeleted ==
    ASSUME SnapIInv, NEW o \in SnapOps, DeleteIndex(o)
    PROVE  /\ json' = "whole" /\ index' \in Seq(Entries) /\ Distinct(index') /\ IdsOf(index') = listed'
           /\ \A k \in DOMAIN index' : \E j \in DOMAIN sidx[o] : index'[k] = sidx[o][j] /\ sidx[o][j].id # sid[o]
<1>1. CopyCurrent(o) /\ sidx[o] \in Seq(Entries)
  BY DEF SnapIInv, SnapSafe, TypeOK, IndexTyped, CopiesCurrent, Deletes, DeleteIndex
<1>2. sat[o] \in DOMAIN sidx[o] /\ sidx[o][sat[o]].id = sid[o]
  BY DEF SnapIInv, Emptied, Deletes, DeleteIndex
<1>3. index' = Without(sidx[o], sat[o]) /\ listed' = listed \ {sid[o]}
  BY DEF DeleteIndex, Writes
<1>4. Distinct(sidx[o]) /\ IdsOf(sidx[o]) = listed
  BY <1>1 DEF CopyCurrent
<1>5. /\ Without(sidx[o], sat[o]) \in Seq(Entries) /\ Distinct(Without(sidx[o], sat[o]))
      /\ IdsOf(Without(sidx[o], sat[o])) = IdsOf(sidx[o]) \ {sidx[o][sat[o]].id}
      /\ \A k \in DOMAIN Without(sidx[o], sat[o]) :
            \E j \in DOMAIN sidx[o] : Without(sidx[o], sat[o])[k] = sidx[o][j] /\ sidx[o][j].id # sidx[o][sat[o]].id
  BY <1>1, <1>2, <1>4, WithoutFacts
<1>6. json' = "whole"
  BY DEF DeleteIndex, Writes
<1>7. QED BY <1>2, <1>3, <1>4, <1>5, <1>6

-----------------------------------------------------------------------------
(* What a step keeps. *)

USE Consts DEF vmfiles, indexfile, payloads, about, history, May


LEMMA LaunchKeeps == ASSUME SnapIInv, DeletesAlone, Launch PROVE SnapIInv'
<1> USE DEF Launch, Unlocked
<1>1. IndexTyped' /\ EntriesLead' /\ EntriesExact' /\ LimitAndNames' /\ IndexCurrent' /\ PayloadsOwned' /\ Turns' /\ CopiesCurrent' /\ NewPayload' /\ Emptied' /\ PutBack'
  BY DEF SnapIInv, SnapSafe, TypeOK, IndexTyped, EntriesLead, Leads, Missing, EntriesExact, Exact,
      LimitAndNames, IndexCurrent, PayloadsOwned, Creates, Turns, Busy, Deletes, CopiesCurrent,
      CopyCurrent, NewPayload, Acceptable, Emptied, PutBack, Reverts
<1>2. TypeOK'
  BY SMT, <1>1 DEF SnapIInv, SnapSafe, TypeOK
<1>3. MachineOfOneMoment'
  BY SMT DEF SnapIInv, SnapSafe, TypeOK, MachineOfOneMoment
<1>4. OneHolder'
  BY SMT DEF SnapIInv, SnapSafe, TypeOK, OneHolder, Creates, Reverts
<1>5. QED BY <1>1, <1>2, <1>3, <1>4 DEF SnapIInv, SnapSafe

LEMMA GuestWritesKeeps == ASSUME SnapIInv, DeletesAlone, GuestWrites PROVE SnapIInv'
<1> USE DEF GuestWrites
<1>1. IndexTyped' /\ EntriesLead' /\ EntriesExact' /\ LimitAndNames' /\ IndexCurrent' /\ PayloadsOwned' /\ Turns' /\ OneHolder' /\ CopiesCurrent' /\ Emptied'
  BY DEF SnapIInv, SnapSafe, TypeOK, IndexTyped, EntriesLead, Leads, Missing, EntriesExact, Exact,
      LimitAndNames, IndexCurrent, PayloadsOwned, Creates, Turns, Busy, Deletes, OneHolder, Reverts,
      CopiesCurrent, CopyCurrent, Emptied
<1>2. TypeOK'
  BY SMT, <1>1 DEF SnapIInv, SnapSafe, TypeOK
<1>3. MachineOfOneMoment'
  BY SMT DEF SnapIInv, SnapSafe, TypeOK, MachineOfOneMoment, OneHolder, Creates, Reverts
<1>4. NewPayload'
  BY SMT DEF SnapIInv, SnapSafe, TypeOK, NewPayload, Creates, Acceptable, OneHolder, Reverts
<1>5. PutBack'
  BY SMT DEF SnapIInv, SnapSafe, TypeOK, PutBack, Reverts, OneHolder, Creates
<1>6. QED BY <1>1, <1>2, <1>3, <1>4, <1>5 DEF SnapIInv, SnapSafe

LEMMA RunEndsKeeps == ASSUME SnapIInv, DeletesAlone, RunEnds PROVE SnapIInv'
<1> USE DEF RunEnds
<1>1. IndexTyped' /\ EntriesLead' /\ EntriesExact' /\ LimitAndNames' /\ IndexCurrent' /\ PayloadsOwned' /\ Turns' /\ CopiesCurrent' /\ NewPayload' /\ Emptied' /\ PutBack'
  BY DEF SnapIInv, SnapSafe, TypeOK, IndexTyped, EntriesLead, Leads, Missing, EntriesExact, Exact,
      LimitAndNames, IndexCurrent, PayloadsOwned, Creates, Turns, Busy, Deletes, CopiesCurrent,
      CopyCurrent, NewPayload, Acceptable, Emptied, PutBack, Reverts
<1>2. TypeOK'
  BY SMT, <1>1 DEF SnapIInv, SnapSafe, TypeOK
<1>3. MachineOfOneMoment'
  BY SMT DEF SnapIInv, SnapSafe, TypeOK, MachineOfOneMoment
<1>4. OneHolder'
  BY SMT DEF SnapIInv, SnapSafe, TypeOK, OneHolder, Creates, Reverts
<1>5. QED BY <1>1, <1>2, <1>3, <1>4 DEF SnapIInv, SnapSafe

LEMMA CreateStoppedKeeps == ASSUME SnapIInv, DeletesAlone, NEW o \in SnapOps, CreateStopped(o) PROVE SnapIInv'
<1> USE DEF CreateStopped, Begin, Starts, Free, Unlocked, Busy
<1>1. IndexTyped'
  BY SMT DEF SnapIInv, SnapSafe, TypeOK, IndexTyped
<1>2. EntriesLead' /\ EntriesExact' /\ LimitAndNames' /\ IndexCurrent'
  BY DEF SnapIInv, SnapSafe, TypeOK, EntriesLead, Leads, Missing, EntriesExact, Exact, LimitAndNames,
      IndexCurrent
<1>3. TypeOK'
  BY SMT, <1>1, EntriesListed, FreshUUID DEF SnapIInv, SnapSafe, TypeOK
<1>4. PayloadsOwned'
  BY SMT DEF SnapIInv, SnapSafe, TypeOK, PayloadsOwned, Missing, Creates
<1>5. MachineOfOneMoment'
  BY SMT DEF SnapIInv, SnapSafe, TypeOK, MachineOfOneMoment
<1>6. Turns'
  BY SMT DEF SnapIInv, SnapSafe, TypeOK, Turns, Busy, Deletes
<1>7. OneHolder'
  BY SMT DEF SnapIInv, SnapSafe, TypeOK, OneHolder, Creates, Reverts
<1>8. CopiesCurrent'
  <2>1. CopyCurrent(o)'
    BY DEF SnapIInv, SnapSafe, TypeOK, IndexTyped, EntriesLead, EntriesExact, LimitAndNames,
        IndexCurrent, CopyCurrent, Leads, Exact, Missing
  <2>2. ASSUME NEW q \in SnapOps \ {o}, (Creates(q) \/ Deletes(q))' PROVE CopyCurrent(q)'
    BY <2>2 DEF SnapIInv, SnapSafe, TypeOK, CopiesCurrent, CopyCurrent, Creates, Deletes, Leads,
        Exact, Missing
  <2>3. QED BY <2>1, <2>2 DEF CopiesCurrent
<1>9. NewPayload'
  <2>1. ASSUME NEW q \in SnapOps, Creates(q)' PROVE q = o
    BY <2>1 DEF SnapIInv, SnapSafe, TypeOK, Creates
  <2>2. PICK n \in SnapNames : /\ json = "whole" /\ FreeIds # {} /\ Acceptable(index, n)
                               /\ Starts(o, "disk", [id |-> NewUUID, name |-> n, has |-> "disk"], 0, FALSE)
    BY DEF Starts
  <2>3. spc'[o] = "disk" /\ sid'[o] = NewUUID /\ sname'[o] = n /\ sholds'[o] = "disk" /\ sidx'[o] = index
    BY <2>2 DEF SnapIInv, SnapSafe, TypeOK, IndexTyped
  <2>4. NewUUID \in SnapIds \ listed /\ pstate[NewUUID] = 0
    BY <2>2, FreshUUID DEF Missing
  <2>5. QED BY <2>1, <2>2, <2>3, <2>4 DEF NewPayload
<1>10. Emptied'
  BY SMT DEF SnapIInv, SnapSafe, TypeOK, Emptied, Deletes, Missing
<1>11. PutBack'
  BY SMT DEF SnapIInv, SnapSafe, TypeOK, PutBack, Reverts
<1>12. QED BY <1>1, <1>2, <1>3, <1>4, <1>5, <1>6, <1>7, <1>8, <1>9, <1>10, <1>11 DEF SnapIInv, SnapSafe

LEMMA CreateLiveKeeps == ASSUME SnapIInv, DeletesAlone, NEW o \in SnapOps, CreateLive(o) PROVE SnapIInv'
<1> USE DEF CreateLive, Begin, Starts, Free, Busy
<1>1. IndexTyped'
  BY SMT DEF SnapIInv, SnapSafe, TypeOK, IndexTyped
<1>2. EntriesLead' /\ EntriesExact' /\ LimitAndNames' /\ IndexCurrent'
  BY DEF SnapIInv, SnapSafe, TypeOK, EntriesLead, Leads, Missing, EntriesExact, Exact, LimitAndNames,
      IndexCurrent
<1>3. TypeOK'
  BY SMT, <1>1, EntriesListed, FreshUUID DEF SnapIInv, SnapSafe, TypeOK
<1>4. PayloadsOwned'
  BY SMT DEF SnapIInv, SnapSafe, TypeOK, PayloadsOwned, Missing, Creates
<1>5. MachineOfOneMoment'
  BY SMT DEF SnapIInv, SnapSafe, TypeOK, MachineOfOneMoment
<1>6. Turns'
  BY SMT DEF SnapIInv, SnapSafe, TypeOK, Turns, Busy, Deletes
<1>7. OneHolder'
  BY SMT DEF SnapIInv, SnapSafe, TypeOK, OneHolder, Creates, Reverts
<1>8. CopiesCurrent'
  <2>1. CopyCurrent(o)'
    BY DEF SnapIInv, SnapSafe, TypeOK, IndexTyped, EntriesLead, EntriesExact, LimitAndNames,
        IndexCurrent, CopyCurrent, Leads, Exact, Missing
  <2>2. ASSUME NEW q \in SnapOps \ {o}, (Creates(q) \/ Deletes(q))' PROVE CopyCurrent(q)'
    BY <2>2 DEF SnapIInv, SnapSafe, TypeOK, CopiesCurrent, CopyCurrent, Creates, Deletes, Leads,
        Exact, Missing
  <2>3. QED BY <2>1, <2>2 DEF CopiesCurrent
<1>9. NewPayload'
  BY SMTT(30), EntriesListed, FreshUUID, HolderAlone
      DEF SnapIInv, SnapSafe, TypeOK, NewPayload, Creates, Acceptable, Missing, Unlocked, Deletes,
      Reverts, OneHolder, IndexTyped
<1>10. Emptied'
  BY SMT DEF SnapIInv, SnapSafe, TypeOK, Emptied, Deletes, Missing
<1>11. PutBack'
  BY SMT DEF SnapIInv, SnapSafe, TypeOK, PutBack, Reverts
<1>12. QED BY <1>1, <1>2, <1>3, <1>4, <1>5, <1>6, <1>7, <1>8, <1>9, <1>10, <1>11 DEF SnapIInv, SnapSafe

LEMMA FailKeeps == ASSUME SnapIInv, DeletesAlone, NEW o \in SnapOps, Fail(o) PROVE SnapIInv'
<1> USE DEF Fail, Removed, Ends, Resumes
<1>1. IndexTyped'
  BY SMT DEF SnapIInv, SnapSafe, TypeOK, IndexTyped
<1>2. LimitAndNames' /\ IndexCurrent'
  BY DEF SnapIInv, SnapSafe, TypeOK, LimitAndNames, IndexCurrent
<1>3. TypeOK'
  BY SMT, <1>1 DEF SnapIInv, SnapSafe, TypeOK, NewPayload, Creates
<1>4. EntriesLead'
  BY SMT, EntriesListed DEF SnapIInv, SnapSafe, TypeOK, EntriesLead, Leads, Missing, NewPayload, Creates
<1>5. EntriesExact'
  BY SMT, EntriesListed DEF SnapIInv, SnapSafe, TypeOK, EntriesExact, Exact, NewPayload, Creates
<1>6. PayloadsOwned'
  BY SMT DEF SnapIInv, SnapSafe, TypeOK, PayloadsOwned, Missing, Creates
<1>7. MachineOfOneMoment'
  BY SMT, HolderAlone DEF SnapIInv, SnapSafe, TypeOK, MachineOfOneMoment, Creates, Reverts, OneHolder,
      NewPayload
<1>8. Turns'
  BY SMT DEF SnapIInv, SnapSafe, TypeOK, Turns, Busy, Deletes
<1>9. OneHolder'
  <2>1. \A q \in SnapOps : Creates(q) \/ Reverts(q) => q = o
    BY HolderAlone DEF Creates
  <2>2. \A q \in SnapOps : ~Creates(q)' /\ ~Reverts(q)'
    BY <2>1 DEF SnapIInv, SnapSafe, TypeOK, Creates, Reverts
  <2>3. slive \subseteq {o}
    BY <2>1 DEF SnapIInv, SnapSafe, TypeOK, OneHolder
  <2>4. o \in slive => phase = "paused"
    BY DEF SnapIInv, OneHolder, Creates, Reverts
  <2>5. phase' \in {"running", "paused"} => vstate' = 0
    BY <2>4 DEF SnapIInv, SnapSafe, TypeOK, OneHolder
  <2>6. QED BY <2>2, <2>3, <2>5 DEF OneHolder
<1>10. CopiesCurrent'
  BY SMTT(30), EntriesListed, HolderAlone DEF SnapIInv, SnapSafe, TypeOK, CopiesCurrent, CopyCurrent,
      Creates, Deletes, Leads, Missing, Exact, NewPayload, Emptied
<1>11. NewPayload'
  BY SMT, HolderAlone DEF SnapIInv, SnapSafe, TypeOK, NewPayload, Creates, Acceptable, Reverts,
      OneHolder
<1>12. Emptied'
  BY SMT, HolderAlone, EntriesListed DEF SnapIInv, SnapSafe, TypeOK, Emptied, Deletes, Missing,
      NewPayload, Creates, CopiesCurrent
<1>13. PutBack'
  BY SMT, HolderAlone, EntriesListed DEF SnapIInv, SnapSafe, TypeOK, PutBack, Reverts, NewPayload,
      Creates, CopiesCurrent
<1>14. QED BY <1>1, <1>2, <1>3, <1>4, <1>5, <1>6, <1>7, <1>8, <1>9, <1>10, <1>11, <1>12, <1>13
    DEF SnapIInv, SnapSafe

LEMMA CreateDiskKeeps == ASSUME SnapIInv, DeletesAlone, NEW o \in SnapOps, CreateDisk(o) PROVE SnapIInv'
<1> USE DEF CreateDisk, Goto
<1>1. IndexTyped' /\ LimitAndNames' /\ IndexCurrent'
  BY DEF SnapIInv, SnapSafe, TypeOK, IndexTyped, LimitAndNames, IndexCurrent
<1>2. TypeOK'
  BY SMT, <1>1 DEF SnapIInv, SnapSafe, TypeOK, NewPayload, Creates
<1>3. EntriesLead'
  BY SMT, EntriesListed DEF SnapIInv, SnapSafe, TypeOK, EntriesLead, Leads, Missing, NewPayload, Creates
<1>4. EntriesExact'
  BY SMT, EntriesListed DEF SnapIInv, SnapSafe, TypeOK, EntriesExact, Exact, NewPayload, Creates
<1>5. PayloadsOwned'
  BY SMT DEF SnapIInv, SnapSafe, TypeOK, PayloadsOwned, Missing, Creates
<1>6. MachineOfOneMoment'
  BY SMT DEF SnapIInv, SnapSafe, TypeOK, MachineOfOneMoment
<1>7. Turns'
  BY SMT DEF SnapIInv, SnapSafe, TypeOK, Turns, Busy, Deletes
<1>8. OneHolder'
  BY SMT DEF SnapIInv, SnapSafe, TypeOK, OneHolder, Creates, Reverts
<1>9. CopiesCurrent'
  BY SMT, EntriesListed, HolderAlone DEF SnapIInv, SnapSafe, TypeOK, CopiesCurrent, CopyCurrent,
      Creates, Deletes, Leads, Missing, Exact, NewPayload, Emptied
<1>10. NewPayload'
  BY SMT DEF SnapIInv, SnapSafe, TypeOK, NewPayload, Creates, Acceptable
<1>11. Emptied'
  BY SMT, HolderAlone, EntriesListed DEF SnapIInv, SnapSafe, TypeOK, Emptied, Deletes, Missing,
      NewPayload, Creates, CopiesCurrent
<1>12. PutBack'
  BY SMT, HolderAlone, EntriesListed DEF SnapIInv, SnapSafe, TypeOK, PutBack, Reverts, NewPayload,
      Creates, CopiesCurrent
<1>13. QED BY <1>1, <1>2, <1>3, <1>4, <1>5, <1>6, <1>7, <1>8, <1>9, <1>10, <1>11, <1>12
    DEF SnapIInv, SnapSafe

LEMMA CreateFirmwareKeeps == ASSUME SnapIInv, DeletesAlone, NEW o \in SnapOps, CreateFirmware(o) PROVE SnapIInv'
<1> USE DEF CreateFirmware, Goto
<1>1. IndexTyped' /\ LimitAndNames' /\ IndexCurrent'
  BY DEF SnapIInv, SnapSafe, TypeOK, IndexTyped, LimitAndNames, IndexCurrent
<1>2. TypeOK'
  BY SMT, <1>1 DEF SnapIInv, SnapSafe, TypeOK, NewPayload, Creates
<1>3. EntriesLead'
  BY SMT, EntriesListed DEF SnapIInv, SnapSafe, TypeOK, EntriesLead, Leads, Missing, NewPayload, Creates
<1>4. EntriesExact'
  BY SMT, EntriesListed DEF SnapIInv, SnapSafe, TypeOK, EntriesExact, Exact, NewPayload, Creates
<1>5. PayloadsOwned'
  BY SMT DEF SnapIInv, SnapSafe, TypeOK, PayloadsOwned, Missing, Creates
<1>6. MachineOfOneMoment'
  BY SMT DEF SnapIInv, SnapSafe, TypeOK, MachineOfOneMoment
<1>7. Turns'
  BY SMT DEF SnapIInv, SnapSafe, TypeOK, Turns, Busy, Deletes
<1>8. OneHolder'
  BY SMT DEF SnapIInv, SnapSafe, TypeOK, OneHolder, Creates, Reverts
<1>9. CopiesCurrent'
  BY SMT, EntriesListed, HolderAlone DEF SnapIInv, SnapSafe, TypeOK, CopiesCurrent, CopyCurrent,
      Creates, Deletes, Leads, Missing, Exact, NewPayload, Emptied
<1>10. NewPayload'
  BY SMT DEF SnapIInv, SnapSafe, TypeOK, NewPayload, Creates, Acceptable
<1>11. Emptied'
  BY SMT, HolderAlone, EntriesListed DEF SnapIInv, SnapSafe, TypeOK, Emptied, Deletes, Missing,
      NewPayload, Creates, CopiesCurrent
<1>12. PutBack'
  BY SMT, HolderAlone, EntriesListed DEF SnapIInv, SnapSafe, TypeOK, PutBack, Reverts, NewPayload,
      Creates, CopiesCurrent
<1>13. QED BY <1>1, <1>2, <1>3, <1>4, <1>5, <1>6, <1>7, <1>8, <1>9, <1>10, <1>11, <1>12
    DEF SnapIInv, SnapSafe

LEMMA CreateSaveKeeps == ASSUME SnapIInv, DeletesAlone, NEW o \in SnapOps, CreateSave(o) PROVE SnapIInv'
<1> USE DEF CreateSave
<1>1. IndexTyped' /\ LimitAndNames' /\ IndexCurrent'
  BY DEF SnapIInv, SnapSafe, TypeOK, IndexTyped, LimitAndNames, IndexCurrent
<1>2. TypeOK'
  BY SMT, <1>1 DEF SnapIInv, SnapSafe, TypeOK, NewPayload, Creates
<1>3. EntriesLead'
  BY SMT, EntriesListed DEF SnapIInv, SnapSafe, TypeOK, EntriesLead, Leads, Missing, NewPayload, Creates
<1>4. EntriesExact'
  BY SMT, EntriesListed DEF SnapIInv, SnapSafe, TypeOK, EntriesExact, Exact, NewPayload, Creates
<1>5. PayloadsOwned'
  BY SMT DEF SnapIInv, SnapSafe, TypeOK, PayloadsOwned, Missing, Creates
<1>6. MachineOfOneMoment'
  BY SMT DEF SnapIInv, SnapSafe, TypeOK, MachineOfOneMoment
<1>7. Turns'
  BY SMT DEF SnapIInv, SnapSafe, TypeOK, Turns, Busy, Deletes
<1>8. OneHolder'
  BY SMT DEF SnapIInv, SnapSafe, TypeOK, OneHolder, Creates, Reverts
<1>9. CopiesCurrent'
  BY SMTT(30), EntriesListed, HolderAlone DEF SnapIInv, SnapSafe, TypeOK, CopiesCurrent, CopyCurrent,
      Creates, Deletes, Leads, Missing, Exact, NewPayload, Emptied
<1>10. NewPayload'
  BY SMT, HolderAlone DEF SnapIInv, SnapSafe, TypeOK, NewPayload, Creates, Acceptable
<1>11. Emptied'
  BY SMT, HolderAlone, EntriesListed DEF SnapIInv, SnapSafe, TypeOK, Emptied, Deletes, Missing,
      NewPayload, Creates, CopiesCurrent
<1>12. PutBack'
  BY SMT, HolderAlone, EntriesListed DEF SnapIInv, SnapSafe, TypeOK, PutBack, Reverts, NewPayload,
      Creates, CopiesCurrent
<1>13. QED BY <1>1, <1>2, <1>3, <1>4, <1>5, <1>6, <1>7, <1>8, <1>9, <1>10, <1>11, <1>12
    DEF SnapIInv, SnapSafe

LEMMA CreateTruncateKeeps == ASSUME SnapIInv, DeletesAlone, NEW o \in SnapOps, CreateTruncate(o) PROVE SnapIInv'
<1> USE DEF CreateTruncate, Truncates, Goto
<1>1. IndexTyped'
  BY SMT DEF SnapIInv, SnapSafe, TypeOK, IndexTyped
<1>2. TypeOK'
  BY SMT, <1>1 DEF SnapIInv, SnapSafe, TypeOK
<1>3. EntriesLead'
  BY SMT DEF SnapIInv, SnapSafe, TypeOK, EntriesLead, Leads, Missing
<1>4. EntriesExact'
  BY SMT DEF SnapIInv, SnapSafe, TypeOK, EntriesExact, Exact
<1>5. LimitAndNames'
  BY SMT DEF SnapIInv, SnapSafe, TypeOK, LimitAndNames, Distinct
<1>6. IndexCurrent'
  BY SMT DEF SnapIInv, SnapSafe, TypeOK, IndexCurrent
<1>7. PayloadsOwned'
  BY SMT DEF SnapIInv, SnapSafe, TypeOK, PayloadsOwned, Missing, Creates
<1>8. MachineOfOneMoment'
  BY SMT DEF SnapIInv, SnapSafe, TypeOK, MachineOfOneMoment
<1>9. Turns'
  BY SMT DEF SnapIInv, SnapSafe, TypeOK, Turns, Busy, Deletes
<1>10. OneHolder'
  BY SMT DEF SnapIInv, SnapSafe, TypeOK, OneHolder, Creates, Reverts
<1>11. CopiesCurrent'
  BY SMT, HolderAlone DEF SnapIInv, SnapSafe, TypeOK, CopiesCurrent, CopyCurrent, Creates, Deletes,
      Leads, Missing, Exact
<1>12. NewPayload'
  BY SMT DEF SnapIInv, SnapSafe, TypeOK, NewPayload, Creates, Acceptable
<1>13. Emptied'
  BY SMT DEF SnapIInv, SnapSafe, TypeOK, Emptied, Deletes, Missing
<1>14. PutBack'
  BY SMT DEF SnapIInv, SnapSafe, TypeOK, PutBack, Reverts
<1>15. QED BY <1>1, <1>2, <1>3, <1>4, <1>5, <1>6, <1>7, <1>8, <1>9, <1>10, <1>11, <1>12, <1>13, <1>14
    DEF SnapIInv, SnapSafe

LEMMA CreateIndexKeeps == ASSUME SnapIInv, DeletesAlone, NEW o \in SnapOps, CreateIndex(o) PROVE SnapIInv'
<1>a. /\ json' = "whole" /\ index' \in Seq(Entries) /\ Distinct(index') /\ IdsOf(index') = listed'
      /\ \A k \in DOMAIN index' :
            \/ index'[k] = [id |-> sid[o], name |-> sname[o], has |-> sholds[o]]
            \/ \E j \in DOMAIN sidx[o] : index'[k] = sidx[o][j]
  BY IndexCreated
<1> USE DEF CreateIndex, Ends, Resumes
<1>1. IndexTyped'
  BY SMT, <1>a, EntriesListed DEF SnapIInv, SnapSafe, TypeOK, IndexTyped, NewPayload, Creates,
      CopiesCurrent, CopyCurrent, OneHolder, MachineOfOneMoment
<1>2. TypeOK'
  BY SMT, <1>1, <1>a DEF SnapIInv, SnapSafe, TypeOK, NewPayload, Creates
<1>3. EntriesLead'
  <2>0. PICK e : e = [id |-> sid[o], name |-> sname[o], has |-> sholds[o]]
    OBVIOUS
  <2>1. Leads(e)'
    BY <2>0, PayloadWhole DEF Leads, Missing
  <2>2. \A d : (\E j \in DOMAIN sidx[o] : d = sidx[o][j]) => Leads(d)'
    BY DEF SnapIInv, CopiesCurrent, CopyCurrent, Creates, Leads, Missing
  <2>3. QED BY <1>a, <2>0, <2>1, <2>2 DEF EntriesLead
<1>4. EntriesExact'
  <2>0. PICK e : e = [id |-> sid[o], name |-> sname[o], has |-> sholds[o]]
    OBVIOUS
  <2>1. halved \/ Exact(e)'
    <3>1. halved \/ (vfw = vdisk /\ vstate \in {0, vdisk})
      BY HolderAlone DEF SnapIInv, SnapSafe, MachineOfOneMoment, Reverts, Creates
    <3>2. pdisk[sid[o]] = vdisk /\ pfw[sid[o]] = vfw /\ pstate[sid[o]] \in {0, vdisk}
      BY PayloadWhole
    <3>3. QED BY <2>0, <3>1, <3>2 DEF Exact
  <2>2. halved \/ \A d : (\E j \in DOMAIN sidx[o] : d = sidx[o][j]) => Exact(d)'
    BY DEF SnapIInv, CopiesCurrent, CopyCurrent, Creates, Exact
  <2>3. QED BY <1>a, <2>0, <2>1, <2>2 DEF EntriesExact
<1>5. LimitAndNames'
  BY SMT, <1>a, EntriesListed DEF SnapIInv, SnapSafe, TypeOK, LimitAndNames, NewPayload, Creates,
      CopiesCurrent, CopyCurrent, OneHolder, MachineOfOneMoment
<1>6. IndexCurrent'
  BY SMT, <1>a, EntriesListed DEF SnapIInv, SnapSafe, TypeOK, IndexCurrent, NewPayload, Creates,
      CopiesCurrent, CopyCurrent, OneHolder, MachineOfOneMoment
<1>7. PayloadsOwned'
  BY SMT DEF SnapIInv, SnapSafe, TypeOK, PayloadsOwned, Missing, Creates
<1>8. MachineOfOneMoment'
  BY SMT DEF SnapIInv, SnapSafe, TypeOK, MachineOfOneMoment
<1>9. Turns'
  BY SMT DEF SnapIInv, SnapSafe, TypeOK, Turns, Busy, Deletes
<1>10. OneHolder'
  <2>1. \A q \in SnapOps : Creates(q) \/ Reverts(q) => q = o
    BY HolderAlone DEF Creates
  <2>2. \A q \in SnapOps : ~Creates(q)' /\ ~Reverts(q)'
    BY <2>1 DEF SnapIInv, SnapSafe, TypeOK, Creates, Reverts
  <2>3. slive \subseteq {o}
    BY <2>1 DEF SnapIInv, SnapSafe, TypeOK, OneHolder
  <2>4. o \in slive => phase = "paused"
    BY DEF SnapIInv, OneHolder, Creates, Reverts
  <2>5. phase' \in {"running", "paused"} => vstate' = 0
    BY <2>4 DEF SnapIInv, SnapSafe, TypeOK, OneHolder
  <2>6. QED BY <2>2, <2>3, <2>5 DEF OneHolder
<1>11. CopiesCurrent'
  BY SMTT(30), HolderAlone, EntriesListed DEF SnapIInv, SnapSafe, TypeOK, CopiesCurrent, CopyCurrent,
      Creates, Deletes, Leads, Missing, Exact, NewPayload
<1>12. NewPayload'
  BY SMT, HolderAlone DEF SnapIInv, SnapSafe, TypeOK, NewPayload, Creates, Acceptable, Reverts,
      OneHolder
<1>13. Emptied'
  BY SMT, HolderAlone, EntriesListed DEF SnapIInv, SnapSafe, TypeOK, Emptied, Deletes, Missing,
      NewPayload, Creates
<1>14. PutBack'
  BY SMT, HolderAlone, EntriesListed DEF SnapIInv, SnapSafe, TypeOK, PutBack, Reverts, NewPayload,
      Creates, Deletes
<1>15. QED BY <1>1, <1>2, <1>3, <1>4, <1>5, <1>6, <1>7, <1>8, <1>9, <1>10, <1>11, <1>12, <1>13, <1>14
    DEF SnapIInv, SnapSafe

LEMMA DeleteKeeps == ASSUME SnapIInv, DeletesAlone, NEW o \in SnapOps, Delete(o) PROVE SnapIInv'
<1> USE DEF Delete, Free, Starts, Busy
<1>1. IndexTyped'
  BY SMT DEF SnapIInv, SnapSafe, TypeOK, IndexTyped
<1>2. EntriesLead' /\ EntriesExact' /\ LimitAndNames' /\ IndexCurrent'
  BY DEF SnapIInv, SnapSafe, TypeOK, EntriesLead, Leads, Missing, EntriesExact, Exact, LimitAndNames,
      IndexCurrent
<1>3. TypeOK'
  BY SMT, <1>1, EntriesListed DEF SnapIInv, SnapSafe, TypeOK
<1>4. PayloadsOwned'
  BY SMT DEF SnapIInv, SnapSafe, TypeOK, PayloadsOwned, Missing, Creates
<1>5. MachineOfOneMoment'
  BY SMT DEF SnapIInv, SnapSafe, TypeOK, MachineOfOneMoment
<1>6. Turns'
  BY SMT DEF SnapIInv, SnapSafe, TypeOK, Turns, Busy, Deletes
<1>7. OneHolder'
  BY SMT DEF SnapIInv, SnapSafe, TypeOK, OneHolder, Creates, Reverts
<1>8. CopiesCurrent'
  <2>1. CopyCurrent(o)'
    BY EntriesListed DEF SnapIInv, SnapSafe, TypeOK, IndexTyped, EntriesLead, EntriesExact,
        LimitAndNames, IndexCurrent, CopyCurrent, Leads, Exact, Missing, IdsOf
  <2>2. ASSUME NEW q \in SnapOps \ {o}, (Creates(q) \/ Deletes(q))' PROVE CopyCurrent(q)'
    BY <2>2 DEF SnapIInv, SnapSafe, TypeOK, CopiesCurrent, CopyCurrent, Creates, Deletes, Leads,
        Exact, Missing
  <2>3. QED BY <2>1, <2>2 DEF CopiesCurrent
<1>9. NewPayload'
  BY SMT DEF SnapIInv, SnapSafe, TypeOK, NewPayload, Creates, Acceptable
<1>10. Emptied'
  BY SMT, EntriesListed DEF SnapIInv, SnapSafe, TypeOK, Emptied, Deletes, Missing, IndexTyped
<1>11. PutBack'
  BY SMT DEF SnapIInv, SnapSafe, TypeOK, PutBack, Reverts
<1>12. QED BY <1>1, <1>2, <1>3, <1>4, <1>5, <1>6, <1>7, <1>8, <1>9, <1>10, <1>11 DEF SnapIInv, SnapSafe

LEMMA DeletePayloadKeeps == ASSUME SnapIInv, DeletesAlone, NEW o \in SnapOps, DeletePayload(o) PROVE SnapIInv'
<1> USE DEF DeletePayload, Removed, Goto
<1>1. IndexTyped' /\ LimitAndNames' /\ IndexCurrent'
  BY DEF SnapIInv, SnapSafe, TypeOK, IndexTyped, LimitAndNames, IndexCurrent
<1>2. TypeOK'
  BY SMT, <1>1, EntriesListed DEF SnapIInv, SnapSafe, TypeOK, Emptied, Deletes, CopiesCurrent,
      CopyCurrent
<1>3. EntriesLead'
  BY SMT, EntriesListed DEF SnapIInv, SnapSafe, TypeOK, EntriesLead, Leads, Missing, Emptied, Deletes
<1>4. EntriesExact'
  BY SMT, EntriesListed DEF SnapIInv, SnapSafe, TypeOK, EntriesExact, Exact, Emptied, Deletes
<1>5. PayloadsOwned'
  BY SMT DEF SnapIInv, SnapSafe, TypeOK, PayloadsOwned, Missing, Creates
<1>6. MachineOfOneMoment'
  BY SMT DEF SnapIInv, SnapSafe, TypeOK, MachineOfOneMoment
<1>7. Turns'
  BY SMT DEF SnapIInv, SnapSafe, TypeOK, Turns, Busy, Deletes
<1>8. OneHolder'
  BY SMT DEF SnapIInv, SnapSafe, TypeOK, OneHolder, Creates, Reverts
<1>9. CopiesCurrent'
  BY SMTT(30), EntriesListed, HolderAlone DEF SnapIInv, SnapSafe, TypeOK, CopiesCurrent, CopyCurrent,
      Creates, Deletes, Leads, Missing, Exact, Emptied
<1>10. NewPayload'
  BY SMT, EntriesListed, HolderAlone DEF SnapIInv, SnapSafe, TypeOK, NewPayload, Creates, Acceptable,
      Emptied, Deletes
<1>11. Emptied'
  BY SMT, EntriesListed, HolderAlone DEF SnapIInv, SnapSafe, TypeOK, Emptied, Deletes, Missing,
      CopiesCurrent
<1>12. PutBack'
  BY SMT, EntriesListed, HolderAlone DEF SnapIInv, SnapSafe, TypeOK, PutBack, Reverts, CopiesCurrent,
      Deletes
<1>13. QED BY <1>1, <1>2, <1>3, <1>4, <1>5, <1>6, <1>7, <1>8, <1>9, <1>10, <1>11, <1>12
    DEF SnapIInv, SnapSafe

LEMMA DeleteTruncateKeeps == ASSUME SnapIInv, DeletesAlone, NEW o \in SnapOps, DeleteTruncate(o) PROVE SnapIInv'
<1> USE DEF DeleteTruncate, Truncates, Goto
<1>1. IndexTyped'
  BY SMT DEF SnapIInv, SnapSafe, TypeOK, IndexTyped
<1>2. TypeOK'
  BY SMT, <1>1 DEF SnapIInv, SnapSafe, TypeOK
<1>3. EntriesLead'
  BY SMT DEF SnapIInv, SnapSafe, TypeOK, EntriesLead, Leads, Missing
<1>4. EntriesExact'
  BY SMT DEF SnapIInv, SnapSafe, TypeOK, EntriesExact, Exact
<1>5. LimitAndNames'
  BY SMT DEF SnapIInv, SnapSafe, TypeOK, LimitAndNames, Distinct
<1>6. IndexCurrent'
  BY SMT DEF SnapIInv, SnapSafe, TypeOK, IndexCurrent
<1>7. PayloadsOwned'
  <2> SUFFICES ASSUME NEW i \in SnapIds, ~Missing(i)', i \notin listed', ~May("kill")'
               PROVE  \E q \in SnapOps : Creates(q)' /\ sid'[q] = i
    BY DEF PayloadsOwned
  <2>1. PICK q \in SnapOps : Creates(q) /\ sid[q] = i
    BY DEF SnapIInv, SnapSafe, TypeOK, PayloadsOwned, Missing
  <2>2. Creates(q)' /\ sid'[q] = i
    BY <2>1 DEF SnapIInv, SnapSafe, TypeOK, Creates, Reverts
  <2>3. QED BY <2>2
<1>8. MachineOfOneMoment'
  BY SMT DEF SnapIInv, SnapSafe, TypeOK, MachineOfOneMoment
<1>9. Turns'
  BY SMT DEF SnapIInv, SnapSafe, TypeOK, Turns, Busy, Deletes
<1>10. OneHolder'
  BY SMT DEF SnapIInv, SnapSafe, TypeOK, OneHolder, Creates, Reverts
<1>11. CopiesCurrent'
  BY SMT, HolderAlone DEF SnapIInv, SnapSafe, TypeOK, CopiesCurrent, CopyCurrent, Creates, Deletes,
      Leads, Missing, Exact
<1>12. NewPayload'
  BY SMT DEF SnapIInv, SnapSafe, TypeOK, NewPayload, Creates, Acceptable
<1>13. Emptied'
  BY SMT DEF SnapIInv, SnapSafe, TypeOK, Emptied, Deletes, Missing
<1>14. PutBack'
  BY SMT DEF SnapIInv, SnapSafe, TypeOK, PutBack, Reverts
<1>15. QED BY <1>1, <1>2, <1>3, <1>4, <1>5, <1>6, <1>7, <1>8, <1>9, <1>10, <1>11, <1>12, <1>13, <1>14
    DEF SnapIInv, SnapSafe

LEMMA DeleteIndexKeeps == ASSUME SnapIInv, DeletesAlone, NEW o \in SnapOps, DeleteIndex(o) PROVE SnapIInv'
<1>a. /\ json' = "whole" /\ index' \in Seq(Entries) /\ Distinct(index') /\ IdsOf(index') = listed'
      /\ \A k \in DOMAIN index' : \E j \in DOMAIN sidx[o] : index'[k] = sidx[o][j] /\ sidx[o][j].id # sid[o]
  BY IndexDeleted
<1> USE DEF DeleteIndex, Ends
<1>1. IndexTyped'
  BY SMT, <1>a, EntriesListed DEF SnapIInv, SnapSafe, TypeOK, IndexTyped, Emptied, Deletes,
      CopiesCurrent, CopyCurrent
<1>2. TypeOK'
  BY SMT, <1>1, <1>a DEF SnapIInv, SnapSafe, TypeOK
<1>3. EntriesLead'
  BY SMT, <1>a, EntriesListed DEF SnapIInv, SnapSafe, TypeOK, EntriesLead, Leads, Missing, Emptied,
      Deletes, CopiesCurrent, CopyCurrent
<1>4. EntriesExact'
  BY SMT, <1>a, EntriesListed DEF SnapIInv, SnapSafe, TypeOK, EntriesExact, Exact, Emptied, Deletes,
      CopiesCurrent, CopyCurrent
<1>5. LimitAndNames'
  BY SMT, <1>a, EntriesListed DEF SnapIInv, SnapSafe, TypeOK, LimitAndNames, Emptied, Deletes,
      CopiesCurrent, CopyCurrent
<1>6. IndexCurrent'
  BY SMT, <1>a, EntriesListed DEF SnapIInv, SnapSafe, TypeOK, IndexCurrent, Emptied, Deletes,
      CopiesCurrent, CopyCurrent
<1>7. PayloadsOwned'
  <2> SUFFICES ASSUME NEW i \in SnapIds, ~Missing(i)', i \notin listed', ~May("kill")'
               PROVE  \E q \in SnapOps : Creates(q)' /\ sid'[q] = i
    BY DEF PayloadsOwned
  <2>1. PICK q \in SnapOps : Creates(q) /\ sid[q] = i
    BY DEF SnapIInv, SnapSafe, TypeOK, PayloadsOwned, Missing, Emptied, Deletes
  <2>2. Creates(q)' /\ sid'[q] = i
    BY <2>1 DEF SnapIInv, SnapSafe, TypeOK, Creates, Reverts
  <2>3. QED BY <2>2
<1>8. MachineOfOneMoment'
  BY SMT DEF SnapIInv, SnapSafe, TypeOK, MachineOfOneMoment
<1>9. Turns'
  BY SMT DEF SnapIInv, SnapSafe, TypeOK, Turns, Busy, Deletes
<1>10. OneHolder'
  BY SMT DEF SnapIInv, SnapSafe, TypeOK, OneHolder, Creates, Reverts
<1>11. CopiesCurrent'
  BY SMTT(30), HolderAlone, EntriesListed DEF SnapIInv, SnapSafe, TypeOK, CopiesCurrent, CopyCurrent,
      Creates, Deletes, Leads, Missing, Exact, NewPayload
<1>12. NewPayload'
  BY SMT, HolderAlone, EntriesListed DEF SnapIInv, SnapSafe, TypeOK, NewPayload, Creates, Acceptable,
      Deletes
<1>13. Emptied'
  BY SMT, HolderAlone, EntriesListed DEF SnapIInv, SnapSafe, TypeOK, Emptied, Deletes, Missing,
      NewPayload, Creates
<1>14. PutBack'
  BY SMT, HolderAlone, EntriesListed DEF SnapIInv, SnapSafe, TypeOK, PutBack, Reverts, NewPayload,
      Creates, Deletes
<1>15. QED BY <1>1, <1>2, <1>3, <1>4, <1>5, <1>6, <1>7, <1>8, <1>9, <1>10, <1>11, <1>12, <1>13, <1>14
    DEF SnapIInv, SnapSafe

LEMMA RevertStoppedKeeps == ASSUME SnapIInv, DeletesAlone, NEW o \in SnapOps, RevertStopped(o) PROVE SnapIInv'
<1> USE DEF RevertStopped, RevertBegins, Starts, Free, Unlocked, Busy
<1>1. IndexTyped'
  BY SMT DEF SnapIInv, SnapSafe, TypeOK, IndexTyped
<1>2. EntriesLead' /\ EntriesExact' /\ LimitAndNames' /\ IndexCurrent'
  BY DEF SnapIInv, SnapSafe, TypeOK, EntriesLead, Leads, Missing, EntriesExact, Exact, LimitAndNames,
      IndexCurrent
<1>3. TypeOK'
  BY SMT, <1>1, EntriesListed DEF SnapIInv, SnapSafe, TypeOK
<1>4. PayloadsOwned'
  BY SMT DEF SnapIInv, SnapSafe, TypeOK, PayloadsOwned, Missing, Creates
<1>5. MachineOfOneMoment'
  BY SMT DEF SnapIInv, SnapSafe, TypeOK, MachineOfOneMoment
<1>6. Turns'
  BY SMT DEF SnapIInv, SnapSafe, TypeOK, Turns, Busy, Deletes
<1>7. OneHolder'
  BY SMT DEF SnapIInv, SnapSafe, TypeOK, OneHolder, Creates, Reverts
<1>8. CopiesCurrent'
  BY SMT DEF SnapIInv, SnapSafe, TypeOK, CopiesCurrent, CopyCurrent, Creates, Deletes, Leads, Missing,
      Exact
<1>9. NewPayload'
  BY SMT DEF SnapIInv, SnapSafe, TypeOK, NewPayload, Creates, Acceptable
<1>10. Emptied'
  BY SMT DEF SnapIInv, SnapSafe, TypeOK, Emptied, Deletes, Missing
<1>11. PutBack'
  BY SMT, EntriesListed DEF SnapIInv, SnapSafe, TypeOK, PutBack, Reverts, EntriesLead, EntriesExact,
      Leads, Exact, Missing, Emptied
<1>12. QED BY <1>1, <1>2, <1>3, <1>4, <1>5, <1>6, <1>7, <1>8, <1>9, <1>10, <1>11 DEF SnapIInv, SnapSafe

LEMMA RevertLiveKeeps == ASSUME SnapIInv, DeletesAlone, NEW o \in SnapOps, RevertLive(o) PROVE SnapIInv'
<1> USE DEF RevertLive, RevertBegins, Starts, Free, Busy
<1>1. IndexTyped'
  BY SMT DEF SnapIInv, SnapSafe, TypeOK, IndexTyped
<1>2. EntriesLead' /\ EntriesExact' /\ LimitAndNames' /\ IndexCurrent'
  BY DEF SnapIInv, SnapSafe, TypeOK, EntriesLead, Leads, Missing, EntriesExact, Exact, LimitAndNames,
      IndexCurrent
<1>3. TypeOK'
  BY SMT, <1>1, EntriesListed DEF SnapIInv, SnapSafe, TypeOK
<1>4. PayloadsOwned'
  BY SMT DEF SnapIInv, SnapSafe, TypeOK, PayloadsOwned, Missing, Creates
<1>5. MachineOfOneMoment'
  BY SMT DEF SnapIInv, SnapSafe, TypeOK, MachineOfOneMoment
<1>6. Turns'
  BY SMT DEF SnapIInv, SnapSafe, TypeOK, Turns, Busy, Deletes
<1>7. OneHolder'
  BY SMT DEF SnapIInv, SnapSafe, TypeOK, OneHolder, Creates, Reverts
<1>8. CopiesCurrent'
  BY SMT DEF SnapIInv, SnapSafe, TypeOK, CopiesCurrent, CopyCurrent, Creates, Deletes, Leads, Missing,
      Exact
<1>9. NewPayload'
  BY SMT DEF SnapIInv, SnapSafe, TypeOK, NewPayload, Creates, Acceptable
<1>10. Emptied'
  BY SMT DEF SnapIInv, SnapSafe, TypeOK, Emptied, Deletes, Missing
<1>11. PutBack'
  BY SMT, EntriesListed DEF SnapIInv, SnapSafe, TypeOK, PutBack, Reverts, EntriesLead, EntriesExact,
      Leads, Exact, Missing, Emptied
<1>12. QED BY <1>1, <1>2, <1>3, <1>4, <1>5, <1>6, <1>7, <1>8, <1>9, <1>10, <1>11 DEF SnapIInv, SnapSafe

LEMMA RevertMissingKeeps == ASSUME SnapIInv, DeletesAlone, NEW o \in SnapOps, RevertMissing(o) PROVE SnapIInv'
<1> USE DEF RevertMissing
<1>1. IndexTyped' /\ EntriesLead' /\ EntriesExact' /\ LimitAndNames' /\ IndexCurrent' /\ PayloadsOwned' /\ MachineOfOneMoment' /\ Turns' /\ CopiesCurrent' /\ NewPayload' /\ Emptied' /\ PutBack'
  BY DEF SnapIInv, SnapSafe, TypeOK, IndexTyped, EntriesLead, Leads, Missing, EntriesExact, Exact,
      LimitAndNames, IndexCurrent, PayloadsOwned, Creates, MachineOfOneMoment, Turns, Busy, Deletes,
      CopiesCurrent, CopyCurrent, NewPayload, Acceptable, Emptied, PutBack, Reverts
<1>2. TypeOK'
  BY SMT, <1>1 DEF SnapIInv, SnapSafe, TypeOK
<1>3. OneHolder'
  BY SMT DEF SnapIInv, SnapSafe, TypeOK, OneHolder, Creates, Reverts
<1>4. QED BY <1>1, <1>2, <1>3 DEF SnapIInv, SnapSafe

LEMMA RelaunchKeeps == ASSUME SnapIInv, DeletesAlone, NEW o \in SnapOps, Relaunch(o) PROVE SnapIInv'
<1> USE DEF Relaunch, Goto, Free, Busy
<1>1. IndexTyped' /\ EntriesLead' /\ EntriesExact' /\ LimitAndNames' /\ IndexCurrent'
  BY DEF SnapIInv, SnapSafe, TypeOK, IndexTyped, EntriesLead, Leads, Missing, EntriesExact, Exact,
      LimitAndNames, IndexCurrent
<1>2. TypeOK'
  BY SMT, <1>1 DEF SnapIInv, SnapSafe, TypeOK
<1>3. PayloadsOwned'
  BY SMT DEF SnapIInv, SnapSafe, TypeOK, PayloadsOwned, Missing, Creates
<1>4. MachineOfOneMoment'
  BY SMT DEF SnapIInv, SnapSafe, TypeOK, MachineOfOneMoment
<1>5. Turns'
  BY SMT DEF SnapIInv, SnapSafe, TypeOK, Turns, Busy, Deletes
<1>6. OneHolder'
  BY SMT DEF SnapIInv, SnapSafe, TypeOK, OneHolder, Creates, Reverts
<1>7. CopiesCurrent'
  BY SMT DEF SnapIInv, SnapSafe, TypeOK, CopiesCurrent, CopyCurrent, Creates, Deletes, Leads, Missing,
      Exact
<1>8. NewPayload'
  BY SMT DEF SnapIInv, SnapSafe, TypeOK, NewPayload, Creates, Acceptable
<1>9. Emptied'
  BY SMT DEF SnapIInv, SnapSafe, TypeOK, Emptied, Deletes, Missing
<1>10. PutBack'
  BY SMT DEF SnapIInv, SnapSafe, TypeOK, PutBack, Reverts
<1>11. QED BY <1>1, <1>2, <1>3, <1>4, <1>5, <1>6, <1>7, <1>8, <1>9, <1>10 DEF SnapIInv, SnapSafe

LEMMA WakesStoppedKeeps == ASSUME SnapIInv, DeletesAlone, NEW o \in SnapOps, WakesStopped(o) PROVE SnapIInv'
<1> USE DEF WakesStopped, RevertBegins, Starts, Unlocked
<1>1. IndexTyped'
  BY SMT DEF SnapIInv, SnapSafe, TypeOK, IndexTyped
<1>2. EntriesLead' /\ EntriesExact' /\ LimitAndNames' /\ IndexCurrent'
  BY DEF SnapIInv, SnapSafe, TypeOK, EntriesLead, Leads, Missing, EntriesExact, Exact, LimitAndNames,
      IndexCurrent
<1>3. TypeOK'
  BY SMT, <1>1, EntriesListed DEF SnapIInv, SnapSafe, TypeOK
<1>4. PayloadsOwned'
  BY SMT DEF SnapIInv, SnapSafe, TypeOK, PayloadsOwned, Missing, Creates
<1>5. MachineOfOneMoment'
  BY SMT DEF SnapIInv, SnapSafe, TypeOK, MachineOfOneMoment
<1>6. Turns'
  BY SMT DEF SnapIInv, SnapSafe, TypeOK, Turns, Busy, Deletes
<1>7. OneHolder'
  BY SMT DEF SnapIInv, SnapSafe, TypeOK, OneHolder, Creates, Reverts
<1>8. CopiesCurrent'
  BY SMT DEF SnapIInv, SnapSafe, TypeOK, CopiesCurrent, CopyCurrent, Creates, Deletes, Leads, Missing,
      Exact
<1>9. NewPayload'
  BY SMT DEF SnapIInv, SnapSafe, TypeOK, NewPayload, Creates, Acceptable
<1>10. Emptied'
  BY SMT DEF SnapIInv, SnapSafe, TypeOK, Emptied, Deletes, Missing
<1>11. PutBack'
  BY SMT, EntriesListed DEF SnapIInv, SnapSafe, TypeOK, PutBack, Reverts, EntriesLead, EntriesExact,
      Leads, Exact, Missing, Emptied
<1>12. QED BY <1>1, <1>2, <1>3, <1>4, <1>5, <1>6, <1>7, <1>8, <1>9, <1>10, <1>11 DEF SnapIInv, SnapSafe

LEMMA WakesLiveKeeps == ASSUME SnapIInv, DeletesAlone, NEW o \in SnapOps, WakesLive(o) PROVE SnapIInv'
<1> USE DEF WakesLive, RevertBegins, Starts
<1>1. IndexTyped'
  BY SMT DEF SnapIInv, SnapSafe, TypeOK, IndexTyped
<1>2. EntriesLead' /\ EntriesExact' /\ LimitAndNames' /\ IndexCurrent'
  BY DEF SnapIInv, SnapSafe, TypeOK, EntriesLead, Leads, Missing, EntriesExact, Exact, LimitAndNames,
      IndexCurrent
<1>3. TypeOK'
  BY SMT, <1>1, EntriesListed DEF SnapIInv, SnapSafe, TypeOK
<1>4. PayloadsOwned'
  BY SMT DEF SnapIInv, SnapSafe, TypeOK, PayloadsOwned, Missing, Creates
<1>5. MachineOfOneMoment'
  BY SMT DEF SnapIInv, SnapSafe, TypeOK, MachineOfOneMoment
<1>6. Turns'
  BY SMT DEF SnapIInv, SnapSafe, TypeOK, Turns, Busy, Deletes
<1>7. OneHolder'
  BY SMT DEF SnapIInv, SnapSafe, TypeOK, OneHolder, Creates, Reverts
<1>8. CopiesCurrent'
  BY SMT DEF SnapIInv, SnapSafe, TypeOK, CopiesCurrent, CopyCurrent, Creates, Deletes, Leads, Missing,
      Exact
<1>9. NewPayload'
  BY SMT DEF SnapIInv, SnapSafe, TypeOK, NewPayload, Creates, Acceptable
<1>10. Emptied'
  BY SMT DEF SnapIInv, SnapSafe, TypeOK, Emptied, Deletes, Missing
<1>11. PutBack'
  BY SMT, EntriesListed DEF SnapIInv, SnapSafe, TypeOK, PutBack, Reverts, EntriesLead, EntriesExact,
      Leads, Exact, Missing, Emptied
<1>12. QED BY <1>1, <1>2, <1>3, <1>4, <1>5, <1>6, <1>7, <1>8, <1>9, <1>10, <1>11 DEF SnapIInv, SnapSafe

LEMMA WakesLateKeeps == ASSUME SnapIInv, DeletesAlone, NEW o \in SnapOps, WakesLate(o) PROVE SnapIInv'
<1> USE DEF WakesLate, Ends
<1>1. IndexTyped'
  BY SMT DEF SnapIInv, SnapSafe, TypeOK, IndexTyped
<1>2. EntriesLead' /\ EntriesExact' /\ LimitAndNames' /\ IndexCurrent'
  BY DEF SnapIInv, SnapSafe, TypeOK, EntriesLead, Leads, Missing, EntriesExact, Exact, LimitAndNames,
      IndexCurrent
<1>3. TypeOK'
  BY SMT, <1>1 DEF SnapIInv, SnapSafe, TypeOK
<1>4. PayloadsOwned'
  <2> SUFFICES ASSUME NEW i \in SnapIds, ~Missing(i)', i \notin listed', ~May("kill")'
               PROVE  \E q \in SnapOps : Creates(q)' /\ sid'[q] = i
    BY DEF PayloadsOwned
  <2>1. PICK q \in SnapOps : Creates(q) /\ sid[q] = i
    BY DEF SnapIInv, SnapSafe, TypeOK, PayloadsOwned, Missing
  <2>2. Creates(q)' /\ sid'[q] = i
    BY <2>1 DEF SnapIInv, SnapSafe, TypeOK, Creates, Reverts
  <2>3. QED BY <2>2
<1>5. MachineOfOneMoment'
  BY SMT DEF SnapIInv, SnapSafe, TypeOK, MachineOfOneMoment
<1>6. Turns'
  BY SMT DEF SnapIInv, SnapSafe, TypeOK, Turns, Busy, Deletes
<1>7. OneHolder'
  BY SMT DEF SnapIInv, SnapSafe, TypeOK, OneHolder, Creates, Reverts
<1>8. CopiesCurrent'
  BY SMT DEF SnapIInv, SnapSafe, TypeOK, CopiesCurrent, CopyCurrent, Creates, Deletes, Leads, Missing,
      Exact
<1>9. NewPayload'
  BY SMT DEF SnapIInv, SnapSafe, TypeOK, NewPayload, Creates, Acceptable
<1>10. Emptied'
  BY SMT DEF SnapIInv, SnapSafe, TypeOK, Emptied, Deletes, Missing
<1>11. PutBack'
  BY SMT DEF SnapIInv, SnapSafe, TypeOK, PutBack, Reverts
<1>12. QED BY <1>1, <1>2, <1>3, <1>4, <1>5, <1>6, <1>7, <1>8, <1>9, <1>10, <1>11 DEF SnapIInv, SnapSafe

LEMMA RevertDiskKeeps == ASSUME SnapIInv, DeletesAlone, NEW o \in SnapOps, RevertDisk(o) PROVE SnapIInv'
<1> USE DEF RevertDisk, Goto
<1>1. IndexTyped' /\ EntriesLead' /\ EntriesExact' /\ LimitAndNames' /\ IndexCurrent'
  BY DEF SnapIInv, SnapSafe, TypeOK, IndexTyped, EntriesLead, Leads, Missing, EntriesExact, Exact,
      LimitAndNames, IndexCurrent
<1>2. TypeOK'
  BY SMT, <1>1 DEF SnapIInv, SnapSafe, TypeOK, PutBack, Reverts
<1>3. PayloadsOwned'
  BY SMT DEF SnapIInv, SnapSafe, TypeOK, PayloadsOwned, Missing, Creates
<1>4. MachineOfOneMoment'
  BY SMT, HolderAlone DEF SnapIInv, SnapSafe, TypeOK, MachineOfOneMoment, PutBack, Reverts
<1>5. Turns'
  BY SMT DEF SnapIInv, SnapSafe, TypeOK, Turns, Busy, Deletes
<1>6. OneHolder'
  BY SMT DEF SnapIInv, SnapSafe, TypeOK, OneHolder, Creates, Reverts
<1>7. CopiesCurrent'
  BY SMT, HolderAlone DEF SnapIInv, SnapSafe, TypeOK, CopiesCurrent, CopyCurrent, Creates, Deletes,
      Leads, Missing, Exact, PutBack, Reverts
<1>8. NewPayload'
  BY SMT, HolderAlone DEF SnapIInv, SnapSafe, TypeOK, NewPayload, Creates, Acceptable, PutBack, Reverts
<1>9. Emptied'
  BY SMT DEF SnapIInv, SnapSafe, TypeOK, Emptied, Deletes, Missing
<1>10. PutBack'
  BY SMT, HolderAlone DEF SnapIInv, SnapSafe, TypeOK, PutBack, Reverts
<1>11. QED BY <1>1, <1>2, <1>3, <1>4, <1>5, <1>6, <1>7, <1>8, <1>9, <1>10 DEF SnapIInv, SnapSafe

LEMMA RevertFirmwareKeeps == ASSUME SnapIInv, DeletesAlone, NEW o \in SnapOps, RevertFirmware(o) PROVE SnapIInv'
<1> USE DEF RevertFirmware, Goto
<1>1. IndexTyped' /\ EntriesLead' /\ EntriesExact' /\ LimitAndNames' /\ IndexCurrent'
  BY DEF SnapIInv, SnapSafe, TypeOK, IndexTyped, EntriesLead, Leads, Missing, EntriesExact, Exact,
      LimitAndNames, IndexCurrent
<1>2. TypeOK'
  BY SMT, <1>1 DEF SnapIInv, SnapSafe, TypeOK, PutBack, Reverts
<1>3. PayloadsOwned'
  BY SMT DEF SnapIInv, SnapSafe, TypeOK, PayloadsOwned, Missing, Creates
<1>4. MachineOfOneMoment'
  BY SMT, HolderAlone DEF SnapIInv, SnapSafe, TypeOK, MachineOfOneMoment, PutBack, Reverts
<1>5. Turns'
  BY SMT DEF SnapIInv, SnapSafe, TypeOK, Turns, Busy, Deletes
<1>6. OneHolder'
  BY SMT DEF SnapIInv, SnapSafe, TypeOK, OneHolder, Creates, Reverts
<1>7. CopiesCurrent'
  BY SMT, HolderAlone DEF SnapIInv, SnapSafe, TypeOK, CopiesCurrent, CopyCurrent, Creates, Deletes,
      Leads, Missing, Exact, PutBack, Reverts
<1>8. NewPayload'
  BY SMTT(30), HolderAlone DEF SnapIInv, SnapSafe, TypeOK, NewPayload, Creates, Acceptable, PutBack, Reverts
<1>9. Emptied'
  BY SMT DEF SnapIInv, SnapSafe, TypeOK, Emptied, Deletes, Missing
<1>10. PutBack'
  BY SMT, HolderAlone DEF SnapIInv, SnapSafe, TypeOK, PutBack, Reverts
<1>11. QED BY <1>1, <1>2, <1>3, <1>4, <1>5, <1>6, <1>7, <1>8, <1>9, <1>10 DEF SnapIInv, SnapSafe

LEMMA RevertStateKeeps == ASSUME SnapIInv, DeletesAlone, NEW o \in SnapOps, RevertState(o) PROVE SnapIInv'
<1> USE DEF RevertState, Ends, Resumes
<1>1. IndexTyped'
  BY SMT DEF SnapIInv, SnapSafe, TypeOK, IndexTyped
<1>2. EntriesLead' /\ EntriesExact' /\ LimitAndNames' /\ IndexCurrent'
  BY DEF SnapIInv, SnapSafe, TypeOK, EntriesLead, Leads, Missing, EntriesExact, Exact, LimitAndNames,
      IndexCurrent
<1>3. TypeOK'
  BY SMT, <1>1 DEF SnapIInv, SnapSafe, TypeOK, PutBack, Reverts
<1>4. PayloadsOwned'
  <2> SUFFICES ASSUME NEW i \in SnapIds, ~Missing(i)', i \notin listed', ~May("kill")'
               PROVE  \E q \in SnapOps : Creates(q)' /\ sid'[q] = i
    BY DEF PayloadsOwned
  <2>1. PICK q \in SnapOps : Creates(q) /\ sid[q] = i
    BY DEF SnapIInv, SnapSafe, TypeOK, PayloadsOwned, Missing
  <2>2. Creates(q)' /\ sid'[q] = i
    BY <2>1 DEF SnapIInv, SnapSafe, TypeOK, Creates, Reverts
  <2>3. QED BY <2>2
<1>5. MachineOfOneMoment'
  <2>1. \A q \in SnapOps : spc[q] \in {"r_fw", "r_state"} => q = o
    BY HolderAlone DEF SnapIInv, SnapSafe, TypeOK, Reverts
  <2>2. PutBack /\ o \in SnapOps /\ spc[o] = "r_state"
    BY DEF SnapIInv
  <2>3. halved \/ (vfw = vdisk /\ pstate[sid[o]] \in {0, vdisk})
    BY <2>2 DEF PutBack, Reverts
  <2>4. halved' \/ (vfw' = vdisk' /\ vstate' \in {0, vdisk'})
    BY <2>3
  <2>5. QED BY <2>4 DEF MachineOfOneMoment
<1>6. Turns'
  BY SMT DEF SnapIInv, SnapSafe, TypeOK, Turns, Busy, Deletes
<1>7. OneHolder'
  BY SMT DEF SnapIInv, SnapSafe, TypeOK, OneHolder, Creates, Reverts
<1>8. CopiesCurrent'
  BY SMTT(30), HolderAlone DEF SnapIInv, SnapSafe, TypeOK, CopiesCurrent, CopyCurrent, Creates, Deletes,
      Leads, Missing, Exact, PutBack, Reverts
<1>9. NewPayload'
  BY SMTT(30), HolderAlone DEF SnapIInv, SnapSafe, TypeOK, NewPayload, Creates, Acceptable, PutBack, Reverts
<1>10. Emptied'
  BY SMT DEF SnapIInv, SnapSafe, TypeOK, Emptied, Deletes, Missing
<1>11. PutBack'
  BY SMT, HolderAlone DEF SnapIInv, SnapSafe, TypeOK, PutBack, Reverts
<1>12. QED BY <1>1, <1>2, <1>3, <1>4, <1>5, <1>6, <1>7, <1>8, <1>9, <1>10, <1>11 DEF SnapIInv, SnapSafe

LEMMA RevertFailsKeeps == ASSUME SnapIInv, DeletesAlone, NEW o \in SnapOps, RevertFails(o) PROVE SnapIInv'
<1> USE DEF RevertFails, Ends
<1>1. IndexTyped'
  BY SMT DEF SnapIInv, SnapSafe, TypeOK, IndexTyped
<1>2. EntriesLead' /\ LimitAndNames' /\ IndexCurrent'
  BY DEF SnapIInv, SnapSafe, TypeOK, EntriesLead, Leads, Missing, LimitAndNames, IndexCurrent
<1>3. TypeOK'
  BY SMT, <1>1 DEF SnapIInv, SnapSafe, TypeOK
<1>4. EntriesExact'
  BY SMT DEF SnapIInv, SnapSafe, TypeOK, EntriesExact, Exact
<1>5. PayloadsOwned'
  <2> SUFFICES ASSUME NEW i \in SnapIds, ~Missing(i)', i \notin listed', ~May("kill")'
               PROVE  \E q \in SnapOps : Creates(q)' /\ sid'[q] = i
    BY DEF PayloadsOwned
  <2>1. PICK q \in SnapOps : Creates(q) /\ sid[q] = i
    BY DEF SnapIInv, SnapSafe, TypeOK, PayloadsOwned, Missing
  <2>2. Creates(q)' /\ sid'[q] = i
    BY <2>1 DEF SnapIInv, SnapSafe, TypeOK, Creates, Reverts
  <2>3. QED BY <2>2
<1>6. MachineOfOneMoment'
  <2> SUFFICES ASSUME ~halved' PROVE (\E q \in SnapOps : spc'[q] \in {"r_fw", "r_state"}) \/ (vfw' = vdisk' /\ vstate' \in {0, vdisk'})
    BY DEF MachineOfOneMoment
  <2>1. ~halved /\ spc[o] \notin {"r_fw", "r_state"}
    BY DEF Reverts
  <2>2. CASE \E q \in SnapOps : spc[q] \in {"r_fw", "r_state"}
    BY SMT, <2>1, <2>2 DEF SnapIInv, SnapSafe, TypeOK
  <2>3. CASE vfw = vdisk /\ vstate \in {0, vdisk}
    BY <2>3
  <2>4. QED BY <2>1, <2>2, <2>3 DEF SnapIInv, SnapSafe, MachineOfOneMoment
<1>7. Turns'
  BY SMT DEF SnapIInv, SnapSafe, TypeOK, Turns, Busy, Deletes
<1>8. OneHolder'
  BY SMT DEF SnapIInv, SnapSafe, TypeOK, OneHolder, Creates, Reverts
<1>9. CopiesCurrent'
  BY SMT DEF SnapIInv, SnapSafe, TypeOK, CopiesCurrent, CopyCurrent, Creates, Deletes, Leads, Missing,
      Exact
<1>10. NewPayload'
  BY SMT DEF SnapIInv, SnapSafe, TypeOK, NewPayload, Creates, Acceptable
<1>11. Emptied'
  BY SMT DEF SnapIInv, SnapSafe, TypeOK, Emptied, Deletes, Missing
<1>12. PutBack'
  BY SMT DEF SnapIInv, SnapSafe, TypeOK, PutBack, Reverts
<1>13. QED BY <1>1, <1>2, <1>3, <1>4, <1>5, <1>6, <1>7, <1>8, <1>9, <1>10, <1>11, <1>12
    DEF SnapIInv, SnapSafe

LEMMA KillRunKeeps == ASSUME SnapIInv, DeletesAlone, KillRun PROVE SnapIInv'
<1> USE DEF KillRun
<1>1. IndexTyped' /\ EntriesLead' /\ EntriesExact' /\ LimitAndNames' /\ IndexCurrent' /\ PayloadsOwned' /\ MachineOfOneMoment' /\ Turns' /\ CopiesCurrent' /\ NewPayload' /\ Emptied' /\ PutBack'
  BY DEF SnapIInv, SnapSafe, TypeOK, IndexTyped, EntriesLead, Leads, Missing, EntriesExact, Exact,
      LimitAndNames, IndexCurrent, PayloadsOwned, Creates, MachineOfOneMoment, Turns, Busy, Deletes,
      CopiesCurrent, CopyCurrent, NewPayload, Acceptable, Emptied, PutBack, Reverts
<1>2. TypeOK'
  BY SMT, <1>1 DEF SnapIInv, SnapSafe, TypeOK
<1>3. OneHolder'
  BY SMT DEF SnapIInv, SnapSafe, TypeOK, OneHolder, Creates, Reverts
<1>4. QED BY <1>1, <1>2, <1>3 DEF SnapIInv, SnapSafe

LEMMA KillRunWithKeeps == ASSUME SnapIInv, DeletesAlone, NEW o \in SnapOps, KillRunWith(o) PROVE SnapIInv'
<1> USE DEF KillRunWith, Cut, Ends
<1>1. IndexTyped'
  BY SMT DEF SnapIInv, SnapSafe, TypeOK, IndexTyped
<1>2. EntriesLead' /\ LimitAndNames' /\ IndexCurrent'
  BY DEF SnapIInv, SnapSafe, TypeOK, EntriesLead, Leads, Missing, LimitAndNames, IndexCurrent
<1>3. TypeOK'
  BY SMT, <1>1 DEF SnapIInv, SnapSafe, TypeOK
<1>4. EntriesExact'
  BY SMT DEF SnapIInv, SnapSafe, TypeOK, EntriesExact, Exact
<1>5. PayloadsOwned'
  BY SMT DEF SnapIInv, SnapSafe, TypeOK, PayloadsOwned, Missing, Creates
<1>6. MachineOfOneMoment'
  <2> SUFFICES ASSUME ~halved' PROVE (\E q \in SnapOps : spc'[q] \in {"r_fw", "r_state"}) \/ (vfw' = vdisk' /\ vstate' \in {0, vdisk'})
    BY DEF MachineOfOneMoment
  <2>1. ~halved /\ spc[o] \notin {"r_fw", "r_state"}
    BY DEF Reverts
  <2>2. CASE \E q \in SnapOps : spc[q] \in {"r_fw", "r_state"}
    BY SMT, <2>1, <2>2 DEF SnapIInv, SnapSafe, TypeOK
  <2>3. CASE vfw = vdisk /\ vstate \in {0, vdisk}
    BY <2>3
  <2>4. QED BY <2>1, <2>2, <2>3 DEF SnapIInv, SnapSafe, MachineOfOneMoment
<1>7. Turns'
  BY SMT DEF SnapIInv, SnapSafe, TypeOK, Turns, Busy, Deletes
<1>8. OneHolder'
  BY HolderAlone DEF SnapIInv, SnapSafe, TypeOK, OneHolder, Creates, Reverts
<1>9. CopiesCurrent'
  BY SMT DEF SnapIInv, SnapSafe, TypeOK, CopiesCurrent, CopyCurrent, Creates, Deletes, Leads, Missing,
      Exact
<1>10. NewPayload'
  BY SMT DEF SnapIInv, SnapSafe, TypeOK, NewPayload, Creates, Acceptable
<1>11. Emptied'
  BY SMT DEF SnapIInv, SnapSafe, TypeOK, Emptied, Deletes, Missing
<1>12. PutBack'
  BY SMT DEF SnapIInv, SnapSafe, TypeOK, PutBack, Reverts
<1>13. QED BY <1>1, <1>2, <1>3, <1>4, <1>5, <1>6, <1>7, <1>8, <1>9, <1>10, <1>11, <1>12
    DEF SnapIInv, SnapSafe

LEMMA KillOpKeeps == ASSUME SnapIInv, DeletesAlone, NEW o \in SnapOps, KillOp(o) PROVE SnapIInv'
<1> USE DEF KillOp, Cut, Ends, Busy
<1>1. IndexTyped'
  BY SMT DEF SnapIInv, SnapSafe, TypeOK, IndexTyped
<1>2. EntriesLead' /\ LimitAndNames' /\ IndexCurrent'
  BY DEF SnapIInv, SnapSafe, TypeOK, EntriesLead, Leads, Missing, LimitAndNames, IndexCurrent
<1>3. TypeOK'
  BY SMT, <1>1 DEF SnapIInv, SnapSafe, TypeOK
<1>4. EntriesExact'
  BY SMT DEF SnapIInv, SnapSafe, TypeOK, EntriesExact, Exact
<1>5. PayloadsOwned'
  BY SMT DEF SnapIInv, SnapSafe, TypeOK, PayloadsOwned, Missing, Creates
<1>6. MachineOfOneMoment'
  <2> SUFFICES ASSUME ~halved' PROVE (\E q \in SnapOps : spc'[q] \in {"r_fw", "r_state"}) \/ (vfw' = vdisk' /\ vstate' \in {0, vdisk'})
    BY DEF MachineOfOneMoment
  <2>1. ~halved /\ spc[o] \notin {"r_fw", "r_state"}
    BY DEF Reverts
  <2>2. CASE \E q \in SnapOps : spc[q] \in {"r_fw", "r_state"}
    BY SMT, <2>1, <2>2 DEF SnapIInv, SnapSafe, TypeOK
  <2>3. CASE vfw = vdisk /\ vstate \in {0, vdisk}
    BY <2>3
  <2>4. QED BY <2>1, <2>2, <2>3 DEF SnapIInv, SnapSafe, MachineOfOneMoment
<1>7. Turns'
  BY SMT DEF SnapIInv, SnapSafe, TypeOK, Turns, Busy, Deletes
<1>8. OneHolder'
  BY SMT DEF SnapIInv, SnapSafe, TypeOK, OneHolder, Creates, Reverts
<1>9. CopiesCurrent'
  BY SMT DEF SnapIInv, SnapSafe, TypeOK, CopiesCurrent, CopyCurrent, Creates, Deletes, Leads, Missing,
      Exact
<1>10. NewPayload'
  BY SMT DEF SnapIInv, SnapSafe, TypeOK, NewPayload, Creates, Acceptable
<1>11. Emptied'
  BY SMT DEF SnapIInv, SnapSafe, TypeOK, Emptied, Deletes, Missing
<1>12. PutBack'
  BY SMT DEF SnapIInv, SnapSafe, TypeOK, PutBack, Reverts
<1>13. QED BY <1>1, <1>2, <1>3, <1>4, <1>5, <1>6, <1>7, <1>8, <1>9, <1>10, <1>11, <1>12
    DEF SnapIInv, SnapSafe

LEMMA InitSnapIInv == Init => SnapIInv
<1> SUFFICES ASSUME Init PROVE SnapIInv
  OBVIOUS
<1>1. SnapSafe
  <2>1. IndexTyped
    BY DEF Init, IndexTyped
  <2>2. TypeOK
    <3>1. moment \in 1..SnapMoments /\ vdisk \in 1..SnapMoments /\ vfw \in 1..SnapMoments /\ vstate \in 0..SnapMoments
      BY DEF Init
    <3>2. pdisk \in [SnapIds -> 0..SnapMoments] /\ pfw = pdisk /\ pstate = pdisk
      BY DEF Init
    <3>3. sid \in [SnapOps -> SnapIds \cup {NoId}] /\ sname \in [SnapOps -> SnapNames \cup {NoId}]
      BY DEF Init
    <3>4. QED BY <2>1, <3>1, <3>2, <3>3 DEF Init, TypeOK
  <2>3. EntriesLead /\ EntriesExact /\ LimitAndNames /\ IndexCurrent
    BY DEF Init, EntriesLead, EntriesExact, LimitAndNames, IndexCurrent, Distinct, IdsOf
  <2>4. PayloadsOwned /\ MachineOfOneMoment
    BY DEF Init, PayloadsOwned, MachineOfOneMoment, Missing
  <2>5. QED BY <2>2, <2>3, <2>4 DEF SnapSafe
<1>2. Turns /\ OneHolder /\ CopiesCurrent /\ NewPayload /\ Emptied /\ PutBack
  BY SMT DEF Init, Turns, Busy, OneHolder, CopiesCurrent, NewPayload, Emptied, PutBack, Creates,
      Deletes, Reverts
<1>3. QED BY <1>1, <1>2 DEF SnapIInv

LEMMA StutterKeeps == ASSUME SnapIInv, UNCHANGED snapvars PROVE SnapIInv'
<1> USE DEF snapvars
<1>1. SnapSafe'
  BY DEF SnapIInv, SnapSafe, TypeOK, IndexTyped, EntriesLead, EntriesExact, LimitAndNames,
      IndexCurrent, PayloadsOwned, MachineOfOneMoment, Leads, Exact, Missing, Creates
<1>2. Turns' /\ OneHolder' /\ CopiesCurrent' /\ NewPayload' /\ Emptied' /\ PutBack'
  BY DEF SnapIInv, Turns, Busy, OneHolder, CopiesCurrent, CopyCurrent, NewPayload, Emptied, PutBack,
      Creates, Deletes, Reverts, Leads, Exact, Missing
<1>3. QED BY <1>1, <1>2 DEF SnapIInv

LEMMA NextKeeps == ASSUME DeletesAlone PROVE SnapIInv /\ [Next]_snapvars => SnapIInv'
<1> SUFFICES ASSUME SnapIInv, [Next]_snapvars PROVE SnapIInv'
  OBVIOUS
<1>1. CASE Launch \/ GuestWrites \/ RunEnds \/ KillRun
  BY <1>1, LaunchKeeps, GuestWritesKeeps, RunEndsKeeps, KillRunKeeps
<1>2. ASSUME NEW o \in SnapOps, CreateSteps(o) PROVE SnapIInv'
  BY <1>2, CreateStoppedKeeps, CreateLiveKeeps, CreateDiskKeeps, CreateFirmwareKeeps, CreateSaveKeeps,
      CreateTruncateKeeps, CreateIndexKeeps, FailKeeps DEF CreateSteps
<1>3. ASSUME NEW o \in SnapOps, DeleteSteps(o) PROVE SnapIInv'
  BY <1>3, DeleteKeeps, DeletePayloadKeeps, DeleteTruncateKeeps, DeleteIndexKeeps DEF DeleteSteps
<1>4. ASSUME NEW o \in SnapOps, RevertSteps(o) PROVE SnapIInv'
  BY <1>4, RevertStoppedKeeps, RevertLiveKeeps, RevertMissingKeeps, RelaunchKeeps, WakesStoppedKeeps,
      WakesLiveKeeps, WakesLateKeeps, RevertDiskKeeps, RevertFirmwareKeeps, RevertStateKeeps,
      RevertFailsKeeps
     DEF RevertSteps, RelaunchWakes
<1>5. ASSUME NEW o \in SnapOps, KillRunWith(o) \/ KillOp(o) PROVE SnapIInv'
  BY <1>5, KillRunWithKeeps, KillOpKeeps
<1>6. CASE UNCHANGED snapvars
  BY <1>6, StutterKeeps
<1>7. QED BY <1>1, <1>2, <1>3, <1>4, <1>5, <1>6 DEF Next

(* Where whoever deletes is alone, a snapshot in the index can be reverted  *)
(* to, the index loses none and has no payload beside it, and what a run    *)
(* starts from is of one moment, whatever fails or is killed.               *)
THEOREM SnapshotsKept == DeletesAlone => (Spec => []SnapSafe)
<1> SUFFICES ASSUME DeletesAlone PROVE Spec => []SnapSafe
  OBVIOUS
<1>1. Init => SnapIInv
  BY InitSnapIInv
<1>2. SnapIInv /\ [Next]_snapvars => SnapIInv'
  BY NextKeeps
<1>3. SnapIInv => SnapSafe
  BY DEF SnapIInv
<1>4. QED BY <1>1, <1>2, <1>3, PTL DEF Spec
=============================================================================
