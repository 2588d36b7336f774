----------------------------- MODULE StoresProofs -----------------------------
(***************************************************************************)
(* What is kept beside the VMs, proved: the settings file and the policies *)
(* of the clipboard (FilesSafe), and the media machines are installed from *)
(* (MediaSafe).  The components share no variable: the invariant of each   *)
(* is inductive by itself, and holds whichever component a history is of.  *)
(***************************************************************************)
EXTENDS Stores, TLAPS, FiniteSetTheorems

-----------------------------------------------------------------------------
IsFile(i) == i.format = "text/uri-list"

(* What is to be sent, or has been, passed the policy. *)
PolPasses(i) ==
    /\ i.format \in Policy!AllowedCanonical(rules.policy)
    /\ i.size \in Nat /\ i.size <= Policy!MaxBytes(rules.policy)

PolItems ==
    /\ \A i \in waiting \cup sent : PolPasses(i)
    /\ (\E i \in waiting \cup sent : IsFile(i)) => \A i \in waiting \cup sent : IsFile(i)
    /\ waiting \cap sent = {}

PolRules ==
    /\ rules.made \in BOOLEAN /\ rules.run \in BOOLEAN
    /\ DOMAIN rules.policy = DOMAIN Policy!Default
    /\ rules.policy["rate"] \in Nat /\ rules.policy["max"] \in Int
    /\ ~rules.made => waiting = {} /\ sent = {} /\ clock = 0 /\ volume.bytes = 0 /\ volume.over = 0
    /\ rules.made =>
        /\ rules.settings \in Settings /\ rules.perVM \in Settings /\ rules.override \in Overrides
        /\ rules.policy = Policy!Resolve(rules.settings, rules.perVM, rules.override)

PolBucket ==
    /\ clock \in 0..MaxTime
    /\ bucket \in [rate : Nat, tokens : Int, last : Nat]
    /\ bucket.last <= clock /\ bucket.tokens <= bucket.rate
    /\ volume \in [bytes : Nat, over : Nat]

(* No more has been sent than the bucket was filled with. *)
PolSpent ==
    bucket.rate > 0 =>
        /\ volume.bytes - volume.over <= (bucket.last + 1) * bucket.rate
        /\ volume.bytes - volume.over + bucket.tokens <= (bucket.last + 1) * bucket.rate

PolInv == PolItems /\ PolRules /\ PolBucket /\ PolSpent

-----------------------------------------------------------------------------
LEMMA PolMaxBytes == PolRules => Policy!MaxBytes(rules.policy) \in Nat /\ Policy!MaxBytes(rules.policy) > 0
  BY DEF PolRules, Policy!MaxBytes, Policy!DefaultMaxContentBytes

LEMMA PolDefault ==
    /\ Policy!Default["rate"] = 0 /\ Policy!Default["max"] = 0 /\ Policy!Default["fileTransfer"] = TRUE
  BY DEF Policy!Default

LEMMA PolFields == {"rate", "max", "fileTransfer", "allowedTypes"} \subseteq DOMAIN Policy!Default
  BY DEF Policy!Default

LEMMA PolResolved ==
    ASSUME NEW s \in Settings, NEW v \in Settings, NEW o \in Overrides
    PROVE  /\ DOMAIN Policy!Resolve(s, v, o) = DOMAIN Policy!Default
           /\ Policy!Resolve(s, v, o)["rate"] \in Nat
           /\ Policy!Resolve(s, v, o)["max"] \in Int
           /\ Policy!Resolve(s, v, o)["fileTransfer"] =>
                IF "fileTransfer" \in DOMAIN o THEN o["fileTransfer"]
                ELSE \A p \in IF v # {} THEN v ELSE s : p["fileTransfer"]
<1> DEFINE base == Policy!Otherwise(v, Policy!Otherwise(s, Policy!Default))
<1>1. (v # {} /\ base \in v) \/ (v = {} /\ s # {} /\ base \in s) \/ (v = {} /\ s = {} /\ base = Policy!Default)
  BY DEF Policy!Otherwise
<1>2. DOMAIN base = DOMAIN Policy!Default /\ base["rate"] \in Nat /\ base["max"] \in Int
  BY <1>1, PolicyAssumption, PolDefault
<1>3. \A p \in IF v # {} THEN v ELSE s : p = base
  BY <1>1, PolicyAssumption
<1>4. Policy!Resolve(s, v, o) = [x \in DOMAIN base |-> IF x \in DOMAIN o THEN o[x] ELSE base[x]]
  BY DEF Policy!Resolve, Policy!Apply
<1> HIDE DEF base
<1>5. \A x \in DOMAIN Policy!Default : Policy!Resolve(s, v, o)[x] = IF x \in DOMAIN o THEN o[x] ELSE base[x]
  BY <1>2, <1>4
<1>6. DOMAIN Policy!Resolve(s, v, o) = DOMAIN Policy!Default
  BY <1>2, <1>4
<1>7. Policy!Resolve(s, v, o)["rate"] \in Nat
  BY <1>2, <1>5, PolFields, PolicyAssumption
<1>8. Policy!Resolve(s, v, o)["max"] \in Int
  BY <1>2, <1>5, PolFields, PolicyAssumption
<1>9. Policy!Resolve(s, v, o)["fileTransfer"] = IF "fileTransfer" \in DOMAIN o THEN o["fileTransfer"] ELSE base["fileTransfer"]
  BY <1>5, PolFields
<1> QED BY <1>3, <1>6, <1>7, <1>8, <1>9

LEMMA PolInitInv == Policy!Init => PolInv
<1> SUFFICES ASSUME Policy!Init PROVE PolInv
  OBVIOUS
<1>1. PolItems
  BY DEF Policy!Init, PolItems
<1>2. PolRules
  BY PolDefault DEF Policy!Init, PolRules
<1>3. PolBucket /\ PolSpent
  BY PolicyAssumption DEF Policy!Init, PolBucket, PolSpent, Policy!newLimiter
<1> QED BY <1>1, <1>2, <1>3 DEF PolInv

LEMMA PolRead ==
    ASSUME NEW items, NEW allowed, NEW max \in Nat, max > 0, \A i \in items : i.size \in Nat
    PROVE  /\ \A i \in Policy!Read(items, allowed, max) : i \in items /\ i.format \in allowed /\ i.size <= max
           /\ (\E i \in Policy!Read(items, allowed, max) : IsFile(i)) => \A i \in Policy!Read(items, allowed, max) : IsFile(i)
  BY DEF Policy!Read, Policy!CapTo, IsFile

LEMMA PolResolveInv == ASSUME PolInv, Policy!ResolveClipboard PROVE PolInv'
<1> PICK s \in Settings, v \in Settings, o \in Overrides :
         LET p == Policy!Resolve(s, v, o) IN
         /\ rules' = [made |-> TRUE, settings |-> s, perVM |-> v, override |-> o, policy |-> p, run |-> Policy!Active(p)]
         /\ bucket' = Policy!newLimiter(Policy!BytesPerSec(p), clock)
  BY DEF Policy!ResolveClipboard
<1> DEFINE p == Policy!Resolve(s, v, o)
<1>1. rules.made = FALSE /\ UNCHANGED <<waiting, clock, sent, volume>>
  BY DEF Policy!ResolveClipboard
<1>2. p["rate"] \in Nat /\ p["max"] \in Int /\ DOMAIN p = DOMAIN Policy!Default /\ Policy!Active(p) \in BOOLEAN
  BY PolResolved DEF Policy!Active
<1>3. /\ rules'.made = TRUE /\ rules'.settings = s /\ rules'.perVM = v /\ rules'.override = o
      /\ rules'.policy = p /\ rules'.run = Policy!Active(p)
      /\ bucket' = [rate |-> p["rate"], tokens |-> p["rate"], last |-> clock]
  BY DEF Policy!newLimiter, Policy!BytesPerSec
<1> HIDE DEF p
<1>4. waiting = {} /\ sent = {} /\ clock = 0 /\ volume.bytes = 0 /\ volume.over = 0
  BY <1>1 DEF PolInv, PolRules
<1>5. PolItems'
  BY <1>1, <1>4 DEF PolItems
<1>6. PolRules'
  BY <1>1, <1>2, <1>3 DEF PolRules, p
<1>7. PolBucket'
  BY <1>1, <1>2, <1>3, <1>4 DEF PolInv, PolBucket
<1>8. PolSpent'
  BY <1>1, <1>2, <1>3, <1>4 DEF PolSpent
<1> QED BY <1>5, <1>6, <1>7, <1>8 DEF PolInv

LEMMA PolPushInv == ASSUME PolInv, Policy!Push PROVE PolInv'
<1> PICK items \in Clipboards : waiting' = Policy!Read(items, Policy!AllowedCanonical(rules.policy), Policy!MaxBytes(rules.policy))
  BY DEF Policy!Push
<1>1. rules.made /\ sent = {} /\ UNCHANGED <<rules, bucket, clock, sent, volume>>
  BY DEF Policy!Push
<1>2. Policy!MaxBytes(rules.policy) \in Nat /\ Policy!MaxBytes(rules.policy) > 0
  BY PolMaxBytes DEF PolInv
<1>3. \A i \in items : i.size \in Nat
  BY PolicyAssumption
<1>4. /\ \A i \in waiting' : i \in items /\ i.format \in Policy!AllowedCanonical(rules.policy) /\ i.size <= Policy!MaxBytes(rules.policy)
      /\ (\E i \in waiting' : IsFile(i)) => \A i \in waiting' : IsFile(i)
  BY <1>2, <1>3, PolRead
<1>5. PolItems'
  BY <1>1, <1>3, <1>4 DEF PolItems, PolPasses, IsFile
<1>6. PolRules'
  BY <1>1 DEF PolInv, PolRules
<1>7. PolBucket' /\ PolSpent'
  BY <1>1 DEF PolInv, PolBucket, PolSpent
<1> QED BY <1>5, <1>6, <1>7 DEF PolInv

(* What a refill adds, the budget of the time has. *)
LEMMA PolTime ==
    ASSUME NEW rate \in Nat, NEW last \in Nat, NEW now \in Nat, last <= now
    PROVE  /\ (now - last) * rate \in Nat
           /\ (last + 1) * rate + (now - last) * rate = (now + 1) * rate
           /\ (last + 1) * rate \in Nat /\ (now + 1) * rate \in Nat
           /\ (last + 1) * rate <= (now + 1) * rate
<1> DEFINE d == now - last
<1>1. d \in Nat /\ now = last + d
  OBVIOUS
<1> HIDE DEF d
<1>2. d * rate \in Nat /\ (last + 1) * rate \in Nat
  BY <1>1, SMT
<1>3. (last + 1) * rate + d * rate = (last + d + 1) * rate
  BY <1>1, SMT
<1> QED BY <1>1, <1>2, <1>3 DEF d

LEMMA PolWaitInv == ASSUME PolInv, Policy!WaitN PROVE PolInv'
<1> PICK i \in waiting :
        /\ Policy!Passes(i.size)
        /\ bucket' = [bucket EXCEPT !.tokens = IF bucket.rate = 0 THEN 0 ELSE Policy!Refill - i.size, !.last = clock]
        /\ waiting' = waiting \ {i} /\ sent' = sent \cup {i}
        /\ volume' = [bytes |-> volume.bytes + i.size,
                      over |-> IF i.size > bucket.rate THEN volume.over + i.size ELSE volume.over]
        /\ UNCHANGED <<rules, clock>>
  BY DEF Policy!WaitN
<1>1. PolPasses(i) /\ i.size \in Nat
  BY DEF PolInv, PolItems, PolPasses
<1>2. PolItems'
  BY DEF PolInv, PolItems, PolPasses, IsFile
<1>3. PolRules'
  BY DEF PolInv, PolRules
<1>4. /\ bucket.rate \in Nat /\ bucket.tokens \in Int /\ bucket.last \in Nat /\ clock \in Nat /\ bucket.last <= clock
      /\ volume.bytes \in Nat /\ volume.over \in Nat
  BY PolicyAssumption DEF PolInv, PolBucket
<1> DEFINE gained == (clock - bucket.last) * bucket.rate
           due == (clock + 1) * bucket.rate
           before == (bucket.last + 1) * bucket.rate
<1>5. gained \in Nat /\ before + gained = due /\ before <= due /\ due \in Nat /\ before \in Nat
  BY <1>4, PolTime
<1>6. Policy!Refill \in Int /\ Policy!Refill <= bucket.rate /\ Policy!Refill <= bucket.tokens + gained
  BY <1>4, <1>5 DEF Policy!Refill
<1>7. /\ bucket'.rate = bucket.rate /\ bucket'.last = clock
      /\ bucket'.tokens = IF bucket.rate = 0 THEN 0 ELSE Policy!Refill - i.size
      /\ bucket' \in [rate : Nat, tokens : Int, last : Nat]
  <2> DEFINE t == IF bucket.rate = 0 THEN 0 ELSE Policy!Refill - i.size
  <2>1. t \in Int /\ clock \in Nat
    BY <1>1, <1>4, <1>6
  <2>2. bucket' = [bucket EXCEPT !.tokens = t, !.last = clock] /\ bucket \in [rate : Nat, tokens : Int, last : Nat]
    BY DEF PolInv, PolBucket
  <2> HIDE DEF t
  <2>3. bucket'.rate = bucket.rate /\ bucket'.last = clock /\ bucket'.tokens = t
        /\ bucket' \in [rate : Nat, tokens : Int, last : Nat]
    BY <2>1, <2>2
  <2> QED BY <2>3 DEF t
<1>8. /\ volume'.bytes = volume.bytes + i.size
      /\ volume'.over = IF i.size > bucket.rate THEN volume.over + i.size ELSE volume.over
  OBVIOUS
<1>9. PolBucket'
  <2>1. volume' \in [bytes : Nat, over : Nat]
    BY <1>1, <1>4
  <2>2. bucket'.tokens <= bucket'.rate
    BY <1>1, <1>4, <1>6, <1>7
  <2> QED BY <2>1, <2>2, <1>7, <1>4 DEF PolInv, PolBucket
<1>10. PolSpent'
  <2> SUFFICES ASSUME bucket.rate > 0
               PROVE  /\ volume'.bytes - volume'.over <= due
                      /\ volume'.bytes - volume'.over + bucket'.tokens <= due
    BY <1>7 DEF PolSpent
  <2>1. volume.bytes - volume.over <= before /\ volume.bytes - volume.over + bucket.tokens <= before
    BY DEF PolInv, PolSpent
  <2> HIDE DEF due, before, gained
  <2>2. CASE i.size > bucket.rate
    BY <2>1, <2>2, <1>1, <1>4, <1>5, <1>6, <1>7, <1>8
  <2>3. CASE ~(i.size > bucket.rate)
    <3>1. Policy!Refill >= i.size
      BY <2>3, <1>1, <1>4 DEF Policy!Passes
    <3> QED BY <2>1, <2>3, <3>1, <1>1, <1>4, <1>5, <1>6, <1>7, <1>8
  <2> QED BY <2>2, <2>3
<1> QED BY <1>2, <1>3, <1>9, <1>10 DEF PolInv

LEMMA PolTickInv == ASSUME PolInv, Policy!Tick PROVE PolInv'
<1>1. rules.made /\ clock < MaxTime /\ clock' = clock + 1 /\ UNCHANGED <<rules, waiting, bucket, sent, volume>>
  BY DEF Policy!Tick
<1>2. PolItems' /\ PolRules' /\ PolSpent'
  BY <1>1 DEF PolInv, PolItems, PolPasses, PolRules, PolSpent
<1>3. PolBucket'
  BY <1>1, PolicyAssumption DEF PolInv, PolBucket
<1> QED BY <1>2, <1>3 DEF PolInv

LEMMA PolNextInv == PolInv /\ Policy!Next => PolInv'
  BY PolResolveInv, PolPushInv, PolWaitInv, PolTickInv DEF Policy!Next

LEMMA PolStutterInv == PolInv /\ UNCHANGED Policy!pvars => PolInv'
<1> SUFFICES ASSUME PolInv, UNCHANGED <<rules, waiting, bucket, clock, sent, volume>> PROVE PolInv'
  BY DEF Policy!pvars
<1> QED BY DEF PolInv, PolItems, PolPasses, PolRules, PolBucket, PolSpent

LEMMA PolSafeFromInv == PolInv => Policy!PolicySafe
<1> SUFFICES ASSUME PolInv PROVE Policy!PolicySafe
  OBVIOUS
<1>1. \A i \in waiting \cup sent : PolPasses(i) /\ i.format \in Policy!AllowedCanonical(rules.policy)
  BY DEF PolInv, PolItems, PolPasses
<1>2. Policy!AllowedCanonical(rules.policy) \subseteq Policy!AllCanonical
  BY DEF Policy!AllowedCanonical, Policy!AllCanonical
<1>3. Policy!TypeOK
  BY <1>1, <1>2 DEF PolInv, PolItems, PolPasses, PolRules, PolBucket, Policy!TypeOK
<1>4. Policy!OnlyPermitted
  <2>1. ASSUME NEW i \in sent, IsFile(i) PROVE Policy!MayFiles /\ \A j \in sent : IsFile(j)
    <3>1. rules.policy["fileTransfer"]
      BY <1>1, <2>1 DEF Policy!AllowedCanonical, Policy!ClassOf, IsFile
    <3>2. rules.made
      BY DEF PolInv, PolRules
    <3>3. Policy!MayFiles
      BY <3>1, <3>2, PolResolved DEF PolInv, PolRules, Policy!MayFiles
    <3> QED BY <3>3, <2>1 DEF PolInv, PolItems
  <2>2. rules.policy.allowedTypes # {} => \A i \in sent : i.format \in rules.policy.allowedTypes \cup {"text/uri-list"}
    BY <1>1 DEF Policy!AllowedCanonical
  <2>3. \A i \in sent : i.size <= Policy!MaxBytes(rules.policy)
    BY <1>1 DEF PolPasses
  <2> QED BY <2>1, <2>2, <2>3 DEF Policy!OnlyPermitted, IsFile
<1>5. Policy!RateHeld
  <2> SUFFICES ASSUME bucket.rate > 0
               PROVE  volume.bytes - volume.over <= (clock + 1) * bucket.rate
    BY DEF Policy!RateHeld
  <2>1. /\ bucket.rate \in Nat /\ bucket.last \in Nat /\ clock \in Nat /\ bucket.last <= clock
        /\ volume.bytes \in Nat /\ volume.over \in Nat
    BY PolicyAssumption DEF PolInv, PolBucket
  <2> DEFINE due == (clock + 1) * bucket.rate
             before == (bucket.last + 1) * bucket.rate
  <2>2. before <= due /\ before \in Nat /\ due \in Nat
    BY <2>1, PolTime
  <2>3. volume.bytes - volume.over <= before
    BY DEF PolInv, PolSpent
  <2> HIDE DEF due, before
  <2>4. volume.bytes - volume.over <= due
    BY <2>1, <2>2, <2>3
  <2> QED BY <2>4 DEF due
<1> QED BY <1>3, <1>4, <1>5 DEF Policy!PolicySafe
-----------------------------------------------------------------------------
SetProfiles == [name : Profiles, default : BOOLEAN]

SetOwns ==
    [locs : SUBSET Locations, default : Locations \cup {Set!Unset, Set!AbsPath}, cache : BOOLEAN,
     profiles : SUBSET SetProfiles, legacy : BOOLEAN]

SetGood(s) ==
    /\ s \in SetOwns
    /\ Set!ValidateRegistryProfiles(s)
    /\ ~Set!May("update") => s.default \in s.locs \cup {Set!Unset, Set!AbsPath}

SetFiles == [own : SetOwns, other : BOOLEAN, broken : BOOLEAN]

SetSteps == {"idle", "merge", "create", "write", "rename"}

SetTypes ==
    /\ yaml \in [Set!YamlInodes -> SetFiles]
    /\ path \in Set!YamlInodes \cup {Set!Missing}
    /\ temp \in Set!YamlInodes \cup {Set!Missing}
    /\ path # Set!Missing => path # temp
    /\ saver \in [Savers -> [pc : SetSteps, own : SetOwns, other : BOOLEAN, fd : Set!YamlInodes \cup {Set!Missing}]]
    /\ want \in [now : SetOwns, next : SetOwns, other : BOOLEAN, nextOther : BOOLEAN]
    /\ changes \in 0..MaxSaves

SetAllGood ==
    /\ \A i \in Set!YamlInodes : SetGood(yaml[i].own)
    /\ \A p \in Savers : SetGood(saver[p].own)

SetFds == \A p \in Savers : saver[p].fd # Set!Missing <=> saver[p].pc = "write"

SetFile == [own |-> want.next, other |-> want.nextOther, broken |-> FALSE]

SetOne == \A p, q \in Savers : saver[p].pc # "idle" /\ saver[q].pc # "idle" => p = q

SetSaver(p) ==
    /\ saver[p].pc # "idle" => saver[p].own = want.next
    /\ saver[p].pc \in {"create", "write", "rename"} => saver[p].other = want.nextOther
    /\ saver[p].pc = "write" => saver[p].fd = temp /\ yaml[temp] = Set!Empty
    /\ saver[p].pc = "rename" => temp # Set!Missing /\ yaml[temp] = SetFile

SetCurrent ==
    /\ path # Set!Missing =>
        /\ yaml[path].own = want.now
        /\ yaml[path].other = want.other
        /\ ~Set!May("edit") => ~yaml[path].broken
    /\ path = Set!Missing => ~want.other

SetAlone == SetOne /\ (\A p \in Savers : SetSaver(p)) /\ SetCurrent

SetInv == SetTypes /\ SetAllGood /\ SetFds /\ (~Set!May("together") => SetAlone)

-----------------------------------------------------------------------------
LEMMA SetInodes ==
    /\ Set!YamlInodes = 1..(Cardinality(Savers) + 2)
    /\ Cardinality(Savers) \in Nat
    /\ 1 \in Set!YamlInodes
    /\ Set!Missing \notin Set!YamlInodes
    /\ IsFiniteSet(Set!YamlInodes) /\ Cardinality(Set!YamlInodes) = Cardinality(Savers) + 2
<1>1. Cardinality(Savers) \in Nat
  BY SettingsAssumption, FS_CardinalityType
<1>a. Set!Cardinality(Savers) = Cardinality(Savers)
  BY DEF Set!Cardinality, Cardinality
<1>2. Set!YamlInodes = 1..(Cardinality(Savers) + 2)
  BY <1>a DEF Set!YamlInodes
<1>3. IsFiniteSet(Set!YamlInodes) /\ Cardinality(Set!YamlInodes) = Cardinality(Savers) + 2
  BY <1>1, <1>2, FS_Interval
<1> QED BY <1>1, <1>2, <1>3 DEF Set!Missing

LEMMA SetFree ==
    ASSUME SetTypes
    PROVE  \E j \in Set!YamlInodes : j \notin Set!Held \cup {path}
<1> DEFINE F == [p \in Savers |-> saver[p].fd]
<1>1. F \in Surjection(Savers, Set!Held)
  BY DEF Surjection, Set!Held
<1>2. IsFiniteSet(Set!Held) /\ Cardinality(Set!Held) <= Cardinality(Savers)
  BY <1>1, SettingsAssumption, FS_Surjection
<1>a. Cardinality(Set!Held) \in Nat
  BY <1>2, FS_CardinalityType
<1>b. IsFiniteSet(Set!Held \cup {path}) /\ Cardinality(Set!Held \cup {path}) <= Cardinality(Set!Held) + 1
  <2>1. IsFiniteSet(Set!Held \cup {path})
    BY <1>2, FS_AddElement
  <2>2. Cardinality(Set!Held \cup {path}) = IF path \in Set!Held THEN Cardinality(Set!Held) ELSE Cardinality(Set!Held) + 1
    BY <1>2, FS_AddElement
  <2> QED BY <2>1, <2>2, <1>a
<1>c. Cardinality(Set!Held \cup {path}) \in Nat
  BY <1>b, FS_CardinalityType
<1>3. IsFiniteSet(Set!Held \cup {path}) /\ Cardinality(Set!Held \cup {path}) <= Cardinality(Savers) + 1
  BY <1>2, <1>a, <1>b, <1>c, SetInodes
<1>4. ASSUME Set!YamlInodes \subseteq Set!Held \cup {path}
      PROVE  FALSE
  <2>1. Cardinality(Set!YamlInodes) <= Cardinality(Set!Held \cup {path})
    BY <1>3, <1>4, FS_Subset
  <2> QED BY <2>1, <1>3, <1>c, SetInodes
<1> QED BY <1>4

LEMMA SetZero == SetGood(Set!Zero)
  BY DEF SetGood, SetOwns, Set!Zero, Set!ValidateRegistryProfiles, SetProfiles

LEMMA SetEmpty == Set!Empty \in SetFiles /\ Set!Empty.own = Set!Zero /\ Set!Empty.other = FALSE /\ Set!Empty.broken = FALSE
  BY SetZero DEF SetGood, SetFiles, Set!Empty

LEMMA SetIdle ==
    /\ Set!Idle \in [pc : SetSteps, own : SetOwns, other : BOOLEAN, fd : Set!YamlInodes \cup {Set!Missing}]
    /\ Set!Idle.pc = "idle" /\ Set!Idle.own = Set!Zero /\ Set!Idle.other = FALSE /\ Set!Idle.fd = Set!Missing
  BY SetZero DEF SetGood, SetSteps, Set!Idle

LEMMA SetContents ==
    ASSUME SetInv
    PROVE  Set!Contents \in SetFiles /\ SetGood(Set!Contents.own)
  BY SetZero, SetEmpty DEF SetInv, SetTypes, SetAllGood, Set!Contents

LEMMA SetChangeForms ==
    ASSUME NEW c \in Set!Changes
    PROVE  \/ c.op \in {"add", "remove"} /\ c.name \in Locations
           \/ c.op = "default" /\ c.name \in Locations \cup {Set!AbsPath}
           \/ c.op = "cache"
           \/ c.op = "regadd" /\ c.name \in Profiles /\ c.default \in BOOLEAN
           \/ c.op \in {"regremove", "regdefault"} /\ c.name \in Profiles
           \/ c.op = "ghcr"
           \/ c.op = "update" /\ c.name \in Locations /\ Set!May("update")
  BY DEF Set!Changes, Set!StorageChanges, Set!RegistryChanges, Set!UpdateChanges

LEMMA SetProfilesTyped ==
    ASSUME NEW s \in SetOwns
    PROVE  Set!RegistryProfiles(s) \in SUBSET SetProfiles
<1>1. s.profiles \in SUBSET SetProfiles
  BY DEF SetOwns
<1>2. [name |-> Legacy, default |-> TRUE] \in SetProfiles
  BY SettingsAssumption DEF SetProfiles
<1> QED BY <1>1, <1>2 DEF Set!RegistryProfiles

LEMMA SetRemoveGood ==
    ASSUME NEW s, SetGood(s), NEW x
    PROVE  SetGood(Set!ConfigStorageRemove(s, x))
<1> DEFINE t == Set!ConfigStorageRemove(s, x)
<1>1. t \in SetOwns /\ t.profiles = s.profiles /\ t.locs = s.locs \ {x}
      /\ t.default = IF s.default = x THEN Set!Unset ELSE s.default
  BY DEF SetGood, SetOwns, Set!ConfigStorageRemove
<1> QED BY <1>1 DEF SetGood, Set!ValidateRegistryProfiles

LEMMA SetProfilesReplaced ==
    ASSUME NEW s, SetGood(s), NEW P \in SUBSET SetProfiles,
           \A r, q \in P : r.name = q.name \/ (r.default /\ q.default) => r = q
    PROVE  SetGood([s EXCEPT !.profiles = P])
<1> DEFINE t == [s EXCEPT !.profiles = P]
<1>1. t \in SetOwns /\ t.profiles = P /\ t.locs = s.locs /\ t.default = s.default
  BY DEF SetGood, SetOwns
<1> QED BY <1>1 DEF SetGood, Set!ValidateRegistryProfiles

LEMMA SetRegistryUnique ==
    ASSUME NEW s, SetGood(s)
    PROVE  \A r, q \in Set!RegistryProfiles(s) : r.name = q.name \/ (r.default /\ q.default) => r = q
  BY DEF SetGood, Set!RegistryProfiles, Set!ValidateRegistryProfiles

LEMMA SetAddTyped ==
    ASSUME NEW s, SetGood(s), NEW x \in Profiles, NEW d \in BOOLEAN
    PROVE  Set!ConfigRegistryAdd(s, x, d) \in SetOwns
           /\ Set!ConfigRegistryAdd(s, x, d).locs = s.locs /\ Set!ConfigRegistryAdd(s, x, d).default = s.default
<1> DEFINE kept == {[r EXCEPT !.default = @ /\ ~d] : r \in Set!RegistryProfiles(s)}
           P == {r \in kept : r.name # x} \cup {[name |-> x, default |-> d]}
<1>1. Set!RegistryProfiles(s) \in SUBSET SetProfiles
  BY SetProfilesTyped DEF SetGood
<1>2. \A r \in SetProfiles : [r EXCEPT !.default = @ /\ ~d] \in SetProfiles
  BY DEF SetProfiles
<1>3. [name |-> x, default |-> d] \in SetProfiles
  BY DEF SetProfiles
<1>4. P \in SUBSET SetProfiles
  BY <1>1, <1>2, <1>3
<1>5. Set!ConfigRegistryAdd(s, x, d) = [s EXCEPT !.profiles = P]
  BY DEF Set!ConfigRegistryAdd
<1> HIDE DEF P
<1> QED BY <1>4, <1>5 DEF SetGood, SetOwns

LEMMA SetRegRemoveGood ==
    ASSUME NEW s, SetGood(s), NEW x
    PROVE  SetGood(Set!ConfigRegistryRemove(s, x))
<1> DEFINE P == {r \in Set!RegistryProfiles(s) : r.name # x}
<1>1. P \in SUBSET SetProfiles
  BY SetProfilesTyped DEF SetGood
<1>2. \A r, q \in P : r.name = q.name \/ (r.default /\ q.default) => r = q
  BY SetRegistryUnique
<1> HIDE DEF P
<1>3. SetGood([s EXCEPT !.profiles = P])
  BY <1>1, <1>2, SetProfilesReplaced
<1> QED BY <1>3 DEF Set!ConfigRegistryRemove, P

LEMMA SetRegDefaultGood ==
    ASSUME NEW s, SetGood(s), NEW x
    PROVE  SetGood(Set!ConfigRegistryDefault(s, x))
<1> DEFINE G(r) == [r EXCEPT !.default = r.name = x]
           P == {G(r) : r \in Set!RegistryProfiles(s)}
<1>1. Set!RegistryProfiles(s) \in SUBSET SetProfiles
  BY SetProfilesTyped DEF SetGood
<1>2. \A r \in SetProfiles : G(r) \in SetProfiles /\ G(r).name = r.name /\ (G(r).default <=> r.name = x)
  BY DEF SetProfiles
<1> HIDE DEF G
<1>3. P \in SUBSET SetProfiles
  BY <1>1, <1>2
<1>4. \A r, q \in P : r.name = q.name \/ (r.default /\ q.default) => r = q
  BY <1>1, <1>2, SetRegistryUnique
<1> HIDE DEF P
<1>5. SetGood([s EXCEPT !.profiles = P])
  BY <1>3, <1>4, SetProfilesReplaced
<1> QED BY <1>5 DEF Set!ConfigRegistryDefault, P, G

LEMMA SetChangedGood ==
    ASSUME NEW s, SetGood(s), NEW c \in Set!Changes, Set!Allowed(s, c)
    PROVE  SetGood(Set!Changed(s, c))
<1>1. CASE c.op = "add" /\ c.name \in Locations
  <2> DEFINE t == [s EXCEPT !.locs = @ \cup {c.name}]
  <2>1. t \in SetOwns /\ t.profiles = s.profiles /\ t.default = s.default /\ t.locs = s.locs \cup {c.name}
    BY <1>1 DEF SetGood, SetOwns
  <2>2. SetGood(t)
    BY <2>1 DEF SetGood, Set!ValidateRegistryProfiles
  <2> QED BY <2>2, <1>1 DEF Set!Changed
<1>2. CASE c.op = "remove"
  BY <1>2, SetRemoveGood DEF Set!Changed
<1>3. CASE c.op \in {"default", "update"} /\ c.name \in Locations \cup {Set!AbsPath} /\ (c.op = "update" => Set!May("update"))
  <2> DEFINE t == [s EXCEPT !.default = c.name]
  <2>1. t \in SetOwns /\ t.profiles = s.profiles /\ t.default = c.name /\ t.locs = s.locs
    BY <1>3 DEF SetGood, SetOwns
  <2>2. c.op = "default" => c.name \in s.locs \cup {Set!AbsPath}
    BY DEF Set!Allowed
  <2>3. SetGood(t)
    BY <1>3, <2>1, <2>2 DEF SetGood, Set!ValidateRegistryProfiles
  <2> QED BY <2>3, <1>3 DEF Set!Changed
<1>4. CASE c.op = "cache"
  <2> DEFINE t == [s EXCEPT !.cache = TRUE]
  <2>1. t \in SetOwns /\ t.profiles = s.profiles /\ t.default = s.default /\ t.locs = s.locs
    BY DEF SetGood, SetOwns
  <2>2. SetGood(t)
    BY <2>1 DEF SetGood, Set!ValidateRegistryProfiles
  <2> QED BY <2>2, <1>4 DEF Set!Changed
<1>5. CASE c.op = "regadd" /\ c.name \in Profiles /\ c.default \in BOOLEAN
  <2>1. Set!Changed(s, c) = Set!ConfigRegistryAdd(s, c.name, c.default)
    BY <1>5 DEF Set!Changed
  <2>2. Set!ValidateRegistryProfiles(Set!Changed(s, c))
    <3> DEFINE V == Set!ValidateRegistryProfiles(Set!Changed(s, c))
    <3>1. c.op = "regadd" /\ (Set!Allowed(s, c) <=> V)
      BY <1>5, Zenon DEF Set!Allowed
    <3> QED BY <3>1
  <2> QED BY <1>5, <2>1, <2>2, SetAddTyped DEF SetGood
<1>6. CASE c.op = "regremove"
  BY <1>6, SetRegRemoveGood DEF Set!Changed
<1>7. CASE c.op = "regdefault"
  BY <1>7, SetRegDefaultGood DEF Set!Changed
<1>8. CASE c.op = "ghcr"
  <2> DEFINE t == [s EXCEPT !.legacy = TRUE]
  <2>1. t \in SetOwns /\ t.profiles = s.profiles /\ t.default = s.default /\ t.locs = s.locs
    BY DEF SetGood, SetOwns
  <2>2. SetGood(t)
    BY <2>1 DEF SetGood, Set!ValidateRegistryProfiles
  <2> QED BY <2>2, <1>8 DEF Set!Changed
<1> QED BY <1>1, <1>2, <1>3, <1>4, <1>5, <1>6, <1>7, <1>8, SetChangeForms

-----------------------------------------------------------------------------
LEMMA SetInitInv == Set!Init => SetInv
<1> SUFFICES ASSUME Set!Init PROVE SetInv
  OBVIOUS
<1>1. SetTypes
  <2>1. want \in [now : SetOwns, next : SetOwns, other : BOOLEAN, nextOther : BOOLEAN]
    BY SetZero DEF Set!Init, SetGood
  <2>2. yaml \in [Set!YamlInodes -> SetFiles]
    BY SetEmpty DEF Set!Init
  <2>3. saver \in [Savers -> [pc : SetSteps, own : SetOwns, other : BOOLEAN, fd : Set!YamlInodes \cup {Set!Missing}]]
    BY SetIdle DEF Set!Init
  <2> QED BY <2>1, <2>2, <2>3, SetInodes, SettingsAssumption DEF Set!Init, SetTypes, Set!Missing
<1>2. SetAllGood
  BY SetZero, SetEmpty, SetIdle DEF Set!Init, SetAllGood
<1>3. SetFds
  BY SetIdle DEF Set!Init, SetFds
<1>4. SetAlone
  <2>1. SetOne /\ (\A p \in Savers : SetSaver(p))
    BY SetIdle DEF Set!Init, SetOne, SetSaver
  <2>2. SetCurrent
    BY SetEmpty, SetInodes DEF Set!Init, SetCurrent
  <2> QED BY <2>1, <2>2 DEF SetAlone
<1> QED BY <1>1, <1>2, <1>3, <1>4 DEF SetInv

LEMMA SetSwept ==
    ASSUME SetTypes, SetAllGood, NEW names
    PROVE  /\ Set!Swept(yaml, names) \in [Set!YamlInodes -> SetFiles]
           /\ \A i \in Set!YamlInodes : SetGood(Set!Swept(yaml, names)[i].own)
           /\ \A i \in Set!YamlInodes : i \in names => Set!Swept(yaml, names)[i] = yaml[i]
  BY SetEmpty, SetZero DEF SetTypes, SetAllGood, Set!Swept

(* What a step that leaves a saver at a step other than its own disturbs. *)
LEMMA SetLoadInv ==
    ASSUME SetInv, NEW p \in Savers, Set!Load(p)
    PROVE  SetInv'
<1> PICK c \in Set!Changes :
        /\ Set!Allowed(Set!Contents.own, c)
        /\ saver' = [saver EXCEPT ![p] = [Set!Idle EXCEPT !.pc = "merge", !.own = Set!Changed(Set!Contents.own, c)]]
        /\ want' = [want EXCEPT !.next = Set!Changed(Set!Contents.own, c)]
  BY DEF Set!Load
<1> DEFINE s == Set!Changed(Set!Contents.own, c)
           r == [Set!Idle EXCEPT !.pc = "merge", !.own = s]
<1>1. SetGood(s) /\ s \in SetOwns
  BY SetContents, SetChangedGood DEF SetGood
<1>2. r \in [pc : SetSteps, own : SetOwns, other : BOOLEAN, fd : Set!YamlInodes \cup {Set!Missing}]
      /\ r.pc = "merge" /\ r.own = s /\ r.fd = Set!Missing
  BY <1>1, SetIdle DEF SetSteps
<1>3. UNCHANGED <<yaml, path, temp, setmix>> /\ changes' = changes + 1 /\ saver[p].pc = "idle" /\ changes < MaxSaves
  BY DEF Set!Load
<1> HIDE DEF s, r
<1>4. saver' = [saver EXCEPT ![p] = r] /\ want' = [want EXCEPT !.next = s]
  BY DEF s, r
<1>5. SetTypes'
  <2>1. changes' \in 0..MaxSaves
    BY <1>3, SettingsAssumption DEF SetInv, SetTypes
  <2>2. want' \in [now : SetOwns, next : SetOwns, other : BOOLEAN, nextOther : BOOLEAN]
    BY <1>1, <1>4 DEF SetInv, SetTypes
  <2>3. saver' \in [Savers -> [pc : SetSteps, own : SetOwns, other : BOOLEAN, fd : Set!YamlInodes \cup {Set!Missing}]]
    BY <1>2, <1>4 DEF SetInv, SetTypes
  <2> QED BY <2>1, <2>2, <2>3, <1>3 DEF SetInv, SetTypes
<1>6. SetAllGood'
  BY <1>1, <1>2, <1>3, <1>4 DEF SetInv, SetTypes, SetAllGood, SetGood, Set!May
<1>7. SetFds'
  BY <1>2, <1>3, <1>4 DEF SetInv, SetTypes, SetFds
<1>8. ASSUME ~Set!May("together")' PROVE SetAlone'
  <2>1. SetAlone /\ \A q \in Savers : saver[q].pc = "idle"
    BY <1>3, <1>8 DEF SetInv, Set!Load, Set!Saving, Set!May
  <2>2. SetOne'
    BY <1>4, <2>1 DEF SetInv, SetTypes, SetOne
  <2>3. \A q \in Savers : SetSaver(q)'
    BY <1>1, <1>2, <1>4, <2>1 DEF SetInv, SetTypes, SetSaver
  <2>4. SetCurrent'
    BY <1>3, <1>4, <2>1 DEF SetInv, SetTypes, SetAlone, SetCurrent, Set!May
  <2> QED BY <2>2, <2>3, <2>4 DEF SetAlone
<1> QED BY <1>5, <1>6, <1>7, <1>8, <1>3 DEF SetInv

LEMMA SetMergeInv ==
    ASSUME SetInv, NEW p \in Savers, Set!Merge(p)
    PROVE  SetInv'
<1>1. /\ saver[p].pc = "merge"
      /\ saver' = [saver EXCEPT ![p].pc = "create", ![p].other = Set!Merged]
      /\ want' = [want EXCEPT !.nextOther = want.other /\ ~Set!Contents.broken]
      /\ UNCHANGED <<yaml, path, temp, changes, setmix>>
  BY DEF Set!Merge
<1>2. Set!Merged \in BOOLEAN /\ (want.other /\ ~Set!Contents.broken) \in BOOLEAN
  BY DEF Set!Merged
<1>3. SetTypes'
  BY <1>1, <1>2 DEF SetInv, SetTypes, SetSteps
<1>4. SetAllGood'
  BY <1>1 DEF SetInv, SetTypes, SetAllGood, SetGood, Set!May
<1>5. SetFds'
  BY <1>1 DEF SetInv, SetTypes, SetFds
<1>6. ASSUME ~Set!May("together")' PROVE SetAlone'
  <2>1. SetAlone
    BY <1>1, <1>6 DEF SetInv, Set!May
  <2>2. SetOne'
    BY <1>1, <2>1 DEF SetInv, SetTypes, SetAlone, SetOne
  <2>3. Set!Merged = (want.other /\ ~Set!Contents.broken)
    BY <2>1, SetEmpty DEF SetAlone, SetCurrent, Set!Merged, Set!Contents, SetInv, SetTypes, SetFiles
  <2>4. \A q \in Savers : SetSaver(q)'
    BY <1>1, <2>1, <2>3 DEF SetInv, SetTypes, SetAlone, SetSaver, SetOne, SetFile
  <2>5. SetCurrent'
    BY <1>1, <2>1 DEF SetInv, SetTypes, SetAlone, SetCurrent, Set!May
  <2> QED BY <2>2, <2>4, <2>5 DEF SetAlone
<1> QED BY <1>3, <1>4, <1>5, <1>6, <1>1 DEF SetInv

LEMMA SetCreateInv ==
    ASSUME SetInv, NEW p \in Savers, Set!Create(p)
    PROVE  SetInv'
<1> DEFINE i == IF temp # Set!Missing THEN temp ELSE CHOOSE j \in Set!YamlInodes : j \notin Set!Held \cup {path}
<1>1. /\ saver[p].pc = "create"
      /\ temp' = i /\ yaml' = [yaml EXCEPT ![i] = Set!Empty]
      /\ saver' = [saver EXCEPT ![p].pc = "write", ![p].fd = i]
      /\ UNCHANGED <<path, want, changes, setmix>>
  BY DEF Set!Create
<1>2. i \in Set!YamlInodes /\ i # path /\ i # Set!Missing
  BY SetFree, SetInodes DEF SetInv, SetTypes
<1> HIDE DEF i
<1>3. SetTypes'
  BY <1>1, <1>2, SetEmpty DEF SetInv, SetTypes, SetSteps
<1>4. SetAllGood'
  BY <1>1, <1>2, SetEmpty, SetZero DEF SetInv, SetTypes, SetAllGood, SetGood, Set!May
<1>5. SetFds'
  BY <1>1, <1>2 DEF SetInv, SetTypes, SetFds
<1>6. ASSUME ~Set!May("together")' PROVE SetAlone'
  <2>1. SetAlone
    BY <1>1, <1>6 DEF SetInv, Set!May
  <2>2. SetOne'
    BY <1>1, <2>1 DEF SetInv, SetTypes, SetAlone, SetOne
  <2>3. \A q \in Savers : SetSaver(q)'
    BY <1>1, <1>2, <2>1 DEF SetInv, SetTypes, SetAlone, SetSaver, SetOne
  <2>4. SetCurrent'
    BY <1>1, <1>2, <2>1 DEF SetInv, SetTypes, SetAlone, SetCurrent, Set!May
  <2> QED BY <2>2, <2>3, <2>4 DEF SetAlone
<1> QED BY <1>3, <1>4, <1>5, <1>6, <1>1 DEF SetInv

LEMMA SetWriteInv ==
    ASSUME SetInv, NEW p \in Savers, Set!Write(p)
    PROVE  SetInv'
<1> PICK mixed \in (IF yaml[saver[p].fd] = Set!Empty THEN {FALSE} ELSE BOOLEAN) :
        yaml' = [yaml EXCEPT ![saver[p].fd] = [own |-> saver[p].own, other |-> saver[p].other, broken |-> mixed]]
  BY DEF Set!Write
<1> DEFINE i == saver[p].fd
           f == [own |-> saver[p].own, other |-> saver[p].other, broken |-> mixed]
<1>1. /\ saver[p].pc = "write"
      /\ saver' = [saver EXCEPT ![p].pc = "rename", ![p].fd = Set!Missing]
      /\ UNCHANGED <<path, temp, want, changes, setmix>>
  BY DEF Set!Write
<1>2. i \in Set!YamlInodes /\ i # Set!Missing
  BY <1>1 DEF SetInv, SetTypes, SetFds
<1>3. f \in SetFiles /\ f.own = saver[p].own /\ SetGood(f.own)
  BY DEF SetInv, SetTypes, SetFiles, SetAllGood
<1>4. yaml' = [yaml EXCEPT ![i] = f]
  OBVIOUS
<1>5. yaml[i] = Set!Empty => f = [own |-> saver[p].own, other |-> saver[p].other, broken |-> FALSE]
  OBVIOUS
<1>6. i = saver[p].fd
  OBVIOUS
<1> HIDE DEF i, f
<1>7. SetTypes'
  <2>1. saver' \in [Savers -> [pc : SetSteps, own : SetOwns, other : BOOLEAN, fd : Set!YamlInodes \cup {Set!Missing}]]
    BY <1>1 DEF SetInv, SetTypes, SetSteps
  <2>2. yaml' \in [Set!YamlInodes -> SetFiles]
    BY <1>2, <1>3, <1>4 DEF SetInv, SetTypes
  <2> QED BY <2>1, <2>2, <1>1 DEF SetInv, SetTypes
<1>8. SetAllGood'
  BY <1>1, <1>2, <1>3, <1>4 DEF SetInv, SetTypes, SetAllGood, SetGood, Set!May
<1>9. SetFds'
  BY <1>1 DEF SetInv, SetTypes, SetFds
<1>10. ASSUME ~Set!May("together")' PROVE SetAlone'
  <2>1. SetAlone
    BY <1>1, <1>10 DEF SetInv, Set!May
  <2>2. SetOne'
    BY <1>1, <2>1 DEF SetInv, SetTypes, SetAlone, SetOne
  <2>3. i = temp /\ f = SetFile
    BY <1>1, <1>5, <1>6, <2>1 DEF SetAlone, SetSaver, SetFile
  <2>4. \A q \in Savers : SetSaver(q)'
    BY <1>1, <1>2, <1>4, <2>1, <2>3 DEF SetInv, SetTypes, SetAlone, SetSaver, SetOne, SetFile
  <2>5. SetCurrent'
    BY <1>1, <1>2, <1>4, <2>1, <2>3 DEF SetInv, SetTypes, SetAlone, SetCurrent, Set!May
  <2> QED BY <2>2, <2>4, <2>5 DEF SetAlone
<1> QED BY <1>7, <1>8, <1>9, <1>10, <1>1 DEF SetInv

LEMMA SetRenameInv ==
    ASSUME SetInv, NEW p \in Savers, Set!Rename(p)
    PROVE  SetInv'
<1>1. saver[p].pc = "rename" /\ saver' = [saver EXCEPT ![p] = Set!Idle] /\ UNCHANGED <<changes, setmix>>
  BY DEF Set!Rename
<1>2. CASE temp = Set!Missing
  <2>1. UNCHANGED <<path, temp, want, yaml>>
    BY <1>2 DEF Set!Rename
  <2>2. SetTypes'
    BY <1>1, <2>1, SetIdle DEF SetInv, SetTypes
  <2>3. SetAllGood'
    BY <1>1, <2>1, SetIdle, SetZero DEF SetInv, SetTypes, SetAllGood, SetGood, Set!May
  <2>4. SetFds'
    BY <1>1, SetIdle DEF SetInv, SetTypes, SetFds
  <2>5. Set!May("together")'
    BY <1>1, <1>2 DEF SetInv, SetAlone, SetSaver, Set!May
  <2> QED BY <2>2, <2>3, <2>4, <2>5 DEF SetInv
<1>3. CASE temp # Set!Missing
  <2>1. /\ path' = temp /\ temp' = Set!Missing
        /\ want' = [want EXCEPT !.now = want.next, !.other = want.nextOther]
        /\ yaml' = Set!Swept(yaml, Set!Held \cup {temp})
    BY <1>3 DEF Set!Rename
  <2>2. yaml' \in [Set!YamlInodes -> SetFiles] /\ (\A i \in Set!YamlInodes : SetGood(yaml'[i].own))
        /\ yaml'[temp] = yaml[temp]
    BY <1>3, <2>1, SetSwept DEF SetInv, SetTypes
  <2>3. SetTypes'
    BY <1>1, <1>3, <2>1, <2>2, SetIdle DEF SetInv, SetTypes
  <2>4. SetAllGood'
    BY <1>1, <2>2, SetIdle, SetZero DEF SetInv, SetTypes, SetAllGood, SetGood, Set!May
  <2>5. SetFds'
    BY <1>1, SetIdle DEF SetInv, SetTypes, SetFds
  <2>6. ASSUME ~Set!May("together")' PROVE SetAlone'
    <3>1. SetAlone
      BY <1>1, <2>6 DEF SetInv, Set!May
    <3>2. \A q \in Savers : saver'[q].pc = "idle"
      BY <1>1, <3>1, SetIdle DEF SetInv, SetTypes, SetAlone, SetOne
    <3>3. yaml'[path'] = SetFile
      BY <1>1, <2>1, <2>2, <3>1 DEF SetAlone, SetSaver
    <3>4. SetFile.own = want.next /\ SetFile.other = want.nextOther /\ SetFile.broken = FALSE
      BY DEF SetFile
    <3>5. SetCurrent'
      BY <1>1, <1>3, <2>1, <3>3, <3>4 DEF SetInv, SetTypes, SetCurrent
    <3> QED BY <3>2, <3>5 DEF SetAlone, SetOne, SetSaver
  <2> QED BY <2>3, <2>4, <2>5, <2>6, <1>1 DEF SetInv
<1> QED BY <1>2, <1>3

LEMMA SetKillInv ==
    ASSUME SetInv, NEW p \in Savers, Set!Kill(p)
    PROVE  SetInv'
<1> DEFINE names == {path, temp} \cup {saver[q].fd : q \in Savers \ {p}}
<1>1. /\ saver[p].pc # "idle" /\ saver' = [saver EXCEPT ![p] = Set!Idle]
      /\ yaml' = Set!Swept(yaml, names) /\ UNCHANGED <<path, temp, want, changes, setmix>>
  BY DEF Set!Kill
<1>2. path \in names /\ temp \in names
  OBVIOUS
<1> HIDE DEF names
<1>3. yaml' \in [Set!YamlInodes -> SetFiles] /\ (\A i \in Set!YamlInodes : SetGood(yaml'[i].own))
      /\ (path # Set!Missing => yaml'[path] = yaml[path]) /\ (temp # Set!Missing => yaml'[temp] = yaml[temp])
  BY <1>1, <1>2, SetSwept DEF SetInv, SetTypes
<1>4. SetTypes'
  BY <1>1, <1>3, SetIdle DEF SetInv, SetTypes
<1>5. SetAllGood'
  BY <1>1, <1>3, SetIdle, SetZero DEF SetInv, SetTypes, SetAllGood, SetGood, Set!May
<1>6. SetFds'
  BY <1>1, SetIdle DEF SetInv, SetTypes, SetFds
<1>7. ASSUME ~Set!May("together")' PROVE SetAlone'
  <2>1. SetAlone
    BY <1>1, <1>7 DEF SetInv, Set!May
  <2>2. \A q \in Savers : saver'[q].pc = "idle"
    BY <1>1, <2>1, SetIdle DEF SetInv, SetTypes, SetAlone, SetOne
  <2>3. SetCurrent'
    BY <1>1, <1>3, <2>1 DEF SetAlone, SetCurrent, Set!May
  <2> QED BY <2>2, <2>3 DEF SetAlone, SetOne, SetSaver
<1> QED BY <1>4, <1>5, <1>6, <1>7, <1>1 DEF SetInv

LEMMA SetEditInv ==
    ASSUME SetInv, Set!Edit
    PROVE  SetInv'
<1>1. /\ path # Set!Missing /\ changes < MaxSaves /\ changes' = changes + 1 /\ UNCHANGED <<path, temp, saver, setmix>>
      /\ Set!May("edit")
      /\ \A p \in Savers : saver[p].pc \in {"idle", "merge"}
  BY DEF Set!Edit
<1>2. path \in Set!YamlInodes /\ path # temp
  BY <1>1 DEF SetInv, SetTypes
<1>3. /\ yaml' \in [Set!YamlInodes -> SetFiles]
      /\ \A i \in Set!YamlInodes : yaml'[i].own = yaml[i].own
      /\ want' \in [now : SetOwns, next : SetOwns, other : BOOLEAN, nextOther : BOOLEAN]
      /\ want'.now = want.now /\ want'.next = want.next
      /\ yaml[path].other = want.other => yaml'[path].other = want'.other
  <2>1. CASE ~yaml[path].broken /\ yaml' = [yaml EXCEPT ![path].other = TRUE] /\ want' = [want EXCEPT !.other = TRUE]
    BY <2>1, <1>2 DEF SetInv, SetTypes, SetFiles
  <2>2. CASE yaml' = [yaml EXCEPT ![path].broken = ~@] /\ UNCHANGED want
    BY <2>2, <1>2 DEF SetInv, SetTypes, SetFiles
  <2> QED BY <2>1, <2>2 DEF Set!Edit
<1>4. SetTypes'
  BY <1>1, <1>3, SettingsAssumption DEF SetInv, SetTypes
<1>5. SetAllGood'
  BY <1>1, <1>3 DEF SetInv, SetAllGood, SetGood, Set!May
<1>6. SetFds'
  BY <1>1 DEF SetInv, SetFds
<1>7. ASSUME ~Set!May("together")' PROVE SetAlone'
  <2>1. SetAlone
    BY <1>1, <1>7 DEF SetInv, Set!May
  <2>2. SetOne' /\ \A q \in Savers : SetSaver(q)'
    BY <1>1, <1>3, <2>1 DEF SetAlone, SetOne, SetSaver
  <2>3. SetCurrent'
    BY <1>1, <1>2, <1>3, <2>1 DEF SetAlone, SetCurrent, Set!May
  <2> QED BY <2>2, <2>3 DEF SetAlone
<1> QED BY <1>4, <1>5, <1>6, <1>7, <1>1 DEF SetInv

LEMMA SetNextInv == SetInv /\ Set!Next => SetInv'
<1> SUFFICES ASSUME SetInv, Set!Next PROVE SetInv'
  OBVIOUS
<1>1. CASE Set!Edit
  BY <1>1, SetEditInv
<1>2. ASSUME NEW p \in Savers, Set!Load(p) \/ Set!Save(p) \/ Set!Kill(p) PROVE SetInv'
  BY <1>2, SetLoadInv, SetMergeInv, SetCreateInv, SetWriteInv, SetRenameInv, SetKillInv DEF Set!Save
<1> QED BY <1>1, <1>2 DEF Set!Next

LEMMA SetStutterInv == SetInv /\ UNCHANGED Set!setvars => SetInv'
<1> SUFFICES ASSUME SetInv, UNCHANGED Set!setvars PROVE SetInv'
  OBVIOUS
<1>1. UNCHANGED <<yaml, path, temp, saver, want, changes, setmix>>
  BY DEF Set!setvars
<1>2. SetTypes' /\ SetFds'
  BY <1>1 DEF SetInv, SetTypes, SetFds
<1>3. SetAllGood'
  BY <1>1 DEF SetInv, SetAllGood, SetGood, Set!May
<1>4. SetAlone => SetAlone'
  BY <1>1 DEF SetAlone, SetOne, SetSaver, SetCurrent, SetFile, Set!May
<1> QED BY <1>1, <1>2, <1>3, <1>4 DEF SetInv, Set!May

LEMMA SetSafeFromInv == SetInv => Set!SettingsSafe
<1> SUFFICES ASSUME SetInv PROVE Set!SettingsSafe
  OBVIOUS
<1>1. Set!TypeOK
  <2>1. \A i \in Set!YamlInodes : /\ yaml[i].own.locs \subseteq Locations /\ Set!NamesOf(yaml[i].own) \subseteq Profiles
                          /\ yaml[i].own.default \in Locations \cup {Set!Unset, Set!AbsPath}
    <3> SUFFICES ASSUME NEW i \in Set!YamlInodes
                 PROVE  /\ yaml[i].own.locs \subseteq Locations /\ Set!NamesOf(yaml[i].own) \subseteq Profiles
                        /\ yaml[i].own.default \in Locations \cup {Set!Unset, Set!AbsPath}
      OBVIOUS
    <3>1. yaml[i].own \in SetOwns
      BY DEF SetInv, SetAllGood, SetGood
    <3>2. Set!RegistryProfiles(yaml[i].own) \in SUBSET SetProfiles
      BY <3>1, SetProfilesTyped
    <3>3. Set!NamesOf(yaml[i].own) \subseteq Profiles
      BY <3>2 DEF Set!NamesOf, SetProfiles
    <3> QED BY <3>1, <3>3 DEF SetOwns
  <2> QED BY <2>1 DEF SetInv, SetTypes, SetSteps, Set!TypeOK
<1>2. Set!SavesAtomic /\ Set!OthersKept
  BY DEF SetInv, SetAlone, SetCurrent, Set!SavesAtomic, Set!OthersKept
<1>3. Set!ProfilesValid /\ Set!DefaultResolves
  BY DEF SetInv, SetAllGood, SetGood, Set!ProfilesValid, Set!DefaultResolves
<1> QED BY <1>1, <1>2, <1>3 DEF Set!SettingsSafe
-----------------------------------------------------------------------------
MedApart == \A m \in WMixes : "apart" \in m

MedPcs ==
    {"new", "download", "lookup", "extract", "attach", "copy", "master", "mastering", "rename",
     "disk", "config", "move", "done", "failed", "killed"}

MedScratches == [extract : BOOLEAN, mount : BOOLEAN, attached : BOOLEAN]

MedWdirs == [at : {"none", "tmp", "storage"}, disk : BOOLEAN, media : Media!Media \cup {"unset"}]

MedCreators == [pc : MedPcs, conf : Media!Media, flag : Media!Media, answer : Media!Media]

MedOne == \A c, d \in Creators : Media!Running(c) /\ Media!Running(d) /\ Media!My(c) = Media!My(d) => c = d

(* What a creation has at each of its steps. *)
MedCreator(c) ==
    /\ Media!My(c) = Media!Options(creator[c].conf, creator[c].flag)
    /\ creator[c].pc \in {"lookup", "extract", "attach", "copy", "master", "mastering", "rename"} => Media!My(c) \in Answers
    /\ Media!At(c, "rename") => isotmp[Media!My(c)] = "whole"
    /\ creator[c].pc \in {"new", "download", "lookup", "extract", "disk", "config", "move", "done", "failed"} =>
           scratch[c] = Media!Nothing
    /\ Media!At(c, "attach") => scratch[c].mount
    /\ creator[c].pc \in {"new", "failed"} => wdir[c] = Media!NoDir
    /\ wdir[c].at = "storage" => Media!At(c, "done")
    /\ creator[c].pc \in {"config", "move", "done"} => wdir[c].disk /\ (\A t \in Media!Tools : tools[t] # {})
    /\ creator[c].pc \in {"move", "done"} => wdir[c].media = Media!My(c)
    /\ creator[c].pc \in {"disk", "config", "move", "done"} => iso[Media!My(c)].st # "none"

MedMasters ==
    \A a \in Answers : isotmp[a] # "none" =>
        \E c \in Creators : Media!At(c, "killed") \/ (creator[c].pc \in {"mastering", "rename"} /\ Media!My(c) = a)

MedInv ==
    /\ Media!TypeOK
    /\ Media!CachedMediaWhole
    /\ MedOne
    /\ \A c \in Creators : MedCreator(c)
    /\ MedMasters
-----------------------------------------------------------------------------
LEMMA MedDirs == Media!TypeOK => Media!Nothing \in [extract : BOOLEAN, mount : BOOLEAN, attached : BOOLEAN]
                        /\ Media!NoDir \in [at : {"none", "tmp", "storage"}, disk : BOOLEAN, media : Media!Media \cup {"unset"}]
  BY DEF Media!Nothing, Media!NoDir

LEMMA MedTools == Media!validate(Media!Toolchain) => \A t \in Media!Tools : tools[t] # {}
<1> SUFFICES ASSUME Media!validate(Media!Toolchain) PROVE \A t \in Media!Tools : tools[t] # {}
  OBVIOUS
<1>1. \A t : tools[t] = {} => Media!FirstExisting(t) = Media!NotFound
  BY DEF Media!FirstExisting
<1>2. tools["fw"] # {}
  BY <1>1 DEF Media!validate, Media!Toolchain
<1>3. tools["system"] # {}
  BY <1>1 DEF Media!validate, Media!Toolchain, Media!Downloaded
<1>4. tools["img"] # {}
  BY <1>1 DEF Media!validate, Media!Toolchain, Media!Downloaded
<1> QED BY <1>2, <1>3, <1>4 DEF Media!Tools

(* A creation is not disturbed by a step of another. *)
LEMMA MedOthers ==
    ASSUME MedInv, NEW c \in Creators,
           \A d \in Creators \ {c} :
               /\ creator'[d] = creator[d] /\ scratch'[d] = scratch[d] /\ wdir'[d] = wdir[d]
               /\ Media!At(d, "rename") => isotmp'[Media!My(d)] = isotmp[Media!My(d)],
           \A a \in Media!Media : iso[a].st # "none" => iso'[a].st # "none",
           tools' = tools
    PROVE  \A d \in Creators \ {c} : MedCreator(d)'
<1> SUFFICES ASSUME NEW d \in Creators \ {c} PROVE MedCreator(d)'
  OBVIOUS
<1>1. MedCreator(d) /\ Media!My(d) \in Media!Media
  BY DEF MedInv, Media!TypeOK, Media!My
<1> QED BY <1>1 DEF MedCreator, Media!At, Media!My

(* Nor does a creation that goes on begin to share an answer file. *)
LEMMA MedOneKept ==
    ASSUME MedInv, NEW c \in Creators,
           \A d \in Creators \ {c} : creator'[d] = creator[d],
           Media!My(c)' = Media!My(c), Media!Running(c)' => Media!Running(c)
    PROVE  MedOne'
  BY DEF MedInv, MedOne, Media!My, Media!Running

LEMMA MedInitInv == Media!Init => MedInv
<1> SUFFICES ASSUME Media!Init PROVE MedInv
  OBVIOUS
<1>1. Media!TypeOK
  <2>1. iso \in [Media!Media -> [st : {"none", "part", "whole"}, has : Media!Media]] /\ isotmp \in [Answers -> {"none", "part", "whole"}]
    BY DEF Media!Init, Media!NoISO, Media!Media
  <2>2. creator \in [Creators ->
           [pc : {"new", "download", "lookup", "extract", "attach", "copy", "master", "mastering", "rename",
                  "disk", "config", "move", "done", "failed", "killed"},
            conf : Media!Media, flag : Media!Media, answer : Media!Media]]
    BY DEF Media!Init, Media!Media
  <2>3. /\ scratch \in [Creators -> [extract : BOOLEAN, mount : BOOLEAN, attached : BOOLEAN]]
        /\ \A c \in Creators : scratch[c].attached => scratch[c].mount
        /\ wdir \in [Creators -> [at : {"none", "tmp", "storage"}, disk : BOOLEAN, media : Media!Media \cup {"unset"}]]
    BY DEF Media!Init, Media!Nothing, Media!NoDir
  <2>4. tools \in [Media!Tools -> SUBSET {"env", "path", "cache"}]
    <3>1. Places[1] \in {"env", "path"} /\ Places[2] \in {"env", "path"}
      BY MediaAssumption
    <3> QED BY <3>1 DEF Media!Init
  <2> QED BY <2>1, <2>2, <2>3, <2>4 DEF Media!TypeOK, Media!Init
<1>2. Media!CachedMediaWhole
  BY DEF Media!Init, Media!CachedMediaWhole, Media!NoISO
<1>3. MedOne
  BY DEF Media!Init, MedOne, Media!Running
<1>4. \A c \in Creators : MedCreator(c)
  BY DEF Media!Init, MedCreator, Media!At, Media!My, Media!Options, Media!NoDir
<1>5. MedMasters
  BY DEF Media!Init, MedMasters
<1> QED BY <1>1, <1>2, <1>3, <1>4, <1>5 DEF MedInv

LEMMA MedConstants == Media!Nothing \in MedScratches /\ ~Media!Nothing.attached /\ Media!NoDir \in MedWdirs
                      /\ Media!NoDir.at = "none" /\ [Media!Nothing EXCEPT !.extract = TRUE] \in MedScratches
                      /\ ~[Media!Nothing EXCEPT !.extract = TRUE].attached
  BY DEF Media!Nothing, Media!NoDir, MedScratches, MedWdirs

LEMMA MedTyped ==
    Media!TypeOK <=> /\ iso \in [Media!Media -> [st : {"none", "part", "whole"}, has : Media!Media]]
                     /\ isotmp \in [Answers -> {"none", "part", "whole"}]
                     /\ creator \in [Creators -> MedCreators]
                     /\ scratch \in [Creators -> MedScratches]
                     /\ \A c \in Creators : scratch[c].attached => scratch[c].mount
                     /\ wdir \in [Creators -> MedWdirs]
                     /\ tools \in [Media!Tools -> SUBSET {"env", "path", "cache"}]
                     /\ wmix \in WMixes
  BY DEF Media!TypeOK, MedCreators, MedPcs, MedScratches, MedWdirs

LEMMA MedTypedNext ==
    ASSUME Media!TypeOK, UNCHANGED <<tools, wmix>>,
           iso' \in [Media!Media -> [st : {"none", "part", "whole"}, has : Media!Media]],
           isotmp' \in [Answers -> {"none", "part", "whole"}],
           creator' \in [Creators -> MedCreators],
           NEW c \in Creators,
           NEW s \in MedScratches, s.attached => s.mount, scratch' = [scratch EXCEPT ![c] = s],
           NEW w \in MedWdirs, wdir' = [wdir EXCEPT ![c] = w]
    PROVE  Media!TypeOK'
<1>1. scratch' \in [Creators -> MedScratches] /\ \A d \in Creators : scratch'[d].attached => scratch'[d].mount
  BY MedTyped
<1>2. wdir' \in [Creators -> MedWdirs]
  BY MedTyped
<1> QED BY <1>1, <1>2, MedTyped DEF Media!TypeOK, MedCreators, MedPcs, MedScratches, MedWdirs

LEMMA MedWent ==
    ASSUME MedInv, NEW c \in Creators, NEW x \in MedPcs, Media!Goto(c, x), Media!Running(c)
    PROVE  /\ creator' \in [Creators -> MedCreators]
           /\ \A d \in Creators \ {c} : creator'[d] = creator[d]
           /\ creator'[c].pc = x /\ creator'[c].conf = creator[c].conf
           /\ creator'[c].flag = creator[c].flag /\ creator'[c].answer = creator[c].answer
           /\ MedOne'
<1>1. creator \in [Creators -> MedCreators] /\ creator' = [creator EXCEPT ![c].pc = x]
  BY MedTyped DEF MedInv, Media!Goto
<1>2. /\ creator' \in [Creators -> MedCreators]
      /\ \A d \in Creators \ {c} : creator'[d] = creator[d]
      /\ creator'[c].pc = x /\ creator'[c].conf = creator[c].conf
      /\ creator'[c].flag = creator[c].flag /\ creator'[c].answer = creator[c].answer
  BY <1>1 DEF MedCreators
<1>3. MedOne'
  BY <1>2, MedOneKept DEF Media!My
<1> QED BY <1>2, <1>3

(* A step that touches no medium. *)
LEMMA MedQuiet ==
    ASSUME MedInv, NEW c \in Creators, NEW x \in MedPcs, Media!Goto(c, x), Media!Running(c),
           x = "killed" \/ creator[c].pc \notin {"mastering", "rename"},
           UNCHANGED <<iso, isotmp, tools, wmix>>,
           NEW s \in MedScratches, s.attached => s.mount, scratch' = [scratch EXCEPT ![c] = s],
           NEW w \in MedWdirs, wdir' = [wdir EXCEPT ![c] = w],
           MedCreator(c)'
    PROVE  MedInv'
<1>1. Media!TypeOK'
  BY MedWent, MedTypedNext, MedTyped DEF MedInv
<1>2. Media!CachedMediaWhole'
  BY DEF MedInv, Media!CachedMediaWhole
<1>3. \A d \in Creators \ {c} : creator'[d] = creator[d] /\ scratch'[d] = scratch[d] /\ wdir'[d] = wdir[d]
  BY MedWent, MedTyped DEF MedInv
<1>4. \A d \in Creators \ {c} : MedCreator(d)'
  BY <1>3, MedOthers
<1>5. creator'[c].pc = x
  BY MedWent
<1>6. MedMasters'
  BY <1>3, <1>5 DEF MedInv, MedMasters, Media!At, Media!My, Media!Running
<1> QED BY <1>1, <1>2, <1>4, <1>6, MedWent DEF MedInv

(* Whatever fails, its directories, its mount and its half medium go. *)
LEMMA MedFails ==
    ASSUME MedInv, NEW c \in Creators, Media!Fails(c), Media!Running(c),
           UNCHANGED <<iso, tools, wmix>>, scratch' = [scratch EXCEPT ![c] = Media!Nothing],
           \/ isotmp' = isotmp /\ creator[c].pc \notin {"mastering", "rename"}
           \/ isotmp' = [isotmp EXCEPT ![Media!My(c)] = "none"] /\ Media!At(c, "mastering")
    PROVE  MedInv'
<1>1. Media!Goto(c, "failed") /\ "failed" \in MedPcs /\ wdir' = [wdir EXCEPT ![c] = Media!NoDir]
  BY DEF Media!Fails, MedPcs
<1>2. /\ creator' \in [Creators -> MedCreators]
      /\ \A d \in Creators \ {c} : creator'[d] = creator[d]
      /\ creator'[c].pc = "failed" /\ creator'[c].conf = creator[c].conf
      /\ creator'[c].flag = creator[c].flag /\ creator'[c].answer = creator[c].answer
      /\ MedOne'
  BY <1>1, MedWent
<1>3. isotmp' \in [Answers -> {"none", "part", "whole"}]
      /\ \A a \in Answers : isotmp'[a] # "none" =>
            isotmp[a] # "none" /\ ~(creator[c].pc \in {"mastering", "rename"} /\ Media!My(c) = a)
  BY MedTyped DEF MedInv, Media!At
<1>4. Media!TypeOK'
  BY <1>1, <1>2, <1>3, MedConstants, MedTypedNext, MedTyped DEF MedInv
<1>5. Media!CachedMediaWhole'
  BY DEF MedInv, Media!CachedMediaWhole
<1>6. \A d \in Creators \ {c} : creator'[d] = creator[d] /\ scratch'[d] = scratch[d] /\ wdir'[d] = wdir[d]
  BY <1>1, <1>2, MedTyped DEF MedInv
<1>7. \A d \in Creators \ {c} : Media!At(d, "rename") => isotmp'[Media!My(d)] = isotmp[Media!My(d)]
  <2> SUFFICES ASSUME NEW d \in Creators \ {c}, Media!At(d, "rename"), Media!At(c, "mastering")
               PROVE  Media!My(d) # Media!My(c) /\ Media!My(d) \in Answers
    BY MedTyped DEF MedInv
  <2> QED BY DEF MedInv, MedOne, MedCreator, Media!At, Media!Running
<1>8. \A d \in Creators \ {c} : MedCreator(d)'
  BY <1>6, <1>7, MedOthers
<1>9. MedCreator(c)'
  <2>1. scratch'[c] = Media!Nothing /\ wdir'[c] = Media!NoDir
    BY <1>1, MedTyped DEF MedInv
  <2>2. Media!My(c) = Media!Options(creator[c].conf, creator[c].flag)
    BY DEF MedInv, MedCreator
  <2> QED BY <1>2, <2>1, <2>2, MedConstants DEF MedCreator, Media!At, Media!My, Media!Options
<1>10. MedMasters'
  BY <1>2, <1>3 DEF MedInv, MedMasters, Media!At, Media!My, Media!Running
<1> QED BY <1>2, <1>4, <1>5, <1>8, <1>9, <1>10 DEF MedInv

LEMMA MedCachedInv ==
    ASSUME MedInv, NEW c \in Creators, Media!Cached(c)
    PROVE  MedInv'
<1>1. Media!Running(c) /\ UNCHANGED <<iso, isotmp, tools, wmix>>
      /\ scratch = [scratch EXCEPT ![c] = scratch[c]] /\ wdir = [wdir EXCEPT ![c] = wdir[c]]
      /\ scratch[c] \in MedScratches /\ wdir[c] \in MedWdirs /\ (scratch[c].attached => scratch[c].mount)
      /\ creator[c].answer \in Media!Media
  BY MedTyped DEF Media!Cached, Media!Running, Media!At, MedInv, MedCreators
<1>2. MedCreator(c)
  BY DEF MedInv
<1>3. CASE Media!Goto(c, "disk") /\ iso[Media!My(c)].st # "none" /\ UNCHANGED <<scratch, wdir>>
  <2>1. Media!Goto(c, "disk") /\ "disk" \in MedPcs
    BY <1>3 DEF Media!Cached, MedPcs
  <2>2. scratch' = [scratch EXCEPT ![c] = scratch[c]] /\ scratch[c] \in MedScratches /\ (scratch[c].attached => scratch[c].mount)
    BY <1>3, <1>1, <1>2 DEF Media!Cached, MedScratches, Media!Nothing, MedCreator, Media!At
  <2>3. wdir' = [wdir EXCEPT ![c] = wdir[c]] /\ wdir[c] \in MedWdirs
    BY <1>3, <1>1 DEF Media!Cached, MedWdirs, Media!My
  <2>4. scratch'[c] = scratch[c] /\ wdir'[c] = wdir[c]
    BY <2>2, <2>3, MedTyped DEF MedInv
  <2>5. creator'[c].pc = "disk" /\ creator'[c].conf = creator[c].conf
        /\ creator'[c].flag = creator[c].flag /\ creator'[c].answer = creator[c].answer
    BY <2>1, <1>1, MedWent
  <2>6. MedCreator(c)'
    BY <1>3, <1>1, <1>2, <2>4, <2>5 DEF Media!Cached, MedCreator, Media!At, Media!My, Media!Running, Media!Options, MedWdirs, MedScratches, Media!Nothing, Media!NoDir
  <2>7. "disk" = "killed" \/ creator[c].pc \notin {"mastering", "rename"}
    BY DEF Media!Cached, Media!At
  <2> HIDE DEF Media!Cached
  <2> QED BY <1>1, <2>1, <2>2, <2>3, <2>6, <2>7, MedQuiet
<1>4. CASE Media!Goto(c, "extract") /\ UNCHANGED <<scratch, wdir>>
  <2>1. Media!Goto(c, "extract") /\ "extract" \in MedPcs
    BY <1>4 DEF Media!Cached, MedPcs
  <2>2. scratch' = [scratch EXCEPT ![c] = scratch[c]] /\ scratch[c] \in MedScratches /\ (scratch[c].attached => scratch[c].mount)
    BY <1>4, <1>1, <1>2 DEF Media!Cached, MedScratches, Media!Nothing, MedCreator, Media!At
  <2>3. wdir' = [wdir EXCEPT ![c] = wdir[c]] /\ wdir[c] \in MedWdirs
    BY <1>4, <1>1 DEF Media!Cached, MedWdirs, Media!My
  <2>4. scratch'[c] = scratch[c] /\ wdir'[c] = wdir[c]
    BY <2>2, <2>3, MedTyped DEF MedInv
  <2>5. creator'[c].pc = "extract" /\ creator'[c].conf = creator[c].conf
        /\ creator'[c].flag = creator[c].flag /\ creator'[c].answer = creator[c].answer
    BY <2>1, <1>1, MedWent
  <2>6. MedCreator(c)'
    BY <1>4, <1>1, <1>2, <2>4, <2>5 DEF Media!Cached, MedCreator, Media!At, Media!My, Media!Running, Media!Options, MedWdirs, MedScratches, Media!Nothing, Media!NoDir
  <2>7. "extract" = "killed" \/ creator[c].pc \notin {"mastering", "rename"}
    BY DEF Media!Cached, Media!At
  <2> HIDE DEF Media!Cached
  <2> QED BY <1>1, <2>1, <2>2, <2>3, <2>6, <2>7, MedQuiet
<1> QED BY <1>3, <1>4 DEF Media!Cached

LEMMA MedMakeDirsInv ==
    ASSUME MedInv, NEW c \in Creators, Media!MakeDirs(c)
    PROVE  MedInv'
<1>1. Media!Running(c) /\ UNCHANGED <<iso, isotmp, tools, wmix>>
      /\ scratch = [scratch EXCEPT ![c] = scratch[c]] /\ wdir = [wdir EXCEPT ![c] = wdir[c]]
      /\ scratch[c] \in MedScratches /\ wdir[c] \in MedWdirs /\ (scratch[c].attached => scratch[c].mount)
      /\ creator[c].answer \in Media!Media
  BY MedTyped DEF Media!MakeDirs, Media!Running, Media!At, MedInv, MedCreators
<1>2. MedCreator(c)
  BY DEF MedInv
<1>3. CASE TRUE
  <2>1. Media!Goto(c, "attach") /\ "attach" \in MedPcs
    BY <1>3 DEF Media!MakeDirs, MedPcs
  <2>a. [scratch[c] EXCEPT !.extract = TRUE, !.mount = TRUE].mount = TRUE
    BY <1>1 DEF MedScratches
  <2>2. scratch' = [scratch EXCEPT ![c] = [scratch[c] EXCEPT !.extract = TRUE, !.mount = TRUE]] /\ [scratch[c] EXCEPT !.extract = TRUE, !.mount = TRUE] \in MedScratches /\ ([scratch[c] EXCEPT !.extract = TRUE, !.mount = TRUE].attached => [scratch[c] EXCEPT !.extract = TRUE, !.mount = TRUE].mount)
    BY <2>a, <1>3, <1>1, <1>2 DEF Media!MakeDirs, MedScratches, Media!Nothing, MedCreator, Media!At
  <2>3. wdir' = [wdir EXCEPT ![c] = wdir[c]] /\ wdir[c] \in MedWdirs
    BY <1>3, <1>1 DEF Media!MakeDirs, MedWdirs, Media!My
  <2>4. scratch'[c] = [scratch[c] EXCEPT !.extract = TRUE, !.mount = TRUE] /\ wdir'[c] = wdir[c]
    BY <2>2, <2>3, MedTyped DEF MedInv
  <2>5. creator'[c].pc = "attach" /\ creator'[c].conf = creator[c].conf
        /\ creator'[c].flag = creator[c].flag /\ creator'[c].answer = creator[c].answer
    BY <2>1, <1>1, MedWent
  <2>6. MedCreator(c)'
    BY <1>3, <1>1, <1>2, <2>4, <2>5, <2>a DEF Media!MakeDirs, MedCreator, Media!At, Media!My, Media!Running, Media!Options, MedWdirs, MedScratches, Media!Nothing, Media!NoDir
  <2>7. "attach" = "killed" \/ creator[c].pc \notin {"mastering", "rename"}
    BY DEF Media!MakeDirs, Media!At
  <2> HIDE DEF Media!MakeDirs
  <2> QED BY <1>1, <2>1, <2>2, <2>3, <2>6, <2>7, MedQuiet
<1> QED BY <1>3 DEF Media!MakeDirs

LEMMA MedAttachInv ==
    ASSUME MedInv, NEW c \in Creators, Media!Attach(c)
    PROVE  MedInv'
<1>1. Media!Running(c) /\ UNCHANGED <<iso, isotmp, tools, wmix>>
      /\ scratch = [scratch EXCEPT ![c] = scratch[c]] /\ wdir = [wdir EXCEPT ![c] = wdir[c]]
      /\ scratch[c] \in MedScratches /\ wdir[c] \in MedWdirs /\ (scratch[c].attached => scratch[c].mount)
      /\ creator[c].answer \in Media!Media
  BY MedTyped DEF Media!Attach, Media!Running, Media!At, MedInv, MedCreators
<1>2. MedCreator(c)
  BY DEF MedInv
<1>3. CASE Media!Goto(c, "copy") /\ scratch' = [scratch EXCEPT ![c].attached = TRUE] /\ UNCHANGED wdir
  <2>1. Media!Goto(c, "copy") /\ "copy" \in MedPcs
    BY <1>3 DEF Media!Attach, MedPcs
  <2>2. scratch' = [scratch EXCEPT ![c] = [scratch[c] EXCEPT !.attached = TRUE]] /\ [scratch[c] EXCEPT !.attached = TRUE] \in MedScratches /\ ([scratch[c] EXCEPT !.attached = TRUE].attached => [scratch[c] EXCEPT !.attached = TRUE].mount)
    BY <1>3, <1>1, <1>2 DEF Media!Attach, MedScratches, Media!Nothing, MedCreator, Media!At
  <2>3. wdir' = [wdir EXCEPT ![c] = wdir[c]] /\ wdir[c] \in MedWdirs
    BY <1>3, <1>1 DEF Media!Attach, MedWdirs, Media!My
  <2>4. scratch'[c] = [scratch[c] EXCEPT !.attached = TRUE] /\ wdir'[c] = wdir[c]
    BY <2>2, <2>3, MedTyped DEF MedInv
  <2>5. creator'[c].pc = "copy" /\ creator'[c].conf = creator[c].conf
        /\ creator'[c].flag = creator[c].flag /\ creator'[c].answer = creator[c].answer
    BY <2>1, <1>1, MedWent
  <2>6. MedCreator(c)'
    BY <1>3, <1>1, <1>2, <2>4, <2>5 DEF Media!Attach, MedCreator, Media!At, Media!My, Media!Running, Media!Options, MedWdirs, MedScratches, Media!Nothing, Media!NoDir
  <2>7. "copy" = "killed" \/ creator[c].pc \notin {"mastering", "rename"}
    BY DEF Media!Attach, Media!At
  <2> HIDE DEF Media!Attach
  <2> QED BY <1>1, <2>1, <2>2, <2>3, <2>6, <2>7, MedQuiet
<1>4. CASE Media!Fails(c) /\ scratch' = [scratch EXCEPT ![c] = Media!Nothing]
  <2>1. scratch' = [scratch EXCEPT ![c] = Media!Nothing]
    BY <1>4, <1>1, <1>2 DEF Media!Attach, MedCreator, Media!At, Media!CopyFails
  <2>2. creator[c].pc \notin {"mastering", "rename"}
    BY DEF Media!Attach, Media!At
  <2>3. Media!Fails(c) /\ Media!Running(c) /\ isotmp' = isotmp /\ UNCHANGED <<iso, tools, wmix>>
    BY <1>4, <1>1
  <2>4. \/ isotmp' = isotmp /\ creator[c].pc \notin {"mastering", "rename"}
        \/ isotmp' = [isotmp EXCEPT ![Media!My(c)] = "none"] /\ Media!At(c, "mastering")
    BY <2>2, <2>3
  <2> HIDE DEF Media!Attach
  <2> QED BY <2>1, <2>3, <2>4, MedFails
<1> QED BY <1>3, <1>4 DEF Media!Attach

LEMMA MedCopyOutInv ==
    ASSUME MedInv, NEW c \in Creators, Media!CopyOut(c)
    PROVE  MedInv'
<1>1. Media!Running(c) /\ UNCHANGED <<iso, isotmp, tools, wmix>>
      /\ scratch = [scratch EXCEPT ![c] = scratch[c]] /\ wdir = [wdir EXCEPT ![c] = wdir[c]]
      /\ scratch[c] \in MedScratches /\ wdir[c] \in MedWdirs /\ (scratch[c].attached => scratch[c].mount)
      /\ creator[c].answer \in Media!Media
  BY MedTyped DEF Media!CopyOut, Media!Running, Media!At, MedInv, MedCreators
<1>2. MedCreator(c)
  BY DEF MedInv
<1>3. CASE Media!Goto(c, "master") /\ scratch' = [scratch EXCEPT ![c] = [Media!Nothing EXCEPT !.extract = TRUE]] /\ UNCHANGED wdir
  <2>1. Media!Goto(c, "master") /\ "master" \in MedPcs
    BY <1>3 DEF Media!CopyOut, MedPcs
  <2>2. scratch' = [scratch EXCEPT ![c] = [Media!Nothing EXCEPT !.extract = TRUE]] /\ [Media!Nothing EXCEPT !.extract = TRUE] \in MedScratches /\ ([Media!Nothing EXCEPT !.extract = TRUE].attached => [Media!Nothing EXCEPT !.extract = TRUE].mount)
    BY <1>3, <1>1, <1>2 DEF Media!CopyOut, MedScratches, Media!Nothing, MedCreator, Media!At
  <2>3. wdir' = [wdir EXCEPT ![c] = wdir[c]] /\ wdir[c] \in MedWdirs
    BY <1>3, <1>1 DEF Media!CopyOut, MedWdirs, Media!My
  <2>4. scratch'[c] = [Media!Nothing EXCEPT !.extract = TRUE] /\ wdir'[c] = wdir[c]
    BY <2>2, <2>3, MedTyped DEF MedInv
  <2>5. creator'[c].pc = "master" /\ creator'[c].conf = creator[c].conf
        /\ creator'[c].flag = creator[c].flag /\ creator'[c].answer = creator[c].answer
    BY <2>1, <1>1, MedWent
  <2>6. MedCreator(c)'
    BY <1>3, <1>1, <1>2, <2>4, <2>5 DEF Media!CopyOut, MedCreator, Media!At, Media!My, Media!Running, Media!Options, MedWdirs, MedScratches, Media!Nothing, Media!NoDir
  <2>7. "master" = "killed" \/ creator[c].pc \notin {"mastering", "rename"}
    BY DEF Media!CopyOut, Media!At
  <2> HIDE DEF Media!CopyOut
  <2> QED BY <1>1, <2>1, <2>2, <2>3, <2>6, <2>7, MedQuiet
<1>4. CASE Media!Fails(c) /\ Media!CopyFails(c)
  <2>1. scratch' = [scratch EXCEPT ![c] = Media!Nothing]
    BY <1>4, <1>1, <1>2 DEF Media!CopyOut, MedCreator, Media!At, Media!CopyFails
  <2>2. creator[c].pc \notin {"mastering", "rename"}
    BY DEF Media!CopyOut, Media!At
  <2>3. Media!Fails(c) /\ Media!Running(c) /\ isotmp' = isotmp /\ UNCHANGED <<iso, tools, wmix>>
    BY <1>4, <1>1
  <2>4. \/ isotmp' = isotmp /\ creator[c].pc \notin {"mastering", "rename"}
        \/ isotmp' = [isotmp EXCEPT ![Media!My(c)] = "none"] /\ Media!At(c, "mastering")
    BY <2>2, <2>3
  <2> HIDE DEF Media!CopyOut
  <2> QED BY <2>1, <2>3, <2>4, MedFails
<1> QED BY <1>3, <1>4 DEF Media!CopyOut

LEMMA MedMakeDiskInv ==
    ASSUME MedInv, NEW c \in Creators, Media!MakeDisk(c)
    PROVE  MedInv'
<1>1. Media!Running(c) /\ UNCHANGED <<iso, isotmp, tools, wmix>>
      /\ scratch = [scratch EXCEPT ![c] = scratch[c]] /\ wdir = [wdir EXCEPT ![c] = wdir[c]]
      /\ scratch[c] \in MedScratches /\ wdir[c] \in MedWdirs /\ (scratch[c].attached => scratch[c].mount)
      /\ creator[c].answer \in Media!Media
  BY MedTyped DEF Media!MakeDisk, Media!Running, Media!At, MedInv, MedCreators
<1>2. MedCreator(c)
  BY DEF MedInv
<1>3. CASE Media!Goto(c, "config") /\ Media!validate(Media!Toolchain) /\ wdir' = [wdir EXCEPT ![c].disk = TRUE]
  <2>1. Media!Goto(c, "config") /\ "config" \in MedPcs
    BY <1>3 DEF Media!MakeDisk, MedPcs
  <2>2. scratch' = [scratch EXCEPT ![c] = scratch[c]] /\ scratch[c] \in MedScratches /\ (scratch[c].attached => scratch[c].mount)
    BY <1>3, <1>1, <1>2 DEF Media!MakeDisk, MedScratches, Media!Nothing, MedCreator, Media!At
  <2>3. wdir' = [wdir EXCEPT ![c] = [wdir[c] EXCEPT !.disk = TRUE]] /\ [wdir[c] EXCEPT !.disk = TRUE] \in MedWdirs
    BY <1>3, <1>1 DEF Media!MakeDisk, MedWdirs, Media!My
  <2>4. scratch'[c] = scratch[c] /\ wdir'[c] = [wdir[c] EXCEPT !.disk = TRUE]
    BY <2>2, <2>3, MedTyped DEF MedInv
  <2>5. creator'[c].pc = "config" /\ creator'[c].conf = creator[c].conf
        /\ creator'[c].flag = creator[c].flag /\ creator'[c].answer = creator[c].answer
    BY <2>1, <1>1, MedWent
  <2>6. MedCreator(c)'
    BY <1>3, <1>1, <1>2, <2>4, <2>5, MedTools DEF Media!MakeDisk, MedCreator, Media!At, Media!My, Media!Running, Media!Options, MedWdirs, MedScratches, Media!Nothing, Media!NoDir
  <2>7. "config" = "killed" \/ creator[c].pc \notin {"mastering", "rename"}
    BY DEF Media!MakeDisk, Media!At
  <2> HIDE DEF Media!MakeDisk
  <2> QED BY <1>1, <2>1, <2>2, <2>3, <2>6, <2>7, MedQuiet
<1>4. CASE Media!Fails(c) /\ UNCHANGED scratch
  <2>1. scratch' = [scratch EXCEPT ![c] = Media!Nothing]
    BY <1>4, <1>1, <1>2 DEF Media!MakeDisk, MedCreator, Media!At, Media!CopyFails
  <2>2. creator[c].pc \notin {"mastering", "rename"}
    BY DEF Media!MakeDisk, Media!At
  <2>3. Media!Fails(c) /\ Media!Running(c) /\ isotmp' = isotmp /\ UNCHANGED <<iso, tools, wmix>>
    BY <1>4, <1>1
  <2>4. \/ isotmp' = isotmp /\ creator[c].pc \notin {"mastering", "rename"}
        \/ isotmp' = [isotmp EXCEPT ![Media!My(c)] = "none"] /\ Media!At(c, "mastering")
    BY <2>2, <2>3
  <2> HIDE DEF Media!MakeDisk
  <2> QED BY <2>1, <2>3, <2>4, MedFails
<1> QED BY <1>3, <1>4 DEF Media!MakeDisk

LEMMA MedSaveConfigInv ==
    ASSUME MedInv, NEW c \in Creators, Media!SaveConfig(c)
    PROVE  MedInv'
<1>1. Media!Running(c) /\ UNCHANGED <<iso, isotmp, tools, wmix>>
      /\ scratch = [scratch EXCEPT ![c] = scratch[c]] /\ wdir = [wdir EXCEPT ![c] = wdir[c]]
      /\ scratch[c] \in MedScratches /\ wdir[c] \in MedWdirs /\ (scratch[c].attached => scratch[c].mount)
      /\ creator[c].answer \in Media!Media
  BY MedTyped DEF Media!SaveConfig, Media!Running, Media!At, MedInv, MedCreators
<1>2. MedCreator(c)
  BY DEF MedInv
<1>3. CASE TRUE
  <2>1. Media!Goto(c, "move") /\ "move" \in MedPcs
    BY <1>3 DEF Media!SaveConfig, MedPcs
  <2>2. scratch' = [scratch EXCEPT ![c] = scratch[c]] /\ scratch[c] \in MedScratches /\ (scratch[c].attached => scratch[c].mount)
    BY <1>3, <1>1, <1>2 DEF Media!SaveConfig, MedScratches, Media!Nothing, MedCreator, Media!At
  <2>3. wdir' = [wdir EXCEPT ![c] = [wdir[c] EXCEPT !.media = Media!My(c)]] /\ [wdir[c] EXCEPT !.media = Media!My(c)] \in MedWdirs
    BY <1>3, <1>1 DEF Media!SaveConfig, MedWdirs, Media!My
  <2>4. scratch'[c] = scratch[c] /\ wdir'[c] = [wdir[c] EXCEPT !.media = Media!My(c)]
    BY <2>2, <2>3, MedTyped DEF MedInv
  <2>5. creator'[c].pc = "move" /\ creator'[c].conf = creator[c].conf
        /\ creator'[c].flag = creator[c].flag /\ creator'[c].answer = creator[c].answer
    BY <2>1, <1>1, MedWent
  <2>6. MedCreator(c)'
    BY <1>3, <1>1, <1>2, <2>4, <2>5 DEF Media!SaveConfig, MedCreator, Media!At, Media!My, Media!Running, Media!Options, MedWdirs, MedScratches, Media!Nothing, Media!NoDir
  <2>7. "move" = "killed" \/ creator[c].pc \notin {"mastering", "rename"}
    BY DEF Media!SaveConfig, Media!At
  <2> HIDE DEF Media!SaveConfig
  <2> QED BY <1>1, <2>1, <2>2, <2>3, <2>6, <2>7, MedQuiet
<1> QED BY <1>3 DEF Media!SaveConfig

LEMMA MedMoveInInv ==
    ASSUME MedInv, NEW c \in Creators, Media!MoveIn(c)
    PROVE  MedInv'
<1>1. Media!Running(c) /\ UNCHANGED <<iso, isotmp, tools, wmix>>
      /\ scratch = [scratch EXCEPT ![c] = scratch[c]] /\ wdir = [wdir EXCEPT ![c] = wdir[c]]
      /\ scratch[c] \in MedScratches /\ wdir[c] \in MedWdirs /\ (scratch[c].attached => scratch[c].mount)
      /\ creator[c].answer \in Media!Media
  BY MedTyped DEF Media!MoveIn, Media!Running, Media!At, MedInv, MedCreators
<1>2. MedCreator(c)
  BY DEF MedInv
<1>3. CASE Media!Goto(c, "done") /\ wdir' = [wdir EXCEPT ![c].at = "storage"]
  <2>1. Media!Goto(c, "done") /\ "done" \in MedPcs
    BY <1>3 DEF Media!MoveIn, MedPcs
  <2>2. scratch' = [scratch EXCEPT ![c] = scratch[c]] /\ scratch[c] \in MedScratches /\ (scratch[c].attached => scratch[c].mount)
    BY <1>3, <1>1, <1>2 DEF Media!MoveIn, MedScratches, Media!Nothing, MedCreator, Media!At
  <2>3. wdir' = [wdir EXCEPT ![c] = [wdir[c] EXCEPT !.at = "storage"]] /\ [wdir[c] EXCEPT !.at = "storage"] \in MedWdirs
    BY <1>3, <1>1 DEF Media!MoveIn, MedWdirs, Media!My
  <2>4. scratch'[c] = scratch[c] /\ wdir'[c] = [wdir[c] EXCEPT !.at = "storage"]
    BY <2>2, <2>3, MedTyped DEF MedInv
  <2>5. creator'[c].pc = "done" /\ creator'[c].conf = creator[c].conf
        /\ creator'[c].flag = creator[c].flag /\ creator'[c].answer = creator[c].answer
    BY <2>1, <1>1, MedWent
  <2>6. MedCreator(c)'
    BY <1>3, <1>1, <1>2, <2>4, <2>5 DEF Media!MoveIn, MedCreator, Media!At, Media!My, Media!Running, Media!Options, MedWdirs, MedScratches, Media!Nothing, Media!NoDir
  <2>7. "done" = "killed" \/ creator[c].pc \notin {"mastering", "rename"}
    BY DEF Media!MoveIn, Media!At
  <2> HIDE DEF Media!MoveIn
  <2> QED BY <1>1, <2>1, <2>2, <2>3, <2>6, <2>7, MedQuiet
<1>4. CASE Media!Fails(c) /\ UNCHANGED scratch
  <2>1. scratch' = [scratch EXCEPT ![c] = Media!Nothing]
    BY <1>4, <1>1, <1>2 DEF Media!MoveIn, MedCreator, Media!At, Media!CopyFails
  <2>2. creator[c].pc \notin {"mastering", "rename"}
    BY DEF Media!MoveIn, Media!At
  <2>3. Media!Fails(c) /\ Media!Running(c) /\ isotmp' = isotmp /\ UNCHANGED <<iso, tools, wmix>>
    BY <1>4, <1>1
  <2>4. \/ isotmp' = isotmp /\ creator[c].pc \notin {"mastering", "rename"}
        \/ isotmp' = [isotmp EXCEPT ![Media!My(c)] = "none"] /\ Media!At(c, "mastering")
    BY <2>2, <2>3
  <2> HIDE DEF Media!MoveIn
  <2> QED BY <2>1, <2>3, <2>4, MedFails
<1> QED BY <1>3, <1>4 DEF Media!MoveIn

LEMMA MedKillInv ==
    ASSUME MedInv, NEW c \in Creators, Media!Kill(c)
    PROVE  MedInv'
<1>1. Media!Running(c) /\ UNCHANGED <<iso, isotmp, tools, wmix>>
      /\ scratch = [scratch EXCEPT ![c] = scratch[c]] /\ wdir = [wdir EXCEPT ![c] = wdir[c]]
      /\ scratch[c] \in MedScratches /\ wdir[c] \in MedWdirs /\ (scratch[c].attached => scratch[c].mount)
      /\ creator[c].answer \in Media!Media
  BY MedTyped DEF Media!Kill, Media!Running, Media!At, MedInv, MedCreators
<1>2. MedCreator(c)
  BY DEF MedInv
<1>3. CASE TRUE
  <2>1. Media!Goto(c, "killed") /\ "killed" \in MedPcs
    BY <1>3 DEF Media!Kill, MedPcs
  <2>2. scratch' = [scratch EXCEPT ![c] = scratch[c]] /\ scratch[c] \in MedScratches /\ (scratch[c].attached => scratch[c].mount)
    BY <1>3, <1>1, <1>2 DEF Media!Kill, MedScratches, Media!Nothing, MedCreator, Media!At
  <2>3. wdir' = [wdir EXCEPT ![c] = wdir[c]] /\ wdir[c] \in MedWdirs
    BY <1>3, <1>1 DEF Media!Kill, MedWdirs, Media!My
  <2>4. scratch'[c] = scratch[c] /\ wdir'[c] = wdir[c]
    BY <2>2, <2>3, MedTyped DEF MedInv
  <2>5. creator'[c].pc = "killed" /\ creator'[c].conf = creator[c].conf
        /\ creator'[c].flag = creator[c].flag /\ creator'[c].answer = creator[c].answer
    BY <2>1, <1>1, MedWent
  <2>6. MedCreator(c)'
    BY <1>3, <1>1, <1>2, <2>4, <2>5 DEF Media!Kill, MedCreator, Media!At, Media!My, Media!Running, Media!Options, MedWdirs, MedScratches, Media!Nothing, Media!NoDir
  <2>7. "killed" = "killed" \/ creator[c].pc \notin {"mastering", "rename"}
    BY DEF Media!Kill, Media!At
  <2> HIDE DEF Media!Kill
  <2> QED BY <1>1, <2>1, <2>2, <2>3, <2>6, <2>7, MedQuiet
<1> QED BY <1>3 DEF Media!Kill

LEMMA MedBeginInv ==
    ASSUME MedInv, MedApart, NEW c \in Creators, Media!Begin(c)
    PROVE  MedInv'
<1> PICK conf \in Media!Media, flag \in Media!Media :
        /\ "apart" \in wmix => \A d \in Creators : Media!Running(d) => Media!My(d) # Media!Options(conf, flag)
        /\ creator' = [creator EXCEPT ![c] =
               [pc |-> "download", conf |-> conf, flag |-> flag, answer |-> Media!Options(conf, flag)]]
  BY DEF Media!Begin
<1> DEFINE r == [pc |-> "download", conf |-> conf, flag |-> flag, answer |-> Media!Options(conf, flag)]
           w == [wdir[c] EXCEPT !.at = "tmp"]
<1>1. /\ Media!At(c, "new") /\ UNCHANGED <<iso, isotmp, scratch, tools, wmix>>
      /\ creator' = [creator EXCEPT ![c] = r] /\ wdir' = [wdir EXCEPT ![c] = w]
  BY DEF Media!Begin
<1>2. r \in MedCreators /\ r.pc = "download" /\ r.conf = conf /\ r.flag = flag /\ r.answer = Media!Options(conf, flag)
  BY DEF MedCreators, MedPcs, Media!Options
<1>3. w \in MedWdirs /\ w.at = "tmp"
  BY MedTyped DEF MedInv, MedWdirs
<1>4. \A d \in Creators : Media!Running(d) => Media!My(d) # Media!Options(conf, flag)
  BY MedTyped DEF MedInv, MedApart
<1> HIDE DEF r, w
<1>5. /\ creator' \in [Creators -> MedCreators] /\ creator'[c] = r
      /\ \A d \in Creators \ {c} : creator'[d] = creator[d] /\ scratch'[d] = scratch[d] /\ wdir'[d] = wdir[d]
      /\ wdir'[c] = w
  BY <1>1, <1>2, MedTyped DEF MedInv
<1>6. Media!TypeOK'
  <2>1. scratch[c] \in MedScratches /\ (scratch[c].attached => scratch[c].mount)
        /\ scratch' = [scratch EXCEPT ![c] = scratch[c]]
    BY <1>1, MedTyped DEF MedInv
  <2> QED BY <1>1, <1>3, <1>5, <2>1, MedTypedNext, MedTyped DEF MedInv
<1>7. Media!CachedMediaWhole'
  BY <1>1 DEF MedInv, Media!CachedMediaWhole
<1>8. MedOne'
  BY <1>2, <1>4, <1>5 DEF MedInv, MedOne, Media!My, Media!Running
<1>9. \A d \in Creators \ {c} : MedCreator(d)'
  BY <1>1, <1>5, MedOthers
<1>10. MedCreator(c)'
  <2>1. scratch[c] = Media!Nothing
    BY <1>1 DEF MedInv, MedCreator, Media!At
  <2> QED BY <1>1, <1>2, <1>3, <1>5, <2>1 DEF MedCreator, Media!At, Media!My
<1>11. MedMasters'
  BY <1>1, <1>5 DEF MedInv, MedMasters, Media!At, Media!My
<1> QED BY <1>6, <1>7, <1>8, <1>9, <1>10, <1>11 DEF MedInv

(* A step that writes a medium, of the cache or half mastered. *)
LEMMA MedLoud ==
    ASSUME MedInv, NEW c \in Creators, NEW x \in MedPcs, Media!Goto(c, x), Media!Running(c), UNCHANGED <<wdir, tools, wmix>>,
           iso' \in [Media!Media -> [st : {"none", "part", "whole"}, has : Media!Media]],
           isotmp' \in [Answers -> {"none", "part", "whole"}],
           \A a \in Media!Media : iso'[a] = iso[a] \/ iso'[a] = [st |-> "whole", has |-> a],
           \A a \in Answers : isotmp'[a] = isotmp[a] \/ a = Media!My(c),
           \A a \in Answers : isotmp'[a] # "none" =>
               \/ isotmp[a] # "none" /\ ~(creator[c].pc \in {"mastering", "rename"} /\ Media!My(c) = a)
               \/ x \in {"mastering", "rename"} /\ Media!My(c) = a,
           NEW s \in MedScratches, s.attached => s.mount, scratch' = [scratch EXCEPT ![c] = s],
           MedCreator(c)'
    PROVE  MedInv'
<1>1. /\ creator' \in [Creators -> MedCreators]
      /\ \A d \in Creators \ {c} : creator'[d] = creator[d]
      /\ creator'[c].pc = x /\ creator'[c].answer = creator[c].answer
      /\ MedOne'
  BY MedWent
<1>2. Media!TypeOK'
  <2>1. wdir[c] \in MedWdirs /\ wdir' = [wdir EXCEPT ![c] = wdir[c]]
    BY MedTyped DEF MedInv
  <2> QED BY <1>1, <2>1, MedTypedNext DEF MedInv
<1>3. Media!CachedMediaWhole'
  BY DEF MedInv, Media!CachedMediaWhole
<1>4. \A d \in Creators \ {c} : MedCreator(d)'
  <2>1. \A d \in Creators \ {c} : Media!At(d, "rename") => isotmp'[Media!My(d)] = isotmp[Media!My(d)]
    BY DEF MedInv, MedOne, MedCreator, Media!At, Media!Running
  <2>2. \A a \in Media!Media : iso[a].st # "none" => iso'[a].st # "none"
    OBVIOUS
  <2>3. \A d \in Creators \ {c} : creator'[d] = creator[d] /\ scratch'[d] = scratch[d] /\ wdir'[d] = wdir[d]
    BY <1>1, MedTyped DEF MedInv
  <2> QED BY <2>1, <2>2, <2>3, MedOthers
<1>5. MedMasters'
  <2> SUFFICES ASSUME NEW a \in Answers, isotmp'[a] # "none"
               PROVE  \E d \in Creators : Media!At(d, "killed")' \/ ((creator'[d].pc \in {"mastering", "rename"}) /\ Media!My(d)' = a)
    BY DEF MedMasters
  <2>1. CASE isotmp[a] # "none" /\ ~(creator[c].pc \in {"mastering", "rename"} /\ Media!My(c) = a)
    BY <1>1, <2>1 DEF MedInv, MedMasters, Media!At, Media!My, Media!Running
  <2>2. CASE x \in {"mastering", "rename"} /\ Media!My(c) = a
    BY <1>1, <2>2 DEF Media!My
  <2> QED BY <2>1, <2>2
<1> QED BY <1>1, <1>2, <1>3, <1>4, <1>5 DEF MedInv

LEMMA MedDownloadInv ==
    ASSUME MedInv, NEW c \in Creators, Media!Download(c)
    PROVE  MedInv'
<1>1. Media!Running(c) /\ UNCHANGED <<isotmp, scratch, tools, wmix>> /\ Media!At(c, "download")
      /\ scratch[c] \in MedScratches /\ (scratch[c].attached => scratch[c].mount)
      /\ scratch' = [scratch EXCEPT ![c] = scratch[c]]
      /\ MedCreator(c) /\ Media!NoFile \in Media!Media /\ Media!My(c) \in Media!Media
  BY MedTyped DEF Media!Download, Media!Running, Media!At, MedInv, MedCreators, Media!Media, Media!My
<1>2. CASE Media!Fails(c) /\ UNCHANGED iso
  <2>1. scratch' = [scratch EXCEPT ![c] = Media!Nothing]
    BY <1>1 DEF MedCreator, Media!At
  <2>2. \/ isotmp' = isotmp /\ creator[c].pc \notin {"mastering", "rename"}
        \/ isotmp' = [isotmp EXCEPT ![Media!My(c)] = "none"] /\ Media!At(c, "mastering")
    BY <1>1 DEF Media!At
  <2>3. UNCHANGED <<iso, tools, wmix>>
    BY <1>1, <1>2
  <2> HIDE DEF Media!Download
  <2> QED BY <1>1, <1>2, <2>1, <2>2, <2>3, MedFails
<1>3. ASSUME iso' = [iso EXCEPT ![Media!NoFile] = [st |-> "whole", has |-> Media!NoFile]], UNCHANGED wdir,
             Media!Goto(c, IF Media!My(c) = Media!NoFile THEN "disk" ELSE "lookup")
      PROVE  MedInv'
  <2> DEFINE x == IF Media!My(c) = Media!NoFile THEN "disk" ELSE "lookup"
  <2>1. x \in MedPcs /\ Media!Goto(c, x)
    BY <1>3 DEF MedPcs
  <2>2. [st |-> "whole", has |-> Media!NoFile] \in [st : {"none", "part", "whole"}, has : Media!Media]
    BY <1>1
  <2>3. iso' \in [Media!Media -> [st : {"none", "part", "whole"}, has : Media!Media]]
        /\ \A a \in Media!Media : iso'[a] = iso[a] \/ iso'[a] = [st |-> "whole", has |-> a]
    BY <1>3, <2>2, MedTyped DEF MedInv
  <2>4. iso'[Media!NoFile].st = "whole"
    BY <1>1, <1>3, MedTyped DEF MedInv
  <2>5. creator'[c].pc = x /\ creator'[c].conf = creator[c].conf
        /\ creator'[c].flag = creator[c].flag /\ creator'[c].answer = creator[c].answer
    BY <1>1, <2>1, MedWent
  <2>6. Media!My(c) # Media!NoFile => Media!My(c) \in Answers
    BY <1>1 DEF Media!Media
  <2>7. MedCreator(c)'
    BY <1>1, <1>3, <2>4, <2>5, <2>6 DEF MedCreator, Media!At, Media!My
  <2>8. /\ isotmp' \in [Answers -> {"none", "part", "whole"}]
        /\ \A a \in Answers : isotmp'[a] = isotmp[a] \/ a = Media!My(c)
        /\ \A a \in Answers : isotmp'[a] # "none" =>
               \/ isotmp[a] # "none" /\ ~(creator[c].pc \in {"mastering", "rename"} /\ Media!My(c) = a)
               \/ x \in {"mastering", "rename"} /\ Media!My(c) = a
    BY <1>1, MedTyped DEF MedInv, Media!At
  <2>9. UNCHANGED <<wdir, tools, wmix>>
    BY <1>1, <1>3
  <2> HIDE DEF x
  <2> QED BY <1>1, <2>1, <2>3, <2>7, <2>8, <2>9, MedLoud
<1> QED BY <1>2, <1>3 DEF Media!Download

LEMMA MedMasterInv ==
    ASSUME MedInv, NEW c \in Creators, Media!Master(c)
    PROVE  MedInv'
<1>1. /\ Media!Running(c) /\ UNCHANGED <<iso, scratch, wdir, tools, wmix>> /\ Media!At(c, "master")
      /\ scratch[c] \in MedScratches /\ (scratch[c].attached => scratch[c].mount)
      /\ scratch' = [scratch EXCEPT ![c] = scratch[c]]
      /\ MedCreator(c) /\ Media!My(c) \in Answers
      /\ Media!Goto(c, "mastering") /\ "mastering" \in MedPcs
      /\ isotmp' = [isotmp EXCEPT ![Media!My(c)] = "part"]
  BY MedTyped DEF Media!Master, Media!Running, Media!At, MedInv, MedCreator, MedPcs
<1>2. creator'[c].pc = "mastering" /\ creator'[c].conf = creator[c].conf
      /\ creator'[c].flag = creator[c].flag /\ creator'[c].answer = creator[c].answer
  BY <1>1, MedWent
<1>3. MedCreator(c)'
  BY <1>1, <1>2 DEF MedCreator, Media!At, Media!My
<1>4. /\ isotmp' \in [Answers -> {"none", "part", "whole"}]
      /\ \A a \in Answers : isotmp'[a] = isotmp[a] \/ a = Media!My(c)
      /\ \A a \in Answers : isotmp'[a] # "none" =>
             \/ isotmp[a] # "none" /\ ~(creator[c].pc \in {"mastering", "rename"} /\ Media!My(c) = a)
             \/ "mastering" \in {"mastering", "rename"} /\ Media!My(c) = a
  BY <1>1, MedTyped DEF MedInv, Media!At
<1>5. iso' \in [Media!Media -> [st : {"none", "part", "whole"}, has : Media!Media]]
      /\ \A a \in Media!Media : iso'[a] = iso[a] \/ iso'[a] = [st |-> "whole", has |-> a]
  BY <1>1, MedTyped DEF MedInv
<1> QED BY <1>1, <1>3, <1>4, <1>5, MedLoud

LEMMA MedMasterEndsInv ==
    ASSUME MedInv, NEW c \in Creators, Media!MasterEnds(c)
    PROVE  MedInv'
<1>1. /\ Media!Running(c) /\ UNCHANGED <<iso, tools, wmix>> /\ Media!At(c, "mastering")
      /\ scratch[c] \in MedScratches /\ (scratch[c].attached => scratch[c].mount)
      /\ MedCreator(c) /\ Media!My(c) \in Answers
  BY MedTyped DEF Media!MasterEnds, Media!Running, Media!At, MedInv, MedCreator
<1>2. CASE Media!Fails(c) /\ isotmp' = [isotmp EXCEPT ![Media!My(c)] = "none"] /\ scratch' = [scratch EXCEPT ![c] = Media!Nothing]
  <2>1. \/ isotmp' = isotmp /\ creator[c].pc \notin {"mastering", "rename"}
        \/ isotmp' = [isotmp EXCEPT ![Media!My(c)] = "none"] /\ Media!At(c, "mastering")
    BY <1>1, <1>2
  <2> HIDE DEF Media!MasterEnds
  <2> QED BY <1>1, <1>2, <2>1, MedFails
<1>3. CASE isotmp' = [isotmp EXCEPT ![Media!My(c)] = "whole"] /\ Media!Goto(c, "rename") /\ UNCHANGED <<scratch, wdir>>
  <2>1. creator'[c].pc = "rename" /\ creator'[c].conf = creator[c].conf /\ "rename" \in MedPcs
        /\ creator'[c].flag = creator[c].flag /\ creator'[c].answer = creator[c].answer
    BY <1>1, <1>3, MedWent DEF MedPcs
  <2>2. isotmp'[Media!My(c)] = "whole"
    BY <1>1, <1>3, MedTyped DEF MedInv
  <2>3. MedCreator(c)'
    BY <1>1, <1>3, <2>1, <2>2 DEF MedCreator, Media!At, Media!My
  <2>4. /\ isotmp' \in [Answers -> {"none", "part", "whole"}]
        /\ \A a \in Answers : isotmp'[a] = isotmp[a] \/ a = Media!My(c)
        /\ \A a \in Answers : isotmp'[a] # "none" =>
               \/ isotmp[a] # "none" /\ ~(creator[c].pc \in {"mastering", "rename"} /\ Media!My(c) = a)
               \/ "rename" \in {"mastering", "rename"} /\ Media!My(c) = a
    BY <1>1, <1>3, MedTyped DEF MedInv, Media!At
  <2>5. iso' \in [Media!Media -> [st : {"none", "part", "whole"}, has : Media!Media]]
        /\ \A a \in Media!Media : iso'[a] = iso[a] \/ iso'[a] = [st |-> "whole", has |-> a]
    BY <1>1, MedTyped DEF MedInv
  <2>6. scratch' = [scratch EXCEPT ![c] = scratch[c]] /\ UNCHANGED <<wdir, tools, wmix>>
    BY <1>1, <1>3, MedTyped DEF MedInv
  <2> HIDE DEF Media!MasterEnds
  <2> QED BY <1>1, <1>3, <2>1, <2>3, <2>4, <2>5, <2>6, MedLoud
<1> QED BY <1>2, <1>3 DEF Media!MasterEnds

LEMMA MedRenameInv ==
    ASSUME MedInv, NEW c \in Creators, Media!Rename(c)
    PROVE  MedInv'
<1>1. /\ Media!Running(c) /\ UNCHANGED <<wdir, tools, wmix>> /\ Media!At(c, "rename")
      /\ MedCreator(c) /\ Media!My(c) \in Answers /\ Media!My(c) \in Media!Media /\ isotmp[Media!My(c)] = "whole"
      /\ Media!Goto(c, "disk") /\ "disk" \in MedPcs
      /\ iso' = [iso EXCEPT ![Media!My(c)] = [st |-> isotmp[Media!My(c)], has |-> Media!My(c)]]
      /\ isotmp' = [isotmp EXCEPT ![Media!My(c)] = "none"]
      /\ scratch' = [scratch EXCEPT ![c] = Media!Nothing]
  BY MedTyped DEF Media!Rename, Media!Running, Media!At, MedInv, MedCreator, MedPcs, Media!Media
<1>2. creator'[c].pc = "disk" /\ creator'[c].conf = creator[c].conf
      /\ creator'[c].flag = creator[c].flag /\ creator'[c].answer = creator[c].answer
  BY <1>1, MedWent
<1>3. [st |-> isotmp[Media!My(c)], has |-> Media!My(c)] \in [st : {"none", "part", "whole"}, has : Media!Media]
  BY <1>1
<1>4. iso' \in [Media!Media -> [st : {"none", "part", "whole"}, has : Media!Media]] /\ iso'[Media!My(c)].st = "whole"
      /\ \A a \in Media!Media : iso'[a] = iso[a] \/ iso'[a] = [st |-> "whole", has |-> a]
  BY <1>1, <1>3, MedTyped DEF MedInv
<1>5. scratch'[c] = Media!Nothing
  BY <1>1, MedTyped DEF MedInv
<1>6. MedCreator(c)'
  BY <1>1, <1>2, <1>4, <1>5 DEF MedCreator, Media!At, Media!My
<1>7. /\ isotmp' \in [Answers -> {"none", "part", "whole"}]
      /\ \A a \in Answers : isotmp'[a] = isotmp[a] \/ a = Media!My(c)
      /\ \A a \in Answers : isotmp'[a] # "none" =>
             \/ isotmp[a] # "none" /\ ~(creator[c].pc \in {"mastering", "rename"} /\ Media!My(c) = a)
             \/ "disk" \in {"mastering", "rename"} /\ Media!My(c) = a
  BY <1>1, MedTyped DEF MedInv, Media!At
<1> HIDE DEF Media!Rename
<1> QED BY <1>1, <1>4, <1>6, <1>7, MedConstants, MedLoud

LEMMA MedNextInv == MedApart /\ MedInv /\ Media!Next => MedInv'
<1> SUFFICES ASSUME MedApart, MedInv, NEW c \in Creators,
                    \/ Media!Begin(c) \/ Media!Download(c) \/ Media!Cached(c) \/ Media!MakeDirs(c) \/ Media!Attach(c) \/ Media!CopyOut(c)
                    \/ Media!Master(c) \/ Media!MasterEnds(c) \/ Media!Rename(c) \/ Media!MakeDisk(c) \/ Media!SaveConfig(c) \/ Media!MoveIn(c)
                    \/ Media!Kill(c)
             PROVE  MedInv'
  BY DEF Media!Next
<1> QED BY MedBeginInv, MedDownloadInv, MedCachedInv, MedMakeDirsInv, MedAttachInv, MedCopyOutInv, MedMasterInv,
           MedMasterEndsInv, MedRenameInv, MedMakeDiskInv, MedSaveConfigInv, MedMoveInInv, MedKillInv

LEMMA MedStutterInv == MedInv /\ UNCHANGED Media!wvars => MedInv'
<1> SUFFICES ASSUME MedInv, UNCHANGED <<iso, isotmp, creator, scratch, wdir, tools, wmix>> PROVE MedInv'
  BY DEF Media!wvars
<1>1. Media!TypeOK' /\ Media!CachedMediaWhole'
  BY DEF MedInv, Media!TypeOK, Media!CachedMediaWhole
<1>2. MedOne' /\ MedMasters'
  BY DEF MedInv, MedOne, MedMasters, Media!Running, Media!My, Media!At
<1>3. \A c \in Creators : MedCreator(c)'
  BY DEF MedInv, MedCreator, Media!My, Media!At
<1> QED BY <1>1, <1>2, <1>3 DEF MedInv

LEMMA MedSafeFromInv == MedInv => Media!MediaSafe
<1> SUFFICES ASSUME MedInv PROVE Media!MediaSafe
  OBVIOUS
<1>1. Media!NewMachinesInstallable
  <2> SUFFICES ASSUME NEW c \in Creators, wdir[c].at = "storage"
               PROVE  /\ wdir[c].disk
                      /\ wdir[c].media = IF creator[c].flag # Media!NoFile THEN creator[c].flag ELSE creator[c].conf
                      /\ iso[wdir[c].media] = [st |-> "whole", has |-> wdir[c].media]
                      /\ \A t \in Media!Tools : tools[t] # {}
    BY DEF Media!NewMachinesInstallable
  <2>1. MedCreator(c) /\ Media!My(c) \in Media!Media
    BY MedTyped DEF MedInv, MedCreators, Media!My
  <2>2. Media!At(c, "done")
    BY <2>1 DEF MedCreator
  <2> QED BY <2>1, <2>2 DEF MedInv, Media!CachedMediaWhole, MedCreator, Media!At, Media!Options
<1>2. Media!NothingLeftBehind
  <2>1. \A c \in Creators : creator[c].pc \in {"done", "failed"} => scratch[c] = Media!Nothing
    BY DEF MedInv, MedCreator
  <2>2. \A c \in Creators : Media!At(c, "failed") => wdir[c] = Media!NoDir
    BY DEF MedInv, MedCreator, Media!At
  <2>3. (\A d \in Creators : creator[d].pc \in {"new", "done", "failed"}) => isotmp = [a \in Answers |-> "none"]
    BY MedTyped DEF MedInv, MedMasters, Media!At
  <2> QED BY <2>1, <2>2, <2>3 DEF Media!NothingLeftBehind
<1> QED BY <1>1, <1>2 DEF MedInv, Media!MediaSafe

-----------------------------------------------------------------------------
FilesInv == PolInv /\ SetInv

LEMMA FilesInvInit == StoresInit => FilesInv
  BY PolInitInv, SetInitInv DEF StoresInit, FilesInv

LEMMA FilesInvNext == FilesInv /\ [StoresNext]_storesvars => FilesInv'
<1> SUFFICES ASSUME FilesInv, [StoresNext]_storesvars PROVE FilesInv'
  OBVIOUS
<1>1. CASE UNCHANGED policyvars /\ UNCHANGED setvars
  BY <1>1, PolStutterInv, SetStutterInv DEF FilesInv, policyvars, setvars, Policy!pvars, Set!setvars
<1>2. CASE Policy!Next /\ UNCHANGED setvars
  BY <1>2, PolNextInv, SetStutterInv DEF FilesInv, setvars, Set!setvars
<1>3. CASE Set!Next /\ UNCHANGED policyvars
  BY <1>3, SetNextInv, PolStutterInv DEF FilesInv, policyvars, Policy!pvars
<1> QED BY <1>1, <1>2, <1>3 DEF StoresNext, storesvars

(* Only what is permitted crosses, and at the rate; the settings file is   *)
(* one saver's whole, with what others set and nothing invalid: for every  *)
(* number of savers, names, policies and clipboards (policy.go,            *)
(* bandwidth.go, settings.go).                                             *)
THEOREM FilesAreSafe == StoresSpec => []FilesSafe
<1>1. StoresInit => FilesInv
  BY FilesInvInit
<1>2. FilesInv /\ [StoresNext]_storesvars => FilesInv'
  BY FilesInvNext
<1>3. FilesInv => FilesSafe
  BY PolSafeFromInv, SetSafeFromInv DEF FilesInv, FilesSafe
<1> QED BY <1>1, <1>2, <1>3, PTL DEF StoresSpec

-----------------------------------------------------------------------------
LEMMA MedInvInit == StoresInit => MedInv
  BY MedInitInv DEF StoresInit

LEMMA MedInvNext == MedApart /\ MedInv /\ [StoresNext]_storesvars => MedInv'
<1> SUFFICES ASSUME MedApart, MedInv, [StoresNext]_storesvars PROVE MedInv'
  OBVIOUS
<1>1. CASE Media!Next
  BY <1>1, MedNextInv
<1>2. CASE UNCHANGED wvars
  BY <1>2, MedStutterInv DEF wvars, Media!wvars
<1> QED BY <1>1, <1>2 DEF StoresNext, storesvars

(* Cached media are whole, a created machine has its disk and the medium   *)
(* of the answer file asked for, and what failed leaves nothing behind, if *)
(* no two creations that run together have one answer file (MedApart): for *)
(* every number of creations and answer files (windowsiso.go,              *)
(* create_windows.go).                                                     *)
THEOREM MediaAreSafe ==
    ASSUME MedApart
    PROVE  StoresSpec => []MediaSafe
<1>1. StoresInit => MedInv
  BY MedInvInit
<1>2. MedInv /\ [StoresNext]_storesvars => MedInv'
  BY MedInvNext
<1>3. MedInv => MediaSafe
  BY MedSafeFromInv DEF MediaSafe
<1> QED BY <1>1, <1>2, <1>3, PTL DEF StoresSpec
=============================================================================
