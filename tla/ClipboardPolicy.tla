----------------------------- MODULE ClipboardPolicy -----------------------------
(***************************************************************************)
(* What the policy of a clipboard lets through, and how fast: the policy in *)
(* force, made of the settings, the VM's own and the flags of the run; the  *)
(* payload it leaves of a clipboard; and the frames of the payload, each of *)
(* which waits for its share of the bandwidth.                              *)
(***************************************************************************)
EXTENDS Integers, FiniteSets

CONSTANTS
    Settings,      \* sets of at most one policy, in the settings and in the VM's config
    Overrides,     \* functions from some fields of a policy to values
    Clipboards,    \* sets of representations [format, size]
    MaxTime        \* bounds the clock

VARIABLES
    rules,         \* the policy in force, and what it was made of
    waiting,       \* the frames to be sent
    bucket,        \* the limiter: tokens and when they were last counted
    clock,
    sent,          \* history: the representations that have been sent
    volume         \* history: the bytes sent, and the largest oversized frame

pvars == <<rules, waiting, bucket, clock, sent, volume>>

Default ==
    [enabled |-> TRUE, direction |-> "bidirectional", plainText |-> TRUE, richText |-> TRUE, image |-> TRUE,
     fileTransfer |-> TRUE, allowedTypes |-> {}, max |-> 0, rate |-> 0]

DefaultMaxContentBytes == 4

ClassOf(f) ==
    CASE f = "text/plain" -> "plainText"
      [] f \in {"text/rtf", "text/html"} -> "richText"
      [] f \in {"image/png", "image/tiff", "application/pdf"} -> "image"
      [] f = "text/uri-list" -> "file"
      [] OTHER -> "other"

AllCanonical == {"text/rtf", "text/html", "text/plain", "image/png", "image/tiff", "application/pdf", "text/uri-list"}

(* A list of types takes the place of the three categories, never of the    *)
(* permission for files.                                                    *)
AllowedCanonical(p) ==
    LET listed == {f \in AllCanonical : ClassOf(f) # "file" /\ f \in p.allowedTypes}
        toggled == {f \in AllCanonical : ClassOf(f) # "file" /\ p[ClassOf(f)]}
    IN (IF p.allowedTypes # {} THEN listed ELSE toggled) \cup IF p.fileTransfer THEN {"text/uri-list"} ELSE {}

MaxBytes(p) == IF p.max > 0 THEN p.max ELSE DefaultMaxContentBytes

(* BytesPerSec, in the unit of the sizes, per tick of the clock *)
BytesPerSec(p) == p.rate

Apply(o, p) == [x \in DOMAIN p |-> IF x \in DOMAIN o THEN o[x] ELSE p[x]]

Otherwise(given, default) == IF given = {} THEN default ELSE CHOOSE p \in given : TRUE

Resolve(settings, perVM, o) ==
    Apply(o, Otherwise(perVM, Otherwise(settings, Default)))

Active(p) == p.enabled /\ p.direction # "disabled"

-----------------------------------------------------------------------------
(* CapTo, and tooBig *)
CapTo(items, max) == {i \in items : max <= 0 \/ i.size <= max}

(* Read: of a clipboard that has files, only they are taken. *)
Read(items, allowed, max) ==
    LET kept == CapTo({i \in items : i.format \in allowed}, max)
        files == {i \in kept : i.format = "text/uri-list"} IN
    IF files # {} THEN files ELSE kept

newLimiter(rate, now) == [rate |-> rate, tokens |-> rate, last |-> now]

(* resolveClipboard, and the engine's start *)
ResolveClipboard ==
    /\ rules.made = FALSE
    /\ \E s \in Settings, v \in Settings, o \in Overrides :
         LET p == Resolve(s, v, o) IN
         /\ rules' = [made |-> TRUE, settings |-> s, perVM |-> v, override |-> o, policy |-> p, run |-> Active(p)]
         /\ bucket' = newLimiter(BytesPerSec(p), clock)
    /\ UNCHANGED <<waiting, clock, sent, volume>>

Push ==
    /\ rules.made /\ rules.run /\ waiting = {} /\ sent = {}
    /\ \E items \in Clipboards :
         waiting' = Read(items, AllowedCanonical(rules.policy), MaxBytes(rules.policy))
    /\ UNCHANGED <<rules, bucket, clock, sent, volume>>

(* waitN: the tokens of the time passed, a second's worth at most.  A frame *)
(* of more than that does not wait.                                         *)
Refill == LET t == bucket.tokens + (clock - bucket.last) * bucket.rate IN IF t > bucket.rate THEN bucket.rate ELSE t

Passes(n) == bucket.rate = 0 \/ Refill >= n \/ n > bucket.rate

WaitN ==
    \E i \in waiting :
        /\ Passes(i.size)
        /\ bucket' = [bucket EXCEPT !.tokens = IF bucket.rate = 0 THEN 0 ELSE Refill - i.size, !.last = clock]
        /\ waiting' = waiting \ {i} /\ sent' = sent \cup {i}
        /\ volume' = [bytes |-> volume.bytes + i.size,
                      over |-> IF i.size > bucket.rate THEN volume.over + i.size ELSE volume.over]
        /\ UNCHANGED <<rules, clock>>

Tick == rules.made /\ clock < MaxTime /\ clock' = clock + 1 /\ UNCHANGED <<rules, waiting, bucket, sent, volume>>

Init ==
    /\ rules = [made |-> FALSE, settings |-> {}, perVM |-> {}, override |-> Default, policy |-> Default, run |-> FALSE]
    /\ waiting = {} /\ bucket = newLimiter(0, 0) /\ clock = 0 /\ sent = {} /\ volume = [bytes |-> 0, over |-> 0]

Next == ResolveClipboard \/ Push \/ WaitN \/ Tick

Spec == Init /\ [][Next]_pvars

-----------------------------------------------------------------------------
TypeOK ==
    /\ rules.made \in BOOLEAN /\ rules.run \in BOOLEAN
    /\ DOMAIN rules.policy = DOMAIN Default
    /\ \A i \in waiting \cup sent : i.format \in AllCanonical /\ i.size \in Nat
    /\ waiting \cap sent = {}
    /\ clock \in 0..MaxTime /\ bucket.last \in 0..clock /\ bucket.tokens <= bucket.rate

(* The permission for files as a user reads it: the flag of the run, or     *)
(* else the VM's policy, or else the settings.                              *)
MayFiles ==
    IF "fileTransfer" \in DOMAIN rules.override THEN rules.override.fileTransfer
    ELSE \A p \in IF rules.perVM # {} THEN rules.perVM ELSE rules.settings : p.fileTransfer

(* Files cross only if the most specific policy that speaks of them says so *)
(* (Resolve, policy.go:220-233), and then nothing crosses with them; and of *)
(* a list of types nothing but those types (lines 110-152).                 *)
OnlyPermitted ==
    /\ (\E i \in sent : i.format = "text/uri-list") => MayFiles /\ \A i \in sent : i.format = "text/uri-list"
    /\ rules.policy.allowedTypes # {} =>
           \A i \in sent : i.format \in rules.policy.allowedTypes \cup {"text/uri-list"}
    /\ \A i \in sent : i.size <= MaxBytes(rules.policy)

(* The budget holds over the whole of the time (bandwidth.go:26-81): but    *)
(* for frames of more than a second's worth, no more bytes have crossed     *)
(* than the budget of the time that has passed and one second's worth.      *)
RateHeld ==
    bucket.rate > 0 /\ volume.bytes > 0 => volume.bytes - volume.over <= (clock + 1) * bucket.rate

(* What crosses is permitted, and the rate is held. *)
PolicySafe == TypeOK /\ OnlyPermitted /\ RateHeld
=============================================================================
