-------------------------------- MODULE Screen ---------------------------------
(***************************************************************************)
(* The screen of a machine, and who looks at it and types: the preset of   *)
(* an unattended setup, the agent of one, the screen tools of the MCP      *)
(* server and the viewer of a run are clients of the machine's VNC server, *)
(* which serves one at a time and answers a client that waits for an       *)
(* unchanged screen only once. A text on the screen stands for all there   *)
(* is to see: it is somewhere, or not there.                               *)
(***************************************************************************)
EXTENDS Naturals, Sequences

CONSTANTS
    Drivers,
    Kinds,       \* what the drivers may be
    Places,      \* where the text may be, each further than the tolerance from the others
    Attempts,    \* captures of a click, polls of a wait
    Retries,     \* attempts at one capture
    Nobody

VARIABLES
    role,      \* what each driver is
    shown,     \* where the text is, 0 when it is not there
    serving,   \* whose connection the server serves
    fresh,     \* it has something to answer with
    down,      \* the keys and buttons that connection holds down
    conn,      \* a driver's connection, as the driver knows it
    doing,     \* what a driver is asked for
    at,        \* how far it is
    fb,        \* its framebuffer: where the text is, or a black one
    moved,     \* the screen has changed since it connected or read that
    tries,     \* captures it has looked at
    retry,     \* attempts at this one
    last,      \* where it saw the text last, 0 when it did not
    aim,       \* where its click goes
    left,      \* the events of its gesture that are still to be sent
    torn       \* a gesture broke off on this connection

screenvars ==
    <<role, shown, serving, fresh, down, conn, doing, at, fb, moved, tries, retry, last, aim, left, torn>>

(* A black picture is one without the text. *)
Black == 0
Set(f, d, x) == [f EXCEPT ![d] = x]

-----------------------------------------------------------------------------
(* The guest, and the server's one connection *)

Changes ==
    /\ \E p \in {0} \cup Places : p # shown /\ shown' = p
    /\ fresh' = TRUE
    /\ moved' = [d \in Drivers |-> TRUE]
    /\ UNCHANGED <<role, serving, down, conn, doing, at, fb, tries, retry, last, aim, left, torn>>

(* What the server makes of the keys of a connection that ends is its own;  *)
(* here, they are let go.                                                   *)
Drop == serving' = Nobody /\ down' = {} /\ UNCHANGED fresh
Loses == serving # Nobody /\ Drop /\ UNCHANGED <<role, shown, conn, doing, at, fb, moved, tries, retry, last, aim, left, torn>>

Hangup(d) == IF serving = d THEN Drop ELSE UNCHANGED <<serving, fresh, down>>

(* dialLocked: the new connection takes the place of the one before, or is  *)
(* refused, or fails in the handshake.                                      *)
Connects(d) ==
    /\ serving' = d /\ fresh' = TRUE /\ down' = {}
    /\ conn' = Set(conn, d, "open")
    /\ fb' = Set(fb, d, Black)
    /\ moved' = Set(moved, d, FALSE)
    /\ torn' = Set(torn, d, FALSE)

DoesNotConnect(d) ==
    /\ Hangup(d)
    /\ conn' = Set(conn, d, "closed")
    /\ UNCHANGED <<fb, moved, torn>>

-----------------------------------------------------------------------------
(* One thing after another *)

Dial(d) ==
    /\ at[d] = "idle" /\ conn[d] # "open"
    /\ Connects(d) \/ DoesNotConnect(d)
    /\ UNCHANGED <<role, shown, doing, at, tries, retry, last, aim, left>>

(* The end of a tool, and of a preset that failed, ends its connection.     *)
Ends(d, ok) ==
    /\ at' = Set(at, d, "idle")
    /\ doing' = Set(doing, d, "none")
    /\ left' = Set(left, d, <<>>)
    /\ tries' = Set(tries, d, 0) /\ retry' = Set(retry, d, 0) /\ last' = Set(last, d, 0) /\ aim' = Set(aim, d, 0)
    /\ IF role[d] = "agent" \/ (role[d] = "preset" /\ ok)
       THEN UNCHANGED <<serving, fresh, down, conn>>
       ELSE Hangup(d) /\ conn' = Set(conn, d, "closed")

(* Execute, executeComputerAction, the screen tools, StreamVNCToViewer. *)
Asked(d) ==
    CASE role[d] = "preset" -> {"wait", "click", "keys"}
      [] role[d] = "agent"  -> {"keys", "look"}
      [] role[d] = "tool"   -> {"click", "keys", "look"}
      [] role[d] = "viewer" -> {"look"}

(* A rune with Shift, or a chord: the modifier is let go last. *)
Down(k) == [key |-> k, down |-> TRUE]
Up(k) == [key |-> k, down |-> FALSE]
Chord == <<Down("shift"), Down("key"), Up("key"), Up("shift")>>
Press == <<Down("button"), Up("button")>>

Begin(d) ==
    /\ at[d] = "idle" /\ conn[d] = "open"
    /\ \E a \in Asked(d) :
          /\ doing' = Set(doing, d, a)
          /\ at' = Set(at, d, CASE a = "keys" -> "gesture"
                                [] a = "look" /\ role[d] # "agent" -> "capture"
                                [] OTHER -> "redial")
          /\ left' = Set(left, d, IF a = "keys" THEN Chord ELSE <<>>)
    /\ UNCHANGED <<role, shown, serving, fresh, down, conn, fb, moved, tries, retry, last, aim, torn>>

Close(d) ==
    /\ at[d] = "idle" /\ conn[d] = "open"
    /\ Hangup(d)
    /\ conn' = Set(conn, d, "closed")
    /\ UNCHANGED <<role, shown, doing, at, fb, moved, tries, retry, last, aim, left, torn>>

(* Gestures do not look at the context. *)
Cancel(d) ==
    /\ at[d] \in {"redial", "capture", "seen"}
    /\ Ends(d, FALSE)
    /\ UNCHANGED <<role, shown, fb, moved, torn>>

-----------------------------------------------------------------------------
(* CaptureFramebuffer *)

(* A redial that fails is left to the capture to surface. *)
Redial(d) ==
    /\ at[d] = "redial"
    /\ Connects(d) \/ DoesNotConnect(d)
    /\ at' = Set(at, d, "capture")
    /\ UNCHANGED <<role, shown, doing, tries, retry, last, aim, left>>

Captures(d) ==
    /\ at[d] = "capture" /\ conn[d] = "open" /\ serving = d /\ fresh
    /\ fb' = Set(fb, d, shown)
    /\ moved' = Set(moved, d, FALSE)
    /\ fresh' = FALSE
    /\ at' = Set(at, d, "seen")
    /\ UNCHANGED <<role, shown, serving, down, conn, doing, tries, retry, last, aim, left, torn>>

(* An update without pixels, of the cursor or of the size, is one too. *)
CapturesNothing(d) ==
    /\ at[d] = "capture" /\ conn[d] = "open" /\ serving = d
    /\ fb' \in {fb, Set(fb, d, Black)}
    /\ at' = Set(at, d, "seen")
    /\ UNCHANGED <<role, shown, serving, fresh, down, conn, doing, moved, tries, retry, last, aim, left, torn>>

(* The connection is lost, or held: captureWithRetry, waitForText. *)
CaptureFails(d) ==
    /\ at[d] = "capture"
    /\ CASE doing[d] = "click" /\ retry[d] + 1 < Retries ->
              /\ retry' = Set(retry, d, retry[d] + 1)
              /\ at' = Set(at, d, "redial")
              /\ UNCHANGED <<serving, fresh, down, conn, doing, tries, last, aim, left>>
         [] doing[d] = "wait" /\ tries[d] + 1 < Attempts ->
              /\ tries' = Set(tries, d, tries[d] + 1)
              /\ at' = Set(at, d, "redial")
              /\ UNCHANGED <<serving, fresh, down, conn, doing, retry, last, aim, left>>
         [] OTHER -> Ends(d, FALSE)
    /\ UNCHANGED <<role, shown, fb, moved, torn>>

-----------------------------------------------------------------------------
(* waitForText, clickOnText, the looks *)

Sees(d) == fb[d] \in Places

Found(d) ==
    /\ at[d] = "seen" /\ doing[d] = "wait" /\ Sees(d)
    /\ Ends(d, TRUE)
    /\ UNCHANGED <<role, shown, fb, moved, torn>>

Looked(d) ==
    /\ at[d] = "seen" /\ doing[d] = "look"
    /\ IF role[d] = "viewer"
       THEN /\ at' = Set(at, d, "capture")
            /\ UNCHANGED <<serving, fresh, down, conn, doing, tries, retry, last, aim, left>>
       ELSE Ends(d, TRUE)
    /\ UNCHANGED <<role, shown, fb, moved, torn>>

(* The next capture, with what was seen in this one. *)
Again(d, place) ==
    /\ tries' = Set(tries, d, tries[d] + 1)
    /\ retry' = Set(retry, d, 0)
    /\ last' = Set(last, d, place)
    /\ at' = Set(at, d, "redial")
    /\ UNCHANGED <<serving, fresh, down, conn, doing, aim, left>>

NotFound(d) ==
    /\ at[d] = "seen" /\ doing[d] \in {"wait", "click"} /\ ~Sees(d)
    /\ IF tries[d] + 1 < Attempts THEN Again(d, last[d]) ELSE Ends(d, FALSE)
    /\ UNCHANGED <<role, shown, fb, moved, torn>>

(* Where it was seen last need not be where the capture before showed it:   *)
(* one that showed nothing does not count.                                  *)
Settled(d) == fb[d] = last[d]

Moves(d) ==
    /\ at[d] = "seen" /\ doing[d] = "click" /\ Sees(d) /\ ~Settled(d) /\ tries[d] + 1 < Attempts
    /\ Again(d, fb[d])
    /\ UNCHANGED <<role, shown, fb, moved, torn>>

(* After the last attempt it is clicked wherever it is. *)
Aims(d) ==
    /\ at[d] = "seen" /\ doing[d] = "click" /\ Sees(d) /\ (Settled(d) \/ tries[d] + 1 = Attempts)
    /\ aim' = Set(aim, d, fb[d])
    /\ left' = Set(left, d, Press)
    /\ at' = Set(at, d, "gesture")
    /\ UNCHANGED <<role, shown, serving, fresh, down, conn, doing, fb, moved, tries, retry, last, torn>>

-----------------------------------------------------------------------------
(* Click, typeRune, Hotkey *)

Apply(e) == IF e.down THEN down \cup {e.key} ELSE down \ {e.key}

(* On a connection that is lost an event may well be written. *)
Sends(d) ==
    /\ at[d] = "gesture" /\ left[d] # <<>> /\ conn[d] = "open"
    /\ down' = IF serving = d THEN Apply(Head(left[d])) ELSE down
    /\ left' = Set(left, d, Tail(left[d]))
    /\ UNCHANGED <<role, shown, serving, fresh, conn, doing, at, fb, moved, tries, retry, last, aim, torn>>

(* What is down stays down when a later event cannot be sent. *)
SendFails(d) ==
    /\ at[d] = "gesture" /\ left[d] # <<>>
    /\ torn' = Set(torn, d, TRUE)
    /\ Ends(d, FALSE)
    /\ UNCHANGED <<role, shown, fb, moved>>

(* The agent looks at what came of it. *)
Sent(d) ==
    /\ at[d] = "gesture" /\ left[d] = <<>>
    /\ IF role[d] = "agent"
       THEN /\ doing' = Set(doing, d, "look")
            /\ at' = Set(at, d, "redial")
            /\ UNCHANGED <<serving, fresh, down, conn, tries, retry, last, aim, left>>
       ELSE Ends(d, TRUE)
    /\ UNCHANGED <<role, shown, fb, moved, torn>>

-----------------------------------------------------------------------------
Init ==
    /\ role \in Kinds
    /\ shown = 0 /\ serving = Nobody /\ fresh = FALSE /\ down = {}
    /\ conn = [d \in Drivers |-> "closed"]
    /\ doing = [d \in Drivers |-> "none"]
    /\ at = [d \in Drivers |-> "idle"]
    /\ fb = [d \in Drivers |-> Black]
    /\ moved = [d \in Drivers |-> FALSE]
    /\ tries = [d \in Drivers |-> 0]
    /\ retry = [d \in Drivers |-> 0]
    /\ last = [d \in Drivers |-> 0]
    /\ aim = [d \in Drivers |-> 0]
    /\ left = [d \in Drivers |-> <<>>]
    /\ torn = [d \in Drivers |-> FALSE]

Next ==
    \/ Changes \/ Loses
    \/ \E d \in Drivers :
          \/ Dial(d) \/ Begin(d) \/ Close(d) \/ Cancel(d)
          \/ Redial(d) \/ Captures(d) \/ CapturesNothing(d) \/ CaptureFails(d)
          \/ Found(d) \/ Looked(d) \/ NotFound(d) \/ Moves(d) \/ Aims(d)
          \/ Sends(d) \/ SendFails(d) \/ Sent(d)

-----------------------------------------------------------------------------
TypeOK ==
    /\ role \in [Drivers -> {"preset", "agent", "tool", "viewer"}]
    /\ shown \in {0} \cup Places
    /\ serving \in Drivers \cup {Nobody}
    /\ fresh \in BOOLEAN
    /\ down \subseteq {"shift", "key", "button"}
    /\ conn \in [Drivers -> {"open", "closed"}]
    /\ doing \in [Drivers -> {"none", "wait", "click", "keys", "look"}]
    /\ at \in [Drivers -> {"idle", "redial", "capture", "seen", "gesture"}]
    /\ fb \in [Drivers -> {0} \cup Places]
    /\ moved \in [Drivers -> BOOLEAN]
    /\ tries \in [Drivers -> Nat] /\ retry \in [Drivers -> Nat]
    /\ last \in [Drivers -> {0} \cup Places] /\ aim \in [Drivers -> {0} \cup Places]
    /\ left \in [Drivers -> Seq([key : {"shift", "key", "button"}, down : BOOLEAN])]
    /\ torn \in [Drivers -> BOOLEAN]

(* What is looked at is what the screen has shown since the connection was   *)
(* made, or nothing: never a picture of an earlier connection                *)
(* (captureWithRetry, waitForText).                                          *)
FramesFresh ==
    \A d \in Drivers : at[d] = "seen" /\ ~moved[d] => fb[d] \in {shown, Black}

(* A click goes to where the text is, unless the screen has changed since    *)
(* the last look at it (clickOnText).                                        *)
ClicksHit ==
    \A d \in Drivers : at[d] = "gesture" /\ doing[d] = "click" /\ ~moved[d] => aim[d] = shown

(* Whatever is held down is let go by what the gesture still sends, or the   *)
(* gesture broke off, which its driver knows (clickLocked, typeRune,         *)
(* Hotkey).                                                                  *)
NothingStuck ==
    \A k \in down :
        /\ serving # Nobody
        /\ \/ torn[serving]
           \/ \E i \in DOMAIN left[serving] : left[serving][i] = Up(k)

ScreenSafe ==
    /\ TypeOK
    /\ FramesFresh
    /\ ClicksHit
    /\ NothingStuck
=============================================================================
