------------------------------ MODULE AgentChannel ------------------------------
(***************************************************************************)
(* The channel between the clipboard engine and the agent in the guest: two *)
(* pipes that carry frames and live as long as the run.  Nothing in a frame *)
(* says what it is or which request it answers; both ends know only by      *)
(* where they are in the stream.  The agent is a service that is restarted  *)
(* whenever it exits.                                                       *)
(***************************************************************************)
EXTENDS Naturals, Sequences

CONSTANTS
    MaxExchanges,  \* bounds the requests of the host
    MaxData,       \* the most data frames of a payload
    ChanMixes      \* "set": the host pushes, "get": it asks, "dies": the agent may
                   \* exit, "late": nobody is logged in at first, "text": a data frame
                   \* may itself read as a request

VARIABLES
    toAgent, toHost, \* the pipes
    guestd,          \* the agent: what it does, for which exchange, data frames to come
    resident,        \* the agent's version in the guest, and whether its backend works
    hst,             \* the host: what it does, the exchange, data frames to come
    board,           \* the guest's clipboard: how many data frames its payload has, and they
    chanmix,
    took             \* history: the exchange each frame belongs to that the host took

avars == <<toAgent, toHost, guestd, resident, hst, board, chanmix, took>>

Frame(kind, n, w) == [kind |-> kind, n |-> n, w |-> w]
Body(n, w) == [i \in 1..w |-> Frame("data", n, i)]
Asleep == [pc |-> "dead", n |-> 0, left |-> 0, of |-> 0, got |-> <<>>]

-----------------------------------------------------------------------------
(* EnsureResident: over ssh, tried in every cycle until it succeeds.  The   *)
(* binary is copied if the version differs, and the service started again   *)
(* in any case, on macOS and on Linux.                                      *)
Deployed == [resident EXCEPT !.version = "ours"]
Restarted == [Asleep EXCEPT !.pc = "read"]

EnsureResident ==
    /\ hst.pc = "install" /\ resident' = Deployed /\ guestd' = Restarted
    /\ hst' = [hst EXCEPT !.pc = "open"]
    /\ UNCHANGED <<toAgent, toHost, board, chanmix, took>>

(* NewSerial: one hello, whose answer is waited for in the background. *)
NewSerial ==
    /\ hst.pc = "open"
    /\ toAgent' = Append(toAgent, Frame("hello", 0, 0)) /\ hst' = [hst EXCEPT !.pc = "hello"]
    /\ UNCHANGED <<toHost, guestd, resident, board, chanmix, took>>

Ready ==
    /\ hst.pc = "hello" /\ toHost # <<>>
    /\ hst' = [hst EXCEPT !.pc = IF Head(toHost).kind = "ok" THEN "idle" ELSE "never"]
    /\ toHost' = Tail(toHost)
    /\ UNCHANGED <<toAgent, guestd, resident, board, chanmix, took>>

(* statGuest, getGuest and setGuest write the request, and setGuest the     *)
(* data frames; readMeta waits, without a limit, for the answer.            *)
WriteRequest ==
    /\ hst.pc = "idle" /\ hst.n < MaxExchanges
    /\ \E kind \in {"stat"} \cup (chanmix \cap {"get", "set"}), w \in 0..MaxData :
         /\ kind # "set" => w = 0
         /\ toAgent' = toAgent \o <<Frame(kind, hst.n + 1, w)>> \o Body(hst.n + 1, w)
         /\ hst' = [hst EXCEPT !.pc = "wait", !.n = hst.n + 1]
    /\ UNCHANGED <<toHost, guestd, resident, board, chanmix, took>>

(* An answer that is an error ends the exchange.  So does one that cannot   *)
(* be read: dropClient, after which the same pipes are used again.          *)
readMeta ==
    /\ hst.pc = "wait" /\ toHost # <<>>
    /\ LET f == Head(toHost) IN
       /\ hst' = IF f.kind = "meta" /\ f.w > 0 THEN [hst EXCEPT !.pc = "body", !.left = f.w]
                 ELSE [hst EXCEPT !.pc = "idle"]
       /\ took' = [took EXCEPT ![hst.n] = @ \cup {f.n}]
    /\ toHost' = Tail(toHost)
    /\ UNCHANGED <<toAgent, guestd, resident, board, chanmix>>

ReadBody ==
    /\ hst.pc = "body" /\ toHost # <<>>
    /\ hst' = IF Head(toHost).kind # "data" \/ hst.left = 1 THEN [hst EXCEPT !.pc = "idle", !.left = 0]
              ELSE [hst EXCEPT !.left = hst.left - 1]
    /\ took' = [took EXCEPT ![hst.n] = @ \cup {Head(toHost).n}]
    /\ toHost' = Tail(toHost)
    /\ UNCHANGED <<toAgent, guestd, resident, board, chanmix>>

-----------------------------------------------------------------------------
(* agent.Serve: one request after the other. *)
NextIs(kind) == guestd.pc = "read" /\ toAgent # <<>> /\ Head(toAgent).kind = kind
Reply(frames) == toHost' = toHost \o frames /\ toAgent' = Tail(toAgent)
Refuse(n) == Reply(<<Frame("err", n, 0)>>)

serveHello ==
    /\ NextIs("hello") /\ Reply(<<Frame("ok", 0, 0)>>)
    /\ UNCHANGED <<guestd, resident, hst, board, chanmix, took>>

(* ensure: the backend is made for the first request that finds a session. *)
ServeStat ==
    /\ NextIs("stat")
    /\ \/ resident.backend /\ Reply(<<Frame("ok", Head(toAgent).n, 0)>>)
       \/ Refuse(Head(toAgent).n)
    /\ UNCHANGED <<guestd, resident, hst, board, chanmix, took>>

(* What is left of the clipboard after CapTo may be nothing. *)
ServeGet ==
    /\ NextIs("get")
    /\ LET n == Head(toAgent).n IN
       \/ \E w \in 0..MaxData : resident.backend /\ Reply(<<Frame("meta", n, w)>> \o Body(n, w))
       \/ Refuse(n)
    /\ UNCHANGED <<guestd, resident, hst, board, chanmix, took>>

(* Without a backend the answer goes out before the data frames are read. *)
ServeSet ==
    /\ NextIs("set")
    /\ LET f == Head(toAgent) IN
       IF ~resident.backend THEN Refuse(f.n) /\ UNCHANGED guestd
       ELSE /\ guestd' = [pc |-> "body", n |-> f.n, left |-> f.w, of |-> f.w, got |-> <<>>]
            /\ toAgent' = Tail(toAgent) /\ UNCHANGED toHost
    /\ UNCHANGED <<resident, hst, board, chanmix, took>>

AgentReadBody ==
    /\ guestd.pc = "body" /\ guestd.left > 0 /\ toAgent # <<>>
    /\ guestd' = IF Head(toAgent).kind # "data" THEN Asleep
                 ELSE [guestd EXCEPT !.left = @ - 1, !.got = Append(@, Head(toAgent))]
    /\ toAgent' = Tail(toAgent)
    /\ UNCHANGED <<toHost, resident, hst, board, chanmix, took>>

(* Faulty: the last file is not waited for. *)
BackendWriteEarly ==
    /\ guestd.pc = "body" /\ guestd.left <= 1
    /\ guestd' = [Asleep EXCEPT !.pc = "read"]
    /\ board' = [of |-> guestd.of, got |-> guestd.got] /\ toHost' = Append(toHost, Frame("ok", guestd.n, 0))
    /\ UNCHANGED <<toAgent, resident, hst, chanmix, took>>

BackendWrite ==
    /\ guestd.pc = "body" /\ guestd.left = 0
    /\ guestd' = [Asleep EXCEPT !.pc = "read"]
    /\ \/ board' = [of |-> guestd.of, got |-> guestd.got] /\ toHost' = Append(toHost, Frame("ok", guestd.n, 0))
       \/ board' = board /\ toHost' = Append(toHost, Frame("err", guestd.n, 0))
    /\ UNCHANGED <<toAgent, resident, hst, chanmix, took>>

(* A data frame where a request should be: it does not parse, and the agent *)
(* exits, or it does, as a request for a module there is none of.           *)
ServeStray ==
    /\ NextIs("data")
    /\ \/ guestd' = Asleep /\ toAgent' = Tail(toAgent) /\ UNCHANGED toHost
       \/ "text" \in chanmix /\ Refuse(Head(toAgent).n) /\ UNCHANGED guestd
    /\ UNCHANGED <<resident, hst, board, chanmix, took>>

(* The agent may exit at any point: a logout, a crash, a guest that boots   *)
(* again.  What it had not read may be lost with it, or some of it, and     *)
(* what it had not finished to write.                                       *)
AgentExits ==
    /\ "dies" \in chanmix /\ guestd.pc # "dead"
    /\ guestd' = Asleep
    /\ \E k \in 0..Len(toAgent) : toAgent' = SubSeq(toAgent, k + 1, Len(toAgent))
    /\ \E k \in 0..Len(toHost) : toHost' = SubSeq(toHost, 1, k)
    /\ UNCHANGED <<resident, hst, board, chanmix, took>>

(* KeepAlive, Restart=always *)
ServiceRestarts ==
    /\ guestd.pc = "dead" /\ resident.version = "ours" /\ guestd' = Restarted
    /\ UNCHANGED <<toAgent, toHost, resident, hst, board, chanmix, took>>

newBackend ==
    /\ ~resident.backend /\ resident' = [resident EXCEPT !.backend = TRUE]
    /\ UNCHANGED <<toAgent, toHost, guestd, hst, board, chanmix, took>>

-----------------------------------------------------------------------------
Init ==
    /\ toAgent = <<>> /\ toHost = <<>> /\ board = [of |-> 0, got |-> <<>>]
    /\ guestd = Asleep
    /\ chanmix \in ChanMixes
    /\ resident = [version |-> "none", backend |-> "late" \notin chanmix]
    /\ hst = [pc |-> "install", n |-> 0, left |-> 0]
    /\ took = [n \in 1..MaxExchanges |-> {}]

AgentServes ==
    \/ serveHello \/ ServeStat \/ ServeGet \/ ServeSet \/ AgentReadBody \/ BackendWrite \/ ServeStray

HostReads == Ready \/ readMeta \/ ReadBody

Next ==
    \/ EnsureResident \/ NewSerial \/ WriteRequest \/ HostReads
    \/ AgentServes \/ AgentExits \/ ServiceRestarts \/ newBackend

(* Both ends read what there is to read; the installation is tried again in *)
(* every cycle.                                                             *)
Fairness == WF_avars(AgentServes) /\ WF_avars(HostReads) /\ WF_avars(EnsureResident \/ NewSerial)

Spec == Init /\ [][Next]_avars /\ Fairness

-----------------------------------------------------------------------------
ToAgentFrames == [kind : {"hello", "stat", "get", "set", "data"}, n : 0..MaxExchanges, w : 0..MaxData]
ToHostFrames == [kind : {"ok", "meta", "err", "data"}, n : 0..MaxExchanges, w : 0..MaxData]
Agents == [pc : {"dead", "read", "body"}, n : 0..MaxExchanges, left : 0..MaxData, of : 0..MaxData,
           got : Seq(ToAgentFrames)]
Engines == [pc : {"install", "open", "hello", "never", "idle", "wait", "body"}, n : 0..MaxExchanges,
            left : 0..MaxData]

TypeOK ==
    /\ toAgent \in Seq(ToAgentFrames) /\ toHost \in Seq(ToHostFrames)
    /\ guestd \in Agents
    /\ resident \in [version : {"none", "ours"}, backend : BOOLEAN]
    /\ hst \in Engines
    /\ hst.pc = "body" <=> hst.left > 0
    /\ board \in [of : 0..MaxData, got : Seq(ToAgentFrames)]
    /\ took \in [1..MaxExchanges -> SUBSET (0..MaxExchanges)]

(* What the host takes for an answer, or for the data of one, is of the     *)
(* exchange it is in, although no frame says which it belongs to: through   *)
(* refusals by the guest, empty payloads, an agent that exits and comes     *)
(* back, and users who log in late (readMeta, ReadBody).  Not so where a    *)
(* data frame reads as a request ("text"): late frames stay in the pipes.   *)
AnswersMatch == "text" \in chanmix \/ \A n \in 1..MaxExchanges : took[n] \subseteq {n}

(* The guest's clipboard only ever gets a payload as it was sent: all data  *)
(* frames, in order, of one exchange (ReadBody, payload.go:151-183), also   *)
(* if the agent exits while it reads them.                                  *)
WholePayloads ==
    \/ board.got = <<>> /\ board.of = 0
    \/ \E n \in 1..MaxExchanges : board.got = Body(n, board.of)

(* As long as the agent stays, every exchange comes to its end: the engine, *)
(* which waits for the answer without a limit, goes on to its next cycle.   *)
ExchangesEnd ==
    chanmix \cap {"dies", "late"} = {} => (hst.pc \in {"wait", "body"} ~> hst.pc = "idle")

(* Answers match questions and payloads are whole. *)
ChanSafe == TypeOK /\ AnswersMatch /\ WholePayloads

-----------------------------------------------------------------------------
(* The inductive invariant.                                                 *)

(* A request has its payload behind it, and the agent that reads a payload  *)
(* has the beginning of it, and the rest is next: in every history.         *)
Followed(s) ==
    \A i \in DOMAIN s : s[i].kind # "data" =>
        /\ s[i].kind = "set" => s[i].n > 0
        /\ i + s[i].w <= Len(s)
        /\ \A k \in 1..s[i].w : s[i + k] = Frame("data", s[i].n, k)

ReadsOn ==
    guestd.pc = "body" =>
        /\ guestd.n > 0 /\ guestd.left <= guestd.of /\ guestd.left <= Len(toAgent)
        /\ guestd.got = Body(guestd.n, guestd.of - guestd.left)
        /\ \A k \in 1..guestd.left : toAgent[k] = Frame("data", guestd.n, guestd.of - guestd.left + k)

(* Nothing on its way to the agent will be answered.                        *)
Unasked == guestd.pc # "body" /\ \A i \in DOMAIN toAgent : toAgent[i].kind = "data"

(* The host waits: the request is under way behind what is left of others', *)
(* or is being read, or was answered, if the answer was not lost.           *)
Asked ==
    /\ guestd.pc # "body" /\ toHost = <<>>
    /\ \E i \in DOMAIN toAgent :
          /\ toAgent[i].kind \in {"stat", "get", "set"} /\ toAgent[i].n = hst.n
          /\ i + toAgent[i].w = Len(toAgent)
          /\ \A j \in 1..i - 1 : toAgent[j].kind = "data"

Receiving == guestd.pc = "body" /\ guestd.n = hst.n /\ guestd.left = Len(toAgent) /\ toHost = <<>>

Answered ==
    /\ Unasked
    /\ \A i \in DOMAIN toHost : toHost[i].n = hst.n /\ (i = 1 <=> toHost[i].kind # "data")
    /\ toHost # <<>> => Len(toHost) <= 1 + toHost[1].w /\ (toHost[1].kind # "meta" => toHost[1].w = 0)

Delivered ==
    /\ Unasked
    /\ Len(toHost) <= hst.left /\ \A i \in DOMAIN toHost : toHost[i].n = hst.n /\ toHost[i].kind = "data"

Greeting ==
    /\ guestd.pc # "body"
    /\ \/ toAgent = <<>> /\ toHost \in {<<>>, <<Frame("ok", 0, 0)>>}
       \/ toAgent = <<Frame("hello", 0, 0)>> /\ toHost = <<>>

(* Both ends know where they are in the stream.                             *)
InStep ==
    /\ hst.pc # "never"
    /\ hst.pc \in {"install", "open"} => toAgent = <<>> /\ toHost = <<>> /\ guestd.pc # "body"
    /\ hst.pc = "hello" => Greeting
    /\ hst.pc = "idle" => Unasked /\ toHost = <<>>
    /\ hst.pc = "wait" => hst.n > 0 /\ (Asked \/ Receiving \/ Answered)
    /\ hst.pc = "body" => hst.n > 0 /\ Delivered

ChanIInv ==
    /\ TypeOK
    /\ Followed(toAgent)
    /\ ReadsOn
    /\ WholePayloads
    /\ "text" \notin chanmix => InStep /\ AnswersMatch
=============================================================================
