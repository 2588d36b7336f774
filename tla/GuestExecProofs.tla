--------------------------- MODULE GuestExecProofs ---------------------------
(***************************************************************************)
(* What GuestExec keeps, for every amount of input and output, number of   *)
(* resizes and window, whatever breaks (every ExecMixes): the messages are *)
(* in order on their way, so the exit code is behind the output and the    *)
(* end of the input behind the input.                                      *)
(***************************************************************************)
EXTENDS GuestExec, TLAPS

-----------------------------------------------------------------------------
(* Sequences *)

LEMMA Elements ==
    ASSUME NEW S, NEW s \in Seq(S)
    PROVE  Len(s) \in Nat /\ DOMAIN s = 1..Len(s) /\ \A i \in 1..Len(s) : s[i] \in S
OBVIOUS

LEMMA Appended ==
    ASSUME NEW S, NEW s \in Seq(S), NEW e \in S
    PROVE  /\ Append(s, e) \in Seq(S) /\ Len(Append(s, e)) = Len(s) + 1
           /\ Append(s, e)[Len(s) + 1] = e /\ \A i \in 1..Len(s) : Append(s, e)[i] = s[i]
OBVIOUS

LEMMA Taken ==
    ASSUME NEW S, NEW s \in Seq(S), s # <<>>
    PROVE  /\ Head(s) = s[1] /\ s[1] \in S /\ Tail(s) \in Seq(S) /\ Len(s) \in Nat \ {0}
           /\ Len(Tail(s)) = Len(s) - 1 /\ \A i \in 1..Len(s) - 1 : Tail(s)[i] = s[i + 1]
OBVIOUS

LEMMA Empty == ASSUME NEW S PROVE <<>> \in Seq(S) /\ Len(<<>>) = 0 /\ \A e \in S : <<e>> \in Seq(S)
OBVIOUS

LEMMA Counting ==
    ASSUME NEW s \in Seq(Nat), s = Upto(Len(s))
    PROVE  Append(s, Len(s) + 1) = Upto(Len(Append(s, Len(s) + 1)))
BY DEF Upto

LEMMA Messages ==
    /\ \A k \in Nat : {Msg("command", k), Msg("input", k), Msg("eof", k), Msg("resize", k)} \subseteq Sent
    /\ \A k \in Nat : {Msg("output", k), Msg("exit", k), Msg("end", k)} \subseteq Told
    /\ \A m \in Sent \cup Told : m.n \in Nat
    /\ \A c, k : Msg(c, k).kind = c /\ Msg(c, k).n = k
BY DEF Msg, Sent, Told

LEMMA SizesAre == Sizes \subseteq Nat \ {0} /\ 1 \in Sizes
BY ExecAssumption DEF Sizes

LEMMA Results == Code # Err /\ Code # "none" /\ Code # "cancelled"
BY DEF Code, Err

-----------------------------------------------------------------------------
(* What each action leaves alone. *)

LEMMA Frame ==
    ASSUME Next
    PROVE  /\ SendCommand \/ Stdin \/ StdinEOF \/ Resize \/ ProxyCloses \/ GuestTakes \/ toGuest' = toGuest
           /\ ProxyDown \/ ProxyCloses \/ GuestWrites \/ GuestExits \/ toClient' = toClient
           /\ Recv \/ ProxyDown \/ inbox' = inbox
           /\ Dial \/ ProxyCloses \/ proxy' = proxy
           /\ Dial \/ SendCommand \/ Return \/ UNCHANGED <<pc, result>>
           /\ Stdin \/ StdinEOF \/ stdin' = stdin
           /\ Stdin \/ read' = read
           /\ Resize \/ resize' = resize
           /\ Recv \/ RecvFails \/ recv' = recv
           /\ Stdin \/ StdinEOF \/ Resize \/ Recv \/ RecvFails \/ done' = done
           /\ Winch \/ UNCHANGED <<size, changes>>
           /\ Winch \/ TakeWinch \/ winch' = winch
           /\ TakeWinch \/ HandOver \/ held' = held
           /\ HandOver \/ Resize \/ chan' = chan
           /\ GuestTakes \/ GuestExits \/ GuestGoes \/ gst' = gst
           /\ GuestTakes \/ UNCHANGED <<gsize, ginput, gend>>
           /\ GuestWrites \/ gout' = gout
           /\ Recv \/ written' = written
           /\ SSHConnect \/ SSHRun \/ SystemSSH \/ ssh' = ssh
           /\ SSHRun \/ SystemSSH \/ ran' = ran
           /\ execmix' = execmix
<1>1. CASE Dial
  BY <1>1 DEF Dial, client, pumps, term, pipes, gproc, sshvars
<1>2. CASE SendCommand
  BY <1>2 DEF SendCommand, client, pumps, term, pipes, gproc, sshvars
<1>3. CASE Stdin
  BY <1>3 DEF Stdin, client, pumps, term, pipes, gproc, sshvars
<1>4. CASE StdinEOF
  BY <1>4 DEF StdinEOF, client, pumps, term, pipes, gproc, sshvars
<1>5. CASE TakeWinch
  BY <1>5 DEF TakeWinch, client, pumps, term, pipes, gproc, sshvars
<1>6. CASE HandOver
  BY <1>6 DEF HandOver, client, pumps, term, pipes, gproc, sshvars
<1>7. CASE Resize
  BY <1>7 DEF Resize, client, pumps, term, pipes, gproc, sshvars
<1>8. CASE Recv
  BY <1>8 DEF Recv, client, pumps, term, pipes, gproc, sshvars
<1>9. CASE RecvFails
  BY <1>9 DEF RecvFails, client, pumps, term, pipes, gproc, sshvars
<1>10. CASE Return
  BY <1>10 DEF Return, client, pumps, term, pipes, gproc, sshvars
<1>11. CASE Winch
  BY <1>11 DEF Winch, client, pumps, term, pipes, gproc, sshvars
<1>12. CASE ProxyDown
  BY <1>12 DEF ProxyDown, client, pumps, term, pipes, gproc, sshvars
<1>13. CASE ProxyCloses
  BY <1>13 DEF ProxyCloses, client, pumps, term, pipes, gproc, sshvars
<1>14. CASE GuestTakes
  BY <1>14 DEF GuestTakes, client, pumps, term, pipes, gproc, sshvars
<1>15. CASE GuestWrites
  BY <1>15 DEF GuestWrites, client, pumps, term, pipes, gproc, sshvars
<1>16. CASE GuestExits
  BY <1>16 DEF GuestExits, client, pumps, term, pipes, gproc, sshvars
<1>17. CASE GuestGoes
  BY <1>17 DEF GuestGoes, client, pumps, term, pipes, gproc, sshvars
<1>18. CASE SSHConnect
  BY <1>18 DEF SSHConnect, client, pumps, term, pipes, gproc, sshvars
<1>19. CASE SSHRun
  BY <1>19 DEF SSHRun, client, pumps, term, pipes, gproc, sshvars
<1>20. CASE SystemSSH
  BY <1>20 DEF SystemSSH, client, pumps, term, pipes, gproc, sshvars
<1> QED
  BY <1>1, <1>2, <1>3, <1>4, <1>5, <1>6, <1>7, <1>8, <1>9, <1>10, <1>11, <1>12, <1>13, <1>14, <1>15,
      <1>16, <1>17, <1>18, <1>19, <1>20 DEF Next, Pumps, Proxy, Guest, SSH

-----------------------------------------------------------------------------
(* Messages in their order *)

LEMMA OrderKept ==
    ASSUME NEW s \in Seq(Sent), NEW m \in Sent, m.kind # "input", NEW a \in Nat, NEW b \in Nat,
           InOrder(s, a, b)
    PROVE  InOrder(Append(s, m), a, b)
<1> DEFINE t == Append(s, m)
<1>1. Len(s) \in Nat /\ DOMAIN s = 1..Len(s) /\ DOMAIN t = 1..Len(s) + 1
      /\ t[Len(s) + 1] = m /\ \A i \in 1..Len(s) : t[i] = s[i]
  BY Elements, Appended
<1> HIDE DEF t
<1>2. ASSUME NEW k \in a + 1..b PROVE \E i \in DOMAIN t : t[i] = Msg("input", k)
  <2>1. PICK i \in DOMAIN s : s[i] = Msg("input", k)
    BY DEF InOrder
  <2>2. i \in DOMAIN t /\ t[i] = Msg("input", k)
    BY <1>1, <2>1
  <2>3. QED BY <2>2
<1>3. ASSUME NEW i \in DOMAIN t, t[i].kind = "input"
      PROVE  /\ t[i].n \in a + 1..b
             /\ \A j \in 1..i - 1 : t[j].kind # "eof" /\ (t[j].kind = "input" => t[j].n < t[i].n)
  <2>1. i \in DOMAIN s /\ t[i] = s[i] /\ \A j \in 1..i - 1 : j \in DOMAIN s /\ t[j] = s[j]
    BY <1>1, <1>3
  <2>2. QED BY <1>3, <2>1 DEF InOrder
<1>4. InOrder(t, a, b)
  BY <1>2, <1>3 DEF InOrder
<1>5. QED BY <1>4 DEF t

LEMMA OrderSent ==
    ASSUME NEW s \in Seq(Sent), NEW a \in Nat, NEW b \in Nat, a <= b,
           InOrder(s, a, b), \A i \in DOMAIN s : s[i].kind # "eof"
    PROVE  InOrder(Append(s, Msg("input", b + 1)), a, b + 1)
<1> DEFINE t == Append(s, Msg("input", b + 1))
<1>1. Len(s) \in Nat /\ DOMAIN s = 1..Len(s) /\ DOMAIN t = 1..Len(s) + 1
      /\ t[Len(s) + 1] = Msg("input", b + 1) /\ \A i \in 1..Len(s) : t[i] = s[i]
  BY Elements, Appended, Messages
<1> HIDE DEF t
<1>2. ASSUME NEW k \in a + 1..b + 1 PROVE \E i \in DOMAIN t : t[i] = Msg("input", k)
  <2>1. CASE k = b + 1
    BY <1>1, <2>1
  <2>2. CASE k # b + 1
    <3>1. k \in a + 1..b
      BY <2>2
    <3>2. PICK i \in DOMAIN s : s[i] = Msg("input", k)
      BY <3>1 DEF InOrder
    <3>3. i \in DOMAIN t /\ t[i] = Msg("input", k)
      BY <1>1, <3>2
    <3>4. QED BY <3>3
  <2>3. QED BY <2>1, <2>2
<1>3. ASSUME NEW i \in DOMAIN t, t[i].kind = "input"
      PROVE  /\ t[i].n \in a + 1..b + 1
             /\ \A j \in 1..i - 1 : t[j].kind # "eof" /\ (t[j].kind = "input" => t[j].n < t[i].n)
  <2>1. CASE i = Len(s) + 1
    <3>1. t[i].n = b + 1
      BY <1>1, <2>1, Messages
    <3>2. ASSUME NEW j \in 1..i - 1
          PROVE  t[j].kind # "eof" /\ (t[j].kind = "input" => t[j].n \in a + 1..b)
      BY <1>1, <2>1 DEF InOrder
    <3>3. QED BY <1>1, <2>1, <3>1, <3>2
  <2>2. CASE i # Len(s) + 1
    BY <1>1, <1>3, <2>2 DEF InOrder
  <2>3. QED BY <2>1, <2>2
<1>4. InOrder(t, a, b + 1)
  BY <1>2, <1>3 DEF InOrder
<1>5. QED BY <1>4 DEF t

LEMMA OrderTaken ==
    ASSUME NEW s \in Seq(Sent), s # <<>>, NEW a \in Nat, NEW b \in Nat, a <= b, InOrder(s, a, b)
    PROVE  /\ s[1].kind = "input" => s[1].n = a + 1 /\ a + 1 <= b /\ InOrder(Tail(s), a + 1, b)
           /\ s[1].kind # "input" => InOrder(Tail(s), a, b)
           /\ s[1].kind = "eof" => a = b
<1> DEFINE t == Tail(s)
<1>1. /\ Len(s) \in Nat \ {0} /\ DOMAIN s = 1..Len(s) /\ DOMAIN t = 1..Len(s) - 1
      /\ \A i \in DOMAIN t : i + 1 \in DOMAIN s /\ t[i] = s[i + 1]
      /\ \A i \in DOMAIN s : i # 1 => i - 1 \in DOMAIN t /\ t[i - 1] = s[i]
  BY Elements, Taken
<1> HIDE DEF t
<1>2. \A k \in a + 1..b : s[1] # Msg("input", k) => \E i \in DOMAIN t : t[i] = Msg("input", k)
  BY <1>1 DEF InOrder
<1>3. \A i \in DOMAIN t : t[i].kind = "input" =>
          /\ t[i].n \in a + 1..b
          /\ s[1].kind = "input" => s[1].n < t[i].n
          /\ s[1].kind # "eof"
          /\ \A j \in 1..i - 1 : t[j].kind # "eof" /\ (t[j].kind = "input" => t[j].n < t[i].n)
  <2> TAKE i \in DOMAIN t
  <2> HAVE t[i].kind = "input"
  <2>1. i + 1 \in DOMAIN s /\ s[i + 1] = t[i] /\ 1 \in 1..i /\ i \in Nat
    BY <1>1
  <2>2. t[i].n \in a + 1..b /\ \A j \in 1..i : s[j].kind # "eof" /\ (s[j].kind = "input" => s[j].n < t[i].n)
    BY <2>1 DEF InOrder
  <2>3. \A j \in 1..i - 1 : j + 1 \in 1..i /\ t[j] = s[j + 1]
    BY <1>1, <2>1
  <2>4. QED BY <2>1, <2>2, <2>3
<1>4. CASE s[1].kind = "input"
  <2>1. s[1].n \in a + 1..b
    BY <1>1, <1>4 DEF InOrder
  <2>2. s[1].n = a + 1
    <3>1. a + 1 \in a + 1..b
      BY <2>1
    <3>2. CASE s[1] = Msg("input", a + 1)
      BY <3>2, Messages
    <3>3. CASE s[1] # Msg("input", a + 1)
      <4>1. PICK i \in DOMAIN t : t[i] = Msg("input", a + 1)
        BY <1>2, <3>1, <3>3
      <4>2. t[i].kind = "input" /\ t[i].n = a + 1
        BY <4>1, Messages
      <4>3. QED BY <1>3, <1>4, <2>1, <4>2
    <3>4. QED BY <3>2, <3>3
  <2>3. \A k \in a + 2..b : \E i \in DOMAIN t : t[i] = Msg("input", k)
    <3>1. \A k \in a + 2..b : k \in a + 1..b /\ s[1] # Msg("input", k)
      BY <2>2, Messages
    <3>2. QED BY <1>2, <3>1
  <2>4. \A i \in DOMAIN t : t[i].kind = "input" => t[i].n \in a + 2..b
    BY <1>3, <1>4, <2>2
  <2>5. InOrder(t, a + 1, b)
    BY <1>3, <2>3, <2>4 DEF InOrder
  <2>6. QED BY <1>4, <2>1, <2>2, <2>5 DEF t
<1>5. CASE s[1].kind # "input"
  <2>1. \A k \in a + 1..b : s[1] # Msg("input", k)
    BY <1>5, Messages
  <2>2. InOrder(t, a, b)
    BY <1>2, <1>3, <2>1 DEF InOrder
  <2>3. ASSUME s[1].kind = "eof", a # b PROVE FALSE
    <3>1. PICK i \in DOMAIN t : t[i] = Msg("input", b)
      BY <1>2, <2>1, <2>3
    <3>2. QED BY <1>3, <2>3, <3>1, Messages
  <2>4. QED BY <1>5, <2>2, <2>3 DEF t
<1>6. QED BY <1>4, <1>5

LEMMA TurnSaid ==
    ASSUME NEW s \in Seq(Told), NEW m \in Told, NEW k \in Nat, NEW g \in Nat, InTurn(s, k, g),
           m.kind = "output" => m.n = k + Len(s) + 1 /\ k + Len(s) + 1 <= g,
           m.kind = "exit" => k + Len(s) = g
    PROVE  InTurn(Append(s, m), k, g)
<1> DEFINE t == Append(s, m)
<1>1. Len(s) \in Nat /\ DOMAIN s = 1..Len(s) /\ DOMAIN t = 1..Len(s) + 1
      /\ t[Len(s) + 1] = m /\ \A i \in 1..Len(s) : t[i] = s[i]
  BY Elements, Appended
<1> HIDE DEF t
<1>2. InTurn(t, k, g)
  BY <1>1 DEF InTurn
<1>3. QED BY <1>2 DEF t

LEMMA TurnTaken ==
    ASSUME NEW s \in Seq(Told), s # <<>>, NEW k \in Nat, NEW g \in Nat, InTurn(s, k, g)
    PROVE  /\ InTurn(Tail(s), k + 1, g)
           /\ s[1].kind = "output" => s[1].n = k + 1 /\ k + 1 <= g
           /\ s[1].kind = "exit" => k = g
<1> DEFINE t == Tail(s)
<1>1. /\ Len(s) \in Nat \ {0} /\ DOMAIN s = 1..Len(s)
      /\ \A i \in DOMAIN t : i \in Nat /\ i + 1 \in DOMAIN s /\ t[i] = s[i + 1]
  BY Elements, Taken
<1> HIDE DEF t
<1>2. ASSUME NEW i \in DOMAIN t
      PROVE  /\ t[i].kind = "output" => t[i].n = k + 1 + i /\ k + 1 + i <= g
             /\ t[i].kind = "exit" => k + 1 + i = g + 1
  <2>1. i \in Nat /\ i + 1 \in DOMAIN s /\ t[i] = s[i + 1] /\ k + (i + 1) = k + 1 + i
    BY <1>1
  <2>2. QED BY <2>1 DEF InTurn
<1>3. QED BY <1>2, <1>1, <1>2 DEF t, InTurn

(* Without an exit among them, more outputs may follow. *)
LEMMA TurnGoesOn ==
    ASSUME NEW s \in Seq(Told), NEW k \in Nat, NEW g \in Nat, InTurn(s, k, g), NoExit(s)
    PROVE  InTurn(s, k, g + 1)
<1>1. DOMAIN s = 1..Len(s) /\ Len(s) \in Nat
  BY Elements
<1>2. QED BY <1>1 DEF InTurn, NoExit

LEMMA ExitsOf ==
    ASSUME NEW s \in Seq(Told), NoExit(s)
    PROVE  /\ \A m \in Told : m.kind # "exit" => NoExit(Append(s, m))
           /\ s # <<>> => NoExit(Tail(s)) /\ s[1].kind # "exit"
<1>1. DOMAIN s = 1..Len(s) /\ Len(s) \in Nat
  BY Elements
<1>2. ASSUME NEW m \in Told, m.kind # "exit" PROVE NoExit(Append(s, m))
  BY <1>1, <1>2, Elements, Appended DEF NoExit
<1>3. ASSUME s # <<>> PROVE NoExit(Tail(s)) /\ s[1].kind # "exit"
  BY <1>1, <1>3, Elements, Taken DEF NoExit
<1>4. QED BY <1>2, <1>3

-----------------------------------------------------------------------------
(* Types *)

LEMMA Values ==
    ASSUME TypeOK
    PROVE  /\ toGuest \in Seq(Sent) /\ toClient \in Seq(Told) /\ inbox \in Seq(Told)
           /\ done \in Seq({Code, Err}) /\ chan \in Seq(Sizes) /\ ginput \in Seq(Nat) /\ written \in Seq(Nat)
           /\ read \in Nat /\ read <= Chunks /\ gout \in Nat /\ gout <= Outputs
           /\ size \in Nat /\ changes \in Nat /\ changes <= MaxWinch /\ held \in Sizes \cup {0}
           /\ Len(ginput) \in Nat /\ Len(written) \in Nat /\ Len(inbox) \in Nat /\ Len(toClient) \in Nat
           /\ Len(toGuest) \in Nat /\ Len(done) \in Nat
  BY ExecAssumption, SizesAre DEF TypeOK, Queues

LEMMA HeldSize == ASSUME TypeOK, chan # <<>> PROVE Head(chan) \in Sizes /\ Head(chan) \in Nat
<1>1. chan \in Seq(Sizes)
  BY Values
<1>2. Head(chan) \in Sizes
  BY <1>1, Taken
<1>3. QED BY <1>2, SizesAre

(* What a step puts on its way to the guest and takes from it. *)
LEMMA ToGuestMoves ==
    ASSUME TypeOK, Next
    PROVE  \/ toGuest' = toGuest
           \/ ProxyCloses /\ toGuest' = <<>>
           \/ GuestTakes /\ toGuest # <<>> /\ toGuest' = Tail(toGuest)
           \/ SendCommand /\ toGuest' = Append(toGuest, Msg("command", size))
           \/ Stdin /\ CanSend /\ toGuest' = Append(toGuest, Msg("input", read + 1))
           \/ StdinEOF /\ CanSend /\ toGuest' = Append(toGuest, Msg("eof", 0))
           \/ Resize /\ CanSend /\ chan # <<>> /\ toGuest' = Append(toGuest, Msg("resize", Head(chan)))
  BY Frame DEF SendCommand, Stdin, StdinEOF, Resize, ProxyCloses, GuestTakes

LEMMA ToGuestType == ASSUME TypeOK, Next PROVE toGuest' \in Seq(Sent)
<1>1. size \in Nat /\ read + 1 \in Nat /\ toGuest \in Seq(Sent) /\ chan \in Seq(Sizes)
  BY Values
<1>2. chan # <<>> => Head(chan) \in Nat
  BY HeldSize
<1>3. \A m \in Sent : Append(toGuest, m) \in Seq(Sent)
  BY <1>1, Appended
<1>4. toGuest # <<>> => Tail(toGuest) \in Seq(Sent)
  BY <1>1, Taken
<1>5. <<>> \in Seq(Sent)
  BY Empty
<1>6. /\ Msg("command", size) \in Sent /\ Msg("input", read + 1) \in Sent /\ Msg("eof", 0) \in Sent
      /\ chan # <<>> => Msg("resize", Head(chan)) \in Sent
  BY <1>1, <1>2, Messages
<1>7. QED BY <1>1, <1>3, <1>4, <1>5, <1>6, ToGuestMoves

LEMMA ToClientMoves ==
    ASSUME TypeOK, Next
    PROVE  \/ toClient' = toClient
           \/ ProxyCloses /\ toClient' = <<>>
           \/ ProxyDown /\ toClient # <<>> /\ toClient' = Tail(toClient)
           \/ GuestWrites /\ toClient' = Append(toClient, Msg("output", gout + 1))
           \/ GuestExits /\ toClient' = Append(Append(toClient, Msg("exit", 0)), Msg("end", 0))
  BY Frame DEF ProxyDown, ProxyCloses, GuestWrites, GuestExits

LEMMA ToClientType == ASSUME TypeOK, Next PROVE toClient' \in Seq(Told)
<1>1. gout + 1 \in Nat /\ toClient \in Seq(Told)
  BY Values
<1>2. \A s \in Seq(Told) : \A m \in Told : Append(s, m) \in Seq(Told)
  BY Appended
<1>3. toClient # <<>> => Tail(toClient) \in Seq(Told)
  BY <1>1, Taken
<1>4. <<>> \in Seq(Told)
  BY Empty
<1>5. Msg("output", gout + 1) \in Told /\ Msg("exit", 0) \in Told /\ Msg("end", 0) \in Told
  BY <1>1, Messages
<1>6. QED BY <1>1, <1>2, <1>3, <1>4, <1>5, ToClientMoves

LEMMA InboxMoves ==
    ASSUME TypeOK, Next
    PROVE  \/ inbox' = inbox
           \/ Recv /\ inbox # <<>> /\ inbox' = Tail(inbox)
           \/ ProxyDown /\ toClient # <<>> /\ inbox' = Append(inbox, Head(toClient))
  BY Frame DEF ProxyDown, Recv

LEMMA InboxType == ASSUME TypeOK, Next PROVE inbox' \in Seq(Told)
<1>1. inbox \in Seq(Told) /\ toClient \in Seq(Told)
  BY Values
<1>2. inbox # <<>> => Tail(inbox) \in Seq(Told)
  BY <1>1, Taken
<1>3. toClient # <<>> => Head(toClient) \in Told
  BY <1>1, Taken
<1>4. \A m \in Told : Append(inbox, m) \in Seq(Told)
  BY <1>1, Appended
<1>5. QED BY <1>1, <1>2, <1>3, <1>4, InboxMoves

LEMMA DoneType == ASSUME TypeOK, Next PROVE done' \in Seq({Code, Err})
<1>1. done \in Seq({Code, Err})
  BY Values
<1>2. Append(done, Code) \in Seq({Code, Err}) /\ Append(done, Err) \in Seq({Code, Err})
  BY <1>1, Appended
<1>3. done' = done \/ done' = Append(done, Code) \/ done' = Append(done, Err)
  BY Frame DEF Stdin, StdinEOF, Resize, Recv, Event, RecvError, Finish, RecvFails
<1>4. QED BY <1>1, <1>2, <1>3

LEMMA ChanType == ASSUME TypeOK, Next PROVE chan' \in Seq(Sizes)
<1>1. chan \in Seq(Sizes) /\ held \in Sizes \cup {0}
  BY Values
<1>2. chan' = chan \/ chan' = <<>> \/ (held # 0 /\ chan' = <<held>>)
  BY Frame DEF Resize, HandOver
<1>3. <<>> \in Seq(Sizes) /\ \A e \in Sizes : <<e>> \in Seq(Sizes)
  BY Empty
<1>4. QED BY <1>1, <1>2, <1>3

LEMMA HasInputType == ASSUME TypeOK, Next PROVE ginput' \in Seq(Nat)
<1>1. ginput \in Seq(Nat) /\ toGuest \in Seq(Sent)
  BY Values
<1>2. toGuest # <<>> => Head(toGuest).n \in Nat
  BY <1>1, Taken, Messages
<1>3. ginput' = ginput \/ (toGuest # <<>> /\ ginput' = Append(ginput, Head(toGuest).n))
  BY Frame DEF GuestTakes, Takes
<1>4. \A k \in Nat : Append(ginput, k) \in Seq(Nat)
  BY <1>1, Appended
<1>5. QED BY <1>1, <1>2, <1>3, <1>4

LEMMA WrittenType == ASSUME TypeOK, Next PROVE written' \in Seq(Nat)
<1>1. written \in Seq(Nat) /\ inbox \in Seq(Told)
  BY Values
<1>2. inbox # <<>> => Head(inbox).n \in Nat
  BY <1>1, Taken, Messages
<1>3. written' = written \/ (inbox # <<>> /\ written' = Append(written, Head(inbox).n))
  BY Frame DEF Recv, Event
<1>4. \A k \in Nat : Append(written, k) \in Seq(Nat)
  BY <1>1, Appended
<1>5. QED BY <1>1, <1>2, <1>3, <1>4

-----------------------------------------------------------------------------
(* What a step keeps of the smaller parts *)

LEMMA PlacesStep ==
    ASSUME TypeOK, Places, Next
    PROVE  Places'
<1>1. Len(done) \in Nat /\ Len(Append(done, Code)) = Len(done) + 1 /\ Len(Append(done, Err)) = Len(done) + 1
  BY Values, Appended
<1>2. CASE Stdin
  BY <1>1, <1>2, Frame DEF Stdin, Finish, Places, Uses
<1>3. CASE StdinEOF
  BY <1>1, <1>3, Frame DEF StdinEOF, Finish, Places, Uses
<1>4. CASE Resize
  BY <1>1, <1>4, Frame DEF Resize, Finish, Places, Uses
<1>5. CASE Recv
  BY <1>1, <1>5, Frame DEF Recv, Event, RecvError, Finish, Places, Uses
<1>6. CASE RecvFails
  BY <1>1, <1>6, Frame DEF RecvFails, RecvError, Finish, Places, Uses
<1>7. QED
  BY <1>2, <1>3, <1>4, <1>5, <1>6, Frame DEF Places, Uses

LEMMA CommandFirstStep ==
    ASSUME TypeOK, Begun, CommandFirst, Next
    PROVE  CommandFirst'
<1>1. toGuest \in Seq(Sent) /\ Len(toGuest) \in Nat /\ DOMAIN toGuest = 1..Len(toGuest)
  BY Values, Elements
<1>2. ASSUME NEW m \in Sent, m.kind # "command", toGuest' = Append(toGuest, m), gst' = gst
      PROVE  CommandFirst'
  BY <1>1, <1>2, Elements, Appended DEF CommandFirst
<1>3. CASE SendCommand
  <2>1. toGuest = <<>> /\ gst' = gst /\ gst \in {"none", "gone"}
    BY <1>3, Frame DEF SendCommand, Begun, gproc
  <2>2. toGuest' = <<>> \/ toGuest' = Append(<<>>, Msg("command", size))
    BY <1>3, <2>1 DEF SendCommand
  <2>3. QED BY <2>1, <2>2 DEF CommandFirst
<1>4. CASE Stdin \/ StdinEOF \/ Resize
  <2>1. gst' = gst
    BY <1>4 DEF Stdin, StdinEOF, Resize, gproc
  <2>2. CASE toGuest' = toGuest
    BY <2>1, <2>2 DEF CommandFirst
  <2>3. CASE toGuest' # toGuest
    <3>1. read + 1 \in Nat /\ (chan # <<>> => Head(chan) \in Nat)
      BY Values, HeldSize
    <3>2. \/ toGuest' = Append(toGuest, Msg("input", read + 1))
          \/ toGuest' = Append(toGuest, Msg("eof", 0))
          \/ chan # <<>> /\ toGuest' = Append(toGuest, Msg("resize", Head(chan)))
      BY <1>4, <2>3 DEF Stdin, StdinEOF, Resize
    <3>3. QED BY <1>2, <2>1, <3>1, <3>2, Messages
  <2>4. QED BY <2>2, <2>3
<1>5. CASE GuestTakes
  <2>1. toGuest # <<>> /\ toGuest' = Tail(toGuest)
    BY <1>5 DEF GuestTakes
  <2>2. \A i \in DOMAIN toGuest' : i + 1 \in DOMAIN toGuest /\ toGuest'[i] = toGuest[i + 1] /\ i + 1 # 1
    BY <1>1, <2>1, Taken, Elements
  <2>3. QED BY <2>2 DEF CommandFirst
<1>6. CASE ProxyCloses
  BY <1>6, Frame DEF ProxyCloses, CommandFirst
<1>7. CASE GuestExits \/ GuestGoes
  <2>1. toGuest' = toGuest /\ (gst' = "gone" \/ gst = "runs")
    BY <1>7 DEF GuestExits, GuestGoes, pipes
  <2>2. QED BY <2>1 DEF CommandFirst
<1>8. QED
  BY <1>3, <1>4, <1>5, <1>6, <1>7, Frame DEF CommandFirst

LEMMA NotYetRunStep ==
    ASSUME TypeOK, NotYetRun, Next
    PROVE  NotYetRun'
<1>1. ran \in Nat
  BY DEF TypeOK
<1>2. CASE SSHConnect
  BY <1>1, <1>2, Frame DEF SSHConnect, NotYetRun
<1>3. CASE SSHRun
  BY <1>1, <1>3 DEF SSHRun, NotYetRun, RunError
<1>4. CASE SystemSSH
  BY <1>1, <1>4 DEF SystemSSH, NotYetRun
<1>5. QED
  BY <1>2, <1>3, <1>4, Frame DEF NotYetRun

LEMMA BegunStep ==
    ASSUME TypeOK, CommandFirst, Begun, Next
    PROVE  Begun'
<1>1. /\ toGuest # <<>> => Head(toGuest) = toGuest[1] /\ 1 \in DOMAIN toGuest
      /\ Len(toClient) \in Nat /\ Window \in Nat \ {0}
  BY Values, Taken, Elements, ExecAssumption
<1>2. size' = changes' + 1
  <2>1. CASE Winch
    BY <2>1, Values DEF Winch, Begun
  <2>2. QED BY <2>1, Frame DEF Begun
<1>3. pc' \in {"none", "dial"} => proxy' = "none"
  <2>1. pc' \in {"none", "dial"} => pc' = pc /\ ~Dial
    BY Frame DEF Dial, SendCommand, Return
  <2>2. ProxyCloses => proxy = "up"
    BY DEF ProxyCloses
  <2>3. QED BY <2>1, <2>2, Frame DEF Begun
<1>4. proxy' = "none" => gst' = "none"
  <2>1. GuestTakes \/ GuestGoes => proxy = "up" /\ proxy' = proxy
    BY DEF GuestTakes, GuestGoes, pipes
  <2>2. GuestExits => gst = "runs" /\ proxy' = proxy
    BY DEF GuestExits
  <2>3. proxy' = "none" => proxy = "none"
    BY Frame DEF Dial, ProxyCloses
  <2>4. QED BY <2>1, <2>2, <2>3, Frame DEF Begun
<1>5. ASSUME pc' \in {"none", "dial", "command"}
      PROVE  /\ toGuest' = <<>> /\ gst' \in {"none", "gone"}
             /\ read' = 0 /\ stdin' = "reading" /\ result' = "none"
  <2>1. pc \in {"none", "dial", "command"} /\ ~Running /\ result' = result /\ ~SendCommand
    BY <1>5, Frame DEF Dial, SendCommand, Return, Running
  <2>2. ~Stdin /\ ~StdinEOF /\ ~Resize
    BY <2>1 DEF Stdin, StdinEOF, Resize
  <2>3. toGuest = <<>> /\ gst \in {"none", "gone"} /\ read = 0 /\ stdin = "reading" /\ result = "none"
    BY <2>1 DEF Begun
  <2>4. ~GuestTakes /\ ~GuestExits /\ (GuestGoes => gst' = "gone")
    BY <2>3 DEF GuestTakes, GuestExits, GuestGoes
  <2>5. ProxyCloses => toGuest' = <<>>
    BY DEF ProxyCloses
  <2>6. QED BY <2>1, <2>2, <2>3, <2>4, <2>5, Frame
<1>6. ASSUME gst' = "none"
      PROVE  gout' = 0 /\ toClient' = <<>> /\ inbox' = <<>> /\ written' = <<>>
  <2>1. gst = "none"
    BY <1>6, Frame DEF GuestTakes, Takes, GuestExits, GuestGoes
  <2>2. gout = 0 /\ toClient = <<>> /\ inbox = <<>> /\ written = <<>>
    BY <2>1 DEF Begun
  <2>3. ~Recv /\ ~ProxyDown /\ ~GuestWrites /\ ~GuestExits
    BY <2>1, <2>2 DEF Recv, ProxyDown, GuestWrites, GuestExits
  <2>4. ProxyCloses => toClient' = <<>>
    BY DEF ProxyCloses
  <2>5. QED BY <2>2, <2>3, <2>4, Frame
<1>7. ASSUME gst' = "runs" PROVE Len(toClient') <= Window
  <2>1. CASE GuestTakes
    <3>1. toClient' = toClient
      BY <2>1 DEF GuestTakes
    <3>2. gst = "runs" \/ toGuest[1].kind = "command"
      BY <1>1, <1>7, <2>1 DEF GuestTakes, Takes
    <3>3. gst # "gone"
      BY <2>1 DEF GuestTakes
    <3>4. gst = "runs" \/ toClient = <<>>
      BY <1>1, <2>1, <3>2, <3>3 DEF CommandFirst, Begun, GuestTakes
    <3>5. QED BY <1>1, <3>1, <3>4 DEF Begun
  <2>2. CASE ~GuestTakes
    <3>1. gst = "runs"
      BY <1>7, <2>2, Frame DEF GuestExits, GuestGoes
    <3>2. Len(toClient) <= Window /\ ~GuestExits
      BY <1>7, <3>1 DEF Begun, GuestExits
    <3>3. CASE ProxyDown
      BY <1>1, <3>2, <3>3, Values, Taken DEF ProxyDown
    <3>4. CASE ProxyCloses
      BY <1>1, <3>4 DEF ProxyCloses
    <3>5. CASE GuestWrites
      BY <1>1, <3>5, Values, Appended, Messages DEF GuestWrites
    <3>6. QED BY <3>2, <3>3, <3>4, <3>5, Frame
  <2>3. QED BY <2>1, <2>2
<1>8. QED BY <1>2, <1>3, <1>4, <1>5, <1>6, <1>7 DEF Begun

LEMMA TypeStep ==
    ASSUME ExecIInv, Next, Places'
    PROVE  TypeOK'
<1> USE DEF ExecIInv
<1>1. Queues'
  BY ToGuestType, ToClientType, InboxType, DoneType, ChanType, HasInputType, WrittenType DEF Queues
<1>2. pc' \in {"none", "dial", "command", "pumping", "over"}
  BY Frame DEF Dial, SendCommand, Return, TypeOK
<1>3. result' \in {"none", Code, Err, "cancelled"}
  <2>1. done # <<>> => Head(done) \in {Code, Err}
    BY Values, Taken
  <2>2. result \in {"none", Code, Err, "cancelled"}
    BY DEF TypeOK
  <2>3. QED BY <2>1, <2>2, Frame DEF Dial, SendCommand, Return
<1>4. stdin' \in {"reading", "eof", "ended"}
  BY Frame DEF Stdin, StdinEOF, TypeOK
<1>5. read' \in 0..Chunks
  <2>1. CASE Stdin
    BY <2>1, Values, ExecAssumption DEF Stdin
  <2>2. QED BY <2>1, Frame DEF TypeOK
<1>6. resize' \in {"on", "ended"} /\ recv' \in {"on", "ended"}
  BY Frame DEF Resize, Recv, Event, RecvError, RecvFails, TypeOK
<1>7. size' \in Sizes /\ changes' \in 0..MaxWinch
  <2>1. CASE Winch
    <3>1. changes' = changes + 1 /\ size' = changes + 2 /\ changes < MaxWinch
      BY <2>1, Values DEF Winch, Begun
    <3>2. changes \in Nat /\ MaxWinch \in Nat
      BY Values, ExecAssumption
    <3>3. QED BY <3>1, <3>2 DEF Sizes
  <2>2. QED BY <2>1, Frame DEF TypeOK
<1>8. winch' \in 0..1 /\ held' \in Sizes \cup {0}
  <2>1. winch \in 0..1 /\ held \in Sizes \cup {0} /\ size \in Sizes
    BY DEF TypeOK
  <2>2. QED BY <2>1, Frame DEF Winch, TakeWinch, HandOver
<1>9. gst' \in {"none", "runs", "exited", "gone"}
  BY Frame DEF GuestTakes, Takes, GuestExits, GuestGoes, TypeOK
<1>10. gsize' \in Nat /\ gend' \in {"open", "ended"}
  <2>1. toGuest # <<>> => Head(toGuest).n \in Nat
    BY Values, Taken, Messages
  <2>2. gsize \in Nat /\ gend \in {"open", "ended"}
    BY DEF TypeOK
  <2>3. QED BY <2>1, <2>2, Frame DEF GuestTakes, Takes
<1>11. gout' \in 0..Outputs
  <2>1. CASE GuestWrites
    BY <2>1, Values, ExecAssumption DEF GuestWrites
  <2>2. QED BY <2>1, Frame DEF TypeOK
<1>12. proxy' \in {"none", "up", "closed"}
  BY Frame DEF Dial, ProxyCloses, TypeOK
<1>13. ssh' \in {"none", "start", "connected", "over", "Timeout", "ConnectionFailed",
                 "AuthenticationFailed", "CommandFailed"}
  BY Frame DEF SSHConnect, SSHRun, SystemSSH, RunError, TypeOK
<1>14. ran' \in Nat
  BY Frame DEF SSHRun, SystemSSH, TypeOK
<1>15. Len(done') <= 3
  <2>1. Len(done') \in Nat
    BY DoneType
  <2>2. QED BY <2>1 DEF Places, Uses
<1>16. Len(toGuest') <= Window
  <2>1. Len(toGuest) \in Nat /\ Len(toGuest) <= Window /\ Window \in Nat \ {0} /\ toGuest \in Seq(Sent)
    BY Values, ExecAssumption DEF TypeOK
  <2>2. \A m \in Sent : Len(Append(toGuest, m)) = Len(toGuest) + 1
    BY <2>1, Appended
  <2>3. toGuest # <<>> => Len(Tail(toGuest)) = Len(toGuest) - 1
    BY <2>1, Taken
  <2>4. CASE SendCommand
    <3>1. toGuest = <<>> /\ Len(toGuest) = 0
      BY <2>4 DEF SendCommand, Begun
    <3>2. Msg("command", size) \in Sent
      BY Values, Messages
    <3>3. toGuest' = toGuest \/ toGuest' = Append(toGuest, Msg("command", size))
      BY <2>4 DEF SendCommand
    <3>4. Len(Append(toGuest, Msg("command", size))) = Len(toGuest) + 1
      BY <2>2, <3>2
    <3>5. Len(toGuest') \in {0, 1}
      BY <3>1, <3>3, <3>4
    <3>6. Window \in Nat /\ Window >= 1
      BY ExecAssumption
    <3>7. QED BY <3>5, <3>6
  <2>5. Msg("input", read + 1) \in Sent /\ Msg("eof", 0) \in Sent /\ (chan # <<>> => Msg("resize", Head(chan)) \in Sent)
    BY Values, HeldSize, Messages
  <2>6. QED BY <2>1, <2>2, <2>3, <2>4, <2>5, ToGuestMoves DEF CanSend
<1>17. Len(toClient') <= Window + 2
  <2>1. Len(toClient) \in Nat /\ Len(toClient) <= Window + 2 /\ Window \in Nat \ {0} /\ toClient \in Seq(Told)
    BY Values, ExecAssumption DEF TypeOK
  <2>2. \A s \in Seq(Told) : \A m \in Told : Append(s, m) \in Seq(Told) /\ Len(Append(s, m)) = Len(s) + 1
    BY Appended
  <2>3. toClient # <<>> => Len(Tail(toClient)) = Len(toClient) - 1
    BY <2>1, Taken
  <2>4. Msg("output", gout + 1) \in Told /\ Msg("exit", 0) \in Told /\ Msg("end", 0) \in Told
    BY Values, Messages
  <2>5. /\ GuestWrites => Len(toClient) < Window
        /\ GuestExits => Len(toClient) <= Window
    BY DEF GuestWrites, GuestExits, Begun
  <2>6. QED BY <2>1, <2>2, <2>3, <2>4, <2>5, ToClientMoves
<1>18. QED
  BY <1>1, <1>2, <1>3, <1>4, <1>5, <1>6, <1>7, <1>8, <1>9, <1>10, <1>11, <1>12, <1>13, <1>14, <1>15,
      <1>16, <1>17 DEF TypeOK

-----------------------------------------------------------------------------
(* The caller's input *)

LEMMA InputStep ==
    ASSUME ExecIInv, Next
    PROVE  InputUnderWay'
<1>1. /\ toGuest \in Seq(Sent) /\ ginput \in Seq(Nat) /\ Len(ginput) \in Nat /\ read \in Nat
      /\ DOMAIN toGuest = 1..Len(toGuest) /\ Len(toGuest) \in Nat
      /\ toGuest # <<>> => Head(toGuest) = toGuest[1] /\ 1 \in DOMAIN toGuest
  BY Values, Elements, Taken DEF ExecIInv
<1>2. /\ stdin = "eof" => read = Chunks
      /\ Len(ginput) <= read
      /\ ginput = Upto(Len(ginput))
      /\ gend = "ended" => AllRead /\ (read = Len(ginput) \/ May("readfail"))
      /\ proxy = "up" =>
            /\ InOrder(toGuest, Len(ginput), read)
            /\ \A i \in DOMAIN toGuest : toGuest[i].kind = "eof" => AllRead
  BY DEF ExecIInv, InputUnderWay
<1>3. AllRead => AllRead'
  BY Frame DEF AllRead, Stdin, StdinEOF, May
<1>4. execmix' = execmix
  BY Frame
<1>5. CASE Stdin
  <2>1. stdin = "reading" /\ read < Chunks /\ UNCHANGED <<ginput, gend, proxy>> /\ ~AllRead
    BY <1>5 DEF Stdin, gproc, AllRead
  <2>2. /\ \/ read' = read /\ toGuest' = toGuest
           \/ read' = read + 1 /\ toGuest' = Append(toGuest, Msg("input", read + 1))
        /\ stdin' = "eof" => read' = Chunks
    BY <1>5, <2>1 DEF Stdin
  <2>3. gend # "ended"
    BY <1>2, <2>1
  <2>4. ASSUME proxy = "up"
        PROVE  InOrder(toGuest', Len(ginput), read') /\ \A i \in DOMAIN toGuest' : toGuest'[i].kind # "eof"
    <3>1. InOrder(toGuest, Len(ginput), read) /\ \A i \in DOMAIN toGuest : toGuest[i].kind # "eof"
      BY <1>2, <2>1, <2>4
    <3>2. CASE toGuest' = toGuest /\ read' = read
      BY <3>1, <3>2
    <3>3. CASE read' = read + 1 /\ toGuest' = Append(toGuest, Msg("input", read + 1))
      <4>1. InOrder(toGuest', Len(ginput), read')
        BY <1>1, <1>2, <3>1, <3>3, OrderSent
      <4>2. Msg("input", read + 1) \in Sent /\ Msg("input", read + 1).kind # "eof"
        BY <1>1, Messages
      <4>3. \A i \in DOMAIN toGuest' : toGuest'[i].kind # "eof"
        BY <1>1, <3>1, <3>3, <4>2, Elements, Appended
      <4>4. QED BY <4>1, <4>3
    <3>4. QED BY <2>2, <3>2, <3>3
  <2>5. QED BY <1>1, <1>2, <2>1, <2>2, <2>3, <2>4 DEF InputUnderWay
<1>6. ASSUME UNCHANGED <<ginput, gend, proxy, read>>, stdin' = "eof" => read = Chunks,
             NEW m \in Sent, m.kind # "input", m.kind = "eof" => AllRead',
             toGuest' = toGuest \/ toGuest' = Append(toGuest, m)
      PROVE  InputUnderWay'
  <2>1. gend = "ended" => AllRead' /\ (read = Len(ginput) \/ May("readfail")')
    BY <1>2, <1>3, <1>4 DEF May
  <2>2. ASSUME proxy = "up"
        PROVE  InOrder(toGuest', Len(ginput), read) /\ \A i \in DOMAIN toGuest' : toGuest'[i].kind = "eof" => AllRead'
    <3>1. InOrder(toGuest, Len(ginput), read) /\ \A i \in DOMAIN toGuest : toGuest[i].kind = "eof" => AllRead'
      BY <1>2, <1>3, <2>2
    <3>2. CASE toGuest' = toGuest
      BY <3>1, <3>2
    <3>3. CASE toGuest' = Append(toGuest, m)
      <4>1. InOrder(toGuest', Len(ginput), read)
        BY <1>1, <1>6, <3>1, <3>3, OrderKept
      <4>2. \A i \in DOMAIN toGuest' : toGuest'[i].kind = "eof" => AllRead'
        BY <1>1, <1>6, <3>1, <3>3, Elements, Appended
      <4>3. QED BY <4>1, <4>2
    <3>4. QED BY <1>6, <3>2, <3>3
  <2>3. QED BY <1>2, <1>6, <2>1, <2>2 DEF InputUnderWay
<1>7. CASE StdinEOF
  <2>1. UNCHANGED <<ginput, gend, proxy, read>> /\ stdin' = "ended"
    BY <1>7 DEF StdinEOF, gproc
  <2>2. AllRead'
    BY <1>2, <1>4, <1>7, <2>1 DEF StdinEOF, AllRead, May
  <2>3. toGuest' = toGuest \/ toGuest' = Append(toGuest, Msg("eof", 0))
    BY <1>7 DEF StdinEOF
  <2>4. Msg("eof", 0) \in Sent /\ Msg("eof", 0).kind # "input"
    BY Messages
  <2>5. QED BY <1>6, <2>1, <2>2, <2>3, <2>4
<1>8. CASE SendCommand
  <2>1. UNCHANGED <<ginput, gend, proxy, read, stdin>>
    BY <1>8 DEF SendCommand, gproc, pumps
  <2>2. toGuest' = toGuest \/ toGuest' = Append(toGuest, Msg("command", size))
    BY <1>8 DEF SendCommand
  <2>3. Msg("command", size) \in Sent /\ Msg("command", size).kind = "command"
    BY Values, Messages DEF ExecIInv
  <2>4. QED BY <1>2, <1>6, <2>1, <2>2, <2>3
<1>9. CASE Resize
  <2>1. UNCHANGED <<ginput, gend, proxy, read, stdin>>
    BY <1>9 DEF Resize, gproc
  <2>2. toGuest' = toGuest \/ toGuest' = Append(toGuest, Msg("resize", Head(chan)))
    BY <1>9 DEF Resize
  <2>3. Msg("resize", Head(chan)) \in Sent /\ Msg("resize", Head(chan)).kind = "resize"
    BY <1>9, HeldSize, Messages DEF ExecIInv, Resize
  <2>4. QED BY <1>2, <1>6, <2>1, <2>2, <2>3
<1>10. CASE GuestTakes
  <2>1. toGuest # <<>> /\ toGuest' = Tail(toGuest) /\ proxy = "up" /\ UNCHANGED <<read, stdin, proxy>>
    BY <1>10 DEF GuestTakes, pumps
  <2>2. InOrder(toGuest, Len(ginput), read) /\ \A i \in DOMAIN toGuest : toGuest[i].kind = "eof" => AllRead
    BY <1>2, <2>1
  <2>3. /\ toGuest[1].kind = "input" => /\ toGuest[1].n = Len(ginput) + 1 /\ Len(ginput) + 1 <= read
                                         /\ InOrder(toGuest', Len(ginput) + 1, read)
        /\ toGuest[1].kind # "input" => InOrder(toGuest', Len(ginput), read)
        /\ toGuest[1].kind = "eof" => Len(ginput) = read
    BY <1>1, <1>2, <2>1, <2>2, OrderTaken
  <2>4. \A i \in DOMAIN toGuest' : toGuest'[i].kind = "eof" => AllRead'
    <3>1. \A i \in DOMAIN toGuest' : i + 1 \in DOMAIN toGuest /\ toGuest'[i] = toGuest[i + 1]
      BY <1>1, <2>1, Elements, Taken
    <3>2. QED BY <1>3, <2>2, <3>1
  <2>5. CASE toGuest[1].kind = "input"
    <3>1. ginput' = Append(ginput, Len(ginput) + 1) /\ gend' = gend
      BY <1>1, <1>10, <2>1, <2>3, <2>5 DEF GuestTakes, Takes
    <3>2. Len(ginput') = Len(ginput) + 1 /\ ginput' = Upto(Len(ginput'))
      BY <1>1, <1>2, <3>1, Counting, Appended
    <3>3. gend = "ended" => AllRead' /\ May("readfail")'
      BY <1>1, <1>2, <1>3, <1>4, <2>3, <2>5 DEF May
    <3>4. QED BY <1>2, <2>1, <2>3, <2>4, <2>5, <3>1, <3>2, <3>3 DEF InputUnderWay
  <2>6. CASE toGuest[1].kind = "eof"
    <3>1. gend' = "ended" /\ ginput' = ginput
      BY <1>1, <1>10, <2>1, <2>6 DEF GuestTakes, Takes
    <3>2. AllRead' /\ read = Len(ginput)
      BY <1>1, <1>3, <2>1, <2>2, <2>3, <2>6
    <3>3. QED BY <1>2, <2>1, <2>3, <2>4, <2>6, <3>1, <3>2 DEF InputUnderWay
  <2>7. CASE toGuest[1].kind \notin {"input", "eof"}
    <3>1. UNCHANGED <<ginput, gend>>
      BY <1>1, <1>10, <2>1, <2>7 DEF GuestTakes, Takes
    <3>2. QED BY <1>2, <1>3, <1>4, <2>1, <2>3, <2>4, <2>7, <3>1 DEF InputUnderWay, May
  <2>8. QED BY <2>5, <2>6, <2>7
<1>11. CASE Dial
  <2>1. UNCHANGED <<ginput, gend, read, stdin, toGuest>>
    BY <1>11 DEF Dial, pumps, gproc
  <2>2. toGuest = <<>> /\ read = 0
    BY <1>11 DEF Dial, ExecIInv, Begun
  <2>3. InOrder(toGuest', Len(ginput), read)
    BY <1>1, <1>2, <2>1, <2>2 DEF InOrder
  <2>4. \A i \in DOMAIN toGuest' : toGuest'[i].kind = "eof" => AllRead'
    BY <1>1, <2>1, <2>2
  <2>5. QED BY <1>2, <1>3, <1>4, <2>1, <2>3, <2>4 DEF InputUnderWay, May
<1>12. CASE ProxyCloses
  <2>1. UNCHANGED <<ginput, gend, read, stdin>> /\ proxy' = "closed"
    BY <1>12 DEF ProxyCloses, pumps, gproc
  <2>2. QED BY <1>2, <1>3, <1>4, <2>1 DEF InputUnderWay, May
<1>13. CASE UNCHANGED <<ginput, gend, read, stdin, proxy, toGuest>>
  BY <1>2, <1>3, <1>4, <1>13 DEF InputUnderWay, May
<1>14. QED
  BY <1>5, <1>7, <1>8, <1>9, <1>10, <1>11, <1>12, <1>13, Frame

-----------------------------------------------------------------------------
(* The command's output *)

LEMMA OutputStep ==
    ASSUME ExecIInv, Next
    PROVE  OutputUnderWay'
<1>1. /\ toClient \in Seq(Told) /\ inbox \in Seq(Told) /\ written \in Seq(Nat) /\ gout \in Nat
      /\ Len(written) \in Nat /\ Len(inbox) \in Nat /\ Len(toClient) \in Nat
      /\ DOMAIN inbox = 1..Len(inbox) /\ DOMAIN toClient = 1..Len(toClient)
      /\ toClient # <<>> => Head(toClient) = toClient[1] /\ toClient[1] \in Told
      /\ inbox # <<>> => Head(inbox) = inbox[1] /\ inbox[1] \in Told
  BY Values, Elements, Taken DEF ExecIInv
<1>2. /\ written = Upto(Len(written)) /\ Len(written) <= gout
      /\ (NoExit(toClient) /\ NoExit(inbox)) \/ gst \in {"exited", "gone"}
      /\ recv = "on" =>
            /\ InTurn(inbox, Len(written), gout)
            /\ proxy = "up" =>
                  /\ InTurn(toClient, Len(written) + Len(inbox), gout)
                  /\ gst = "runs" => Len(written) + Len(inbox) + Len(toClient) = gout
  BY DEF ExecIInv, OutputUnderWay
<1>3. CASE Recv
  <2>1. inbox # <<>> /\ inbox' = Tail(inbox) /\ recv = "on" /\ UNCHANGED <<toClient, proxy, gst, gout>>
    BY <1>3 DEF Recv, gproc
  <2>2. /\ InTurn(inbox', Len(written) + 1, gout) /\ Len(inbox') = Len(inbox) - 1
        /\ inbox[1].kind = "output" => inbox[1].n = Len(written) + 1 /\ Len(written) + 1 <= gout
    BY <1>1, <1>2, <2>1, TurnTaken, Taken
  <2>3. (NoExit(toClient') /\ NoExit(inbox')) \/ gst' \in {"exited", "gone"}
    BY <1>1, <1>2, <2>1, ExitsOf
  <2>4. CASE inbox[1].kind = "output"
    <3>1. written' = Append(written, Len(written) + 1)
      BY <1>1, <1>3, <2>1, <2>2, <2>4 DEF Recv, Event
    <3>2. Len(written') = Len(written) + 1 /\ written' = Upto(Len(written'))
      BY <1>1, <1>2, <3>1, Counting, Appended
    <3>3. Len(written') + Len(inbox') = Len(written) + Len(inbox)
      BY <1>1, <2>2, <3>2
    <3>4. QED BY <1>2, <2>1, <2>2, <2>3, <2>4, <3>2, <3>3 DEF OutputUnderWay
  <2>5. CASE inbox[1].kind # "output"
    <3>1. recv' = "ended" /\ written' = written
      BY <1>1, <1>3, <2>1, <2>5 DEF Recv, Event, RecvError
    <3>2. QED BY <1>2, <2>1, <2>3, <3>1 DEF OutputUnderWay
  <2>6. QED BY <2>4, <2>5
<1>4. CASE RecvFails
  <2>1. recv' = "ended" /\ UNCHANGED <<toClient, inbox, gst, gout, written>>
    BY <1>4 DEF RecvFails, RecvError, pipes, gproc
  <2>2. QED BY <1>2, <2>1 DEF OutputUnderWay
<1>5. CASE ProxyDown
  <2>1. /\ toClient # <<>> /\ inbox' = Append(inbox, toClient[1]) /\ toClient' = Tail(toClient) /\ proxy = "up"
        /\ UNCHANGED <<proxy, gst, gout, written, recv>>
    BY <1>1, <1>5 DEF ProxyDown, gproc, pumps
  <2>2. Len(inbox') = Len(inbox) + 1 /\ Len(toClient') = Len(toClient) - 1
    BY <1>1, <2>1, Appended, Taken
  <2>3. (NoExit(toClient') /\ NoExit(inbox')) \/ gst' \in {"exited", "gone"}
    BY <1>1, <1>2, <2>1, ExitsOf
  <2>4. ASSUME recv = "on"
        PROVE  /\ InTurn(inbox', Len(written), gout)
               /\ InTurn(toClient', Len(written) + Len(inbox'), gout)
               /\ gst = "runs" => Len(written) + Len(inbox') + Len(toClient') = gout
    <3>1. Len(written) + Len(inbox) \in Nat /\ Len(written) + Len(inbox') = Len(written) + Len(inbox) + 1
      BY <1>1, <2>2
    <3>2. /\ InTurn(toClient', Len(written) + Len(inbox) + 1, gout)
          /\ toClient[1].kind = "output" => /\ toClient[1].n = Len(written) + Len(inbox) + 1
                                             /\ Len(written) + Len(inbox) + 1 <= gout
          /\ toClient[1].kind = "exit" => Len(written) + Len(inbox) = gout
      BY <1>1, <1>2, <2>1, <2>4, <3>1, TurnTaken
    <3>3. InTurn(inbox', Len(written), gout)
      BY <1>1, <1>2, <2>1, <2>4, <3>2, TurnSaid
    <3>4. gst = "runs" => Len(written) + Len(inbox') + Len(toClient') = gout
      <4>1. gst = "runs" => Len(written) + Len(inbox) + Len(toClient) = gout
        BY <1>2, <2>1, <2>4
      <4>2. /\ Len(written) \in Nat /\ Len(inbox) \in Nat /\ Len(toClient) \in Nat
            /\ Len(inbox') = Len(inbox) + 1 /\ Len(toClient') = Len(toClient) - 1
        BY <1>1, <2>2
      <4>3. QED BY <4>1, <4>2
    <3>5. QED BY <3>1, <3>2, <3>3, <3>4
  <2>5. QED BY <1>2, <2>1, <2>3, <2>4 DEF OutputUnderWay
<1>6. CASE ProxyCloses
  <2>1. proxy' = "closed" /\ toClient' = <<>> /\ UNCHANGED <<inbox, gst, gout, written, recv>>
    BY <1>6 DEF ProxyCloses, gproc, pumps
  <2>2. NoExit(<<>>)
    BY DEF NoExit
  <2>3. QED BY <1>2, <2>1, <2>2 DEF OutputUnderWay
<1>7. CASE GuestWrites
  <2>1. /\ gst = "runs" /\ gout' = gout + 1 /\ toClient' = Append(toClient, Msg("output", gout + 1))
        /\ UNCHANGED <<proxy, inbox, gst, written, recv>>
    BY <1>7 DEF GuestWrites, pumps
  <2>2. Msg("output", gout + 1) \in Told /\ Msg("output", gout + 1).kind = "output"
        /\ Msg("output", gout + 1).n = gout + 1
    BY <1>1, Messages
  <2>3. NoExit(toClient) /\ NoExit(inbox) /\ NoExit(toClient') /\ Len(toClient') = Len(toClient) + 1
    BY <1>1, <1>2, <2>1, <2>2, ExitsOf, Appended
  <2>4. ASSUME recv = "on" PROVE InTurn(inbox, Len(written), gout')
    BY <1>1, <1>2, <2>1, <2>3, <2>4, TurnGoesOn
  <2>5. ASSUME recv = "on", proxy = "up"
        PROVE  /\ InTurn(toClient', Len(written) + Len(inbox), gout')
               /\ Len(written) + Len(inbox) + Len(toClient') = gout'
    <3>1. /\ Len(written) + Len(inbox) \in Nat /\ gout + 1 \in Nat
          /\ Len(written) + Len(inbox) + Len(toClient) = gout
      BY <1>1, <1>2, <2>1, <2>5
    <3>2. InTurn(toClient, Len(written) + Len(inbox), gout + 1)
      BY <1>1, <1>2, <2>3, <2>5, <3>1, TurnGoesOn
    <3>3. InTurn(toClient', Len(written) + Len(inbox), gout + 1)
      <4>1. gout + 1 = Len(written) + Len(inbox) + Len(toClient) + 1 /\ gout + 1 <= gout + 1
        <5>1. gout \in Nat
          BY <1>1
        <5>2. QED BY <3>1, <5>1
      <4>2. QED BY <1>1, <2>1, <2>2, <3>1, <3>2, <4>1, TurnSaid
    <3>4. QED BY <1>1, <2>1, <2>3, <3>1, <3>3
  <2>6. QED BY <1>1, <1>2, <2>1, <2>3, <2>4, <2>5 DEF OutputUnderWay
<1>8. CASE GuestExits
  <2>1. /\ gst = "runs" /\ gst' = "exited" /\ toClient' = Append(Append(toClient, Msg("exit", 0)), Msg("end", 0))
        /\ UNCHANGED <<proxy, inbox, gout, written, recv>>
    BY <1>8 DEF GuestExits, pumps
  <2>2. ASSUME recv = "on", proxy = "up"
        PROVE  InTurn(toClient', Len(written) + Len(inbox), gout)
    <3>1. Len(written) + Len(inbox) \in Nat /\ Len(written) + Len(inbox) + Len(toClient) = gout
      BY <1>1, <1>2, <2>1, <2>2
    <3>2. /\ Msg("exit", 0) \in Told /\ Msg("exit", 0).kind = "exit"
          /\ Msg("end", 0) \in Told /\ Msg("end", 0).kind = "end"
      BY Messages
    <3>3. /\ Append(toClient, Msg("exit", 0)) \in Seq(Told)
          /\ InTurn(Append(toClient, Msg("exit", 0)), Len(written) + Len(inbox), gout)
      BY <1>1, <1>2, <2>2, <3>1, <3>2, TurnSaid, Appended
    <3>4. QED BY <1>1, <2>1, <3>1, <3>2, <3>3, TurnSaid
  <2>3. QED BY <1>2, <2>1, <2>2 DEF OutputUnderWay
<1>9. CASE GuestTakes
  <2>1. /\ toGuest # <<>> /\ UNCHANGED <<toClient, inbox, proxy, gout, written, recv>> /\ gst # "gone"
        /\ gst' = gst \/ (Head(toGuest).kind = "command" /\ gst' = "runs")
    BY <1>9 DEF GuestTakes, Takes, pumps
  <2>2. CASE gst' = gst
    BY <1>2, <2>1, <2>2 DEF OutputUnderWay
  <2>3. CASE gst' # gst
    <3>1. toGuest[1].kind = "command" /\ 1 \in DOMAIN toGuest
      BY <2>1, <2>3, Values, Taken, Elements DEF ExecIInv
    <3>2. gst = "none"
      BY <2>1, <3>1 DEF ExecIInv, CommandFirst
    <3>3. gout = 0 /\ toClient = <<>> /\ inbox = <<>> /\ written = <<>>
      BY <3>2 DEF ExecIInv, Begun
    <3>4. Len(written) + Len(inbox) + Len(toClient) = gout /\ NoExit(toClient) /\ NoExit(inbox)
      BY <3>3 DEF NoExit
    <3>5. QED BY <1>2, <2>1, <3>4 DEF OutputUnderWay
  <2>4. QED BY <2>2, <2>3
<1>10. CASE GuestGoes
  <2>1. gst' = "gone" /\ UNCHANGED <<toClient, inbox, proxy, gout, written, recv>>
    BY <1>10 DEF GuestGoes, pumps, pipes
  <2>2. QED BY <1>2, <2>1 DEF OutputUnderWay
<1>11. CASE Dial
  <2>1. UNCHANGED <<toClient, inbox, gst, gout, written, recv>>
    BY <1>11 DEF Dial, pumps, gproc
  <2>2. gst = "none" /\ toClient = <<>>
    BY <1>11 DEF Dial, ExecIInv, Begun
  <2>3. \A k : InTurn(<<>>, k, gout)
    BY DEF InTurn
  <2>4. QED BY <1>2, <2>1, <2>2, <2>3 DEF OutputUnderWay
<1>12. CASE UNCHANGED <<toClient, inbox, proxy, gst, gout, written, recv>>
  BY <1>2, <1>12 DEF OutputUnderWay
<1>13. QED
  BY <1>3, <1>4, <1>5, <1>6, <1>7, <1>8, <1>9, <1>10, <1>11, <1>12, Frame

LEMMA CodedStep ==
    ASSUME ExecIInv, Next
    PROVE  Coded'
<1> DEFINE Known == result = Code \/ \E i \in DOMAIN done : done[i] = Code
<1>1. /\ done \in Seq({Code, Err}) /\ inbox \in Seq(Told) /\ Len(written) \in Nat /\ gout \in Nat
      /\ done # <<>> => Head(done) = done[1] /\ 1 \in DOMAIN done
      /\ inbox # <<>> => Head(inbox) = inbox[1] /\ 1 \in DOMAIN inbox
  BY Values, Elements, Taken DEF ExecIInv
<1>2. Known => recv = "ended" /\ gst \in {"exited", "gone"} /\ Len(written) = gout
  BY DEF ExecIInv, Coded
<1>3. gst \in {"exited", "gone"} => gst' \in {"exited", "gone"}
  <2>1. CASE GuestTakes
    <3>1. gst' = gst \/ (toGuest[1].kind = "command" /\ 1 \in DOMAIN toGuest)
      BY <2>1, Values, Taken, Elements DEF ExecIInv, GuestTakes, Takes
    <3>2. gst # "gone"
      BY <2>1 DEF GuestTakes
    <3>3. QED BY <3>1, <3>2 DEF ExecIInv, CommandFirst
  <2>2. QED BY <2>1, Frame DEF GuestExits, GuestGoes
<1>4. ASSUME recv = "ended", gst \in {"exited", "gone"}, Len(written) = gout
      PROVE  recv' = "ended" /\ gst' \in {"exited", "gone"} /\ Len(written') = gout'
  <2>1. ~Recv /\ ~GuestWrites /\ ~RecvFails
    BY <1>4 DEF Recv, GuestWrites, RecvFails
  <2>2. QED BY <1>3, <1>4, <2>1, Frame
<1>5. CASE Recv /\ inbox[1].kind = "exit"
  <2>1. inbox # <<>> /\ recv = "on" /\ recv' = "ended" /\ UNCHANGED <<gout, gst, written>>
    BY <1>1, <1>5 DEF Recv, Event, RecvError, gproc
  <2>2. Len(written) = gout
    BY <1>1, <1>5, <2>1, TurnTaken DEF ExecIInv, OutputUnderWay
  <2>3. gst \in {"exited", "gone"}
    BY <1>1, <1>5, <2>1 DEF ExecIInv, OutputUnderWay, NoExit
  <2>4. QED BY <2>1, <2>2, <2>3 DEF Coded
<1>6. CASE ~(Recv /\ inbox[1].kind = "exit")
  <2>1. done' = done \/ done' = Append(done, Err)
    BY <1>1, <1>6, Frame DEF Stdin, StdinEOF, Resize, Recv, Event, RecvError, Finish, RecvFails
  <2>2. (\E i \in DOMAIN done' : done'[i] = Code) => \E i \in DOMAIN done : done[i] = Code
    BY <1>1, <2>1, Elements, Appended, Results
  <2>3. result' = Code => result = Code \/ \E i \in DOMAIN done : done[i] = Code
    BY <1>1, Frame, Results DEF Dial, SendCommand, Return
  <2>4. QED BY <1>2, <1>4, <2>2, <2>3 DEF Coded
<1>7. QED BY <1>5, <1>6

-----------------------------------------------------------------------------
(* ExecIInv is inductive, and implies what is claimed. *)

LEMMA InitInv == ASSUME Init PROVE ExecIInv
<1>1. TypeOK
  BY ExecAssumption DEF Init, TypeOK, Queues, Sizes
<1>2. Places /\ Begun /\ CommandFirst /\ Coded /\ NotYetRun
  BY ExecAssumption, Results DEF Init, Places, Uses, Begun, CommandFirst, Coded, NotYetRun
<1>3. InputUnderWay
  BY DEF Init, InputUnderWay, Upto
<1>4. OutputUnderWay
  BY DEF Init, OutputUnderWay, Upto, NoExit, InTurn
<1>5. QED BY <1>1, <1>2, <1>3, <1>4 DEF ExecIInv

LEMMA StepInv == ASSUME ExecIInv, [Next]_xvars PROVE ExecIInv'
<1>1. CASE Next
  <2>1. Places' /\ Begun' /\ CommandFirst' /\ NotYetRun'
    BY <1>1, PlacesStep, BegunStep, CommandFirstStep, NotYetRunStep DEF ExecIInv
  <2>2. TypeOK'
    BY <1>1, <2>1, TypeStep
  <2>3. InputUnderWay' /\ OutputUnderWay' /\ Coded'
    BY <1>1, InputStep, OutputStep, CodedStep
  <2>4. QED BY <2>1, <2>2, <2>3 DEF ExecIInv
<1>2. CASE UNCHANGED xvars
  <2>1. UNCHANGED <<client, pumps, term, pipes, gproc, written, sshvars, execmix>>
    BY <1>2 DEF xvars
  <2> USE <2>1 DEF client, pumps, term, pipes, gproc, sshvars
  <2>2. TypeOK'
    BY DEF ExecIInv, TypeOK, Queues
  <2>3. Places' /\ Begun' /\ CommandFirst' /\ NotYetRun' /\ Coded'
    BY DEF ExecIInv, Places, Begun, CommandFirst, NotYetRun, Coded
  <2>4. InputUnderWay' /\ OutputUnderWay'
    BY DEF ExecIInv, InputUnderWay, OutputUnderWay, AllRead, May
  <2>5. QED BY <2>2, <2>3, <2>4 DEF ExecIInv
<1>3. QED BY <1>1, <1>2

LEMMA InvSafe == ASSUME ExecIInv PROVE ExecSafe
<1>1. OutputBeforeCode
  BY DEF ExecIInv, OutputUnderWay, Coded, OutputBeforeCode
<1>2. InputWhole
  BY DEF ExecIInv, InputUnderWay, AllRead, InputWhole
<1>3. CommandRunsOnce /\ TypeOK
  BY DEF ExecIInv, NotYetRun, CommandRunsOnce
<1>4. QED BY <1>1, <1>2, <1>3 DEF ExecSafe

(* What weave exec returns is the truth: a code only after all of the       *)
(* output was written in order (exec.go:134-154), the caller's input goes   *)
(* in whole and in order (exec.go:79-104), and a command over ssh runs once *)
(* (commands_ssh.go:65-74), however much is typed and said and whatever     *)
(* breaks.                                                                  *)
THEOREM ExecKept == Spec => []ExecSafe
<1>1. Init => ExecIInv
  BY InitInv
<1>2. ExecIInv /\ [Next]_xvars => ExecIInv'
  BY StepInv
<1>3. ExecIInv => ExecSafe
  BY InvSafe
<1>4. QED BY <1>1, <1>2, <1>3, PTL DEF Spec
=============================================================================
