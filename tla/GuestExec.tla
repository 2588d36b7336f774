----------------------------- MODULE GuestExec -----------------------------
(***************************************************************************)
(* A command in the guest, two ways.                                       *)
(*                                                                         *)
(* `weave exec`: a gRPC stream over the VM's control socket, which the run *)
(* process proxies to the agent's vsock port.  Three goroutines pump the   *)
(* caller's input, the terminal's sizes and the guest's events; the first  *)
(* result in `done` is the command's.                                      *)
(*                                                                         *)
(* `weave ssh` with a command: the client in the process and, when that    *)
(* cannot connect, the system's ssh.                                       *)
(***************************************************************************)
EXTENDS Integers, Sequences

CONSTANTS
    Chunks,      \* of the caller's input
    Outputs,     \* the guest's command may write
    MaxWinch,    \* resizes of the caller's terminal
    Window,      \* messages under way in one direction
    ExecMixes    \* what may happen in one history

ASSUME ExecAssumption ==
    Chunks \in Nat /\ Outputs \in Nat /\ MaxWinch \in Nat /\ Window \in Nat \ {0}

VARIABLES
    pc, result,             \* the client: where it is, and the result
    stdin, read,            \* the pump of the input: "reading", "eof", "ended", and chunks read
    resize, recv, done,     \* the other pumps: "on", "ended", and the channel of results
    size, changes, winch,   \* the caller's terminal, its changes, SIGWINCH
    held, chan,             \* a size that was read, and the resize channel
    toGuest, toClient,      \* the proxy's two directions
    inbox,                  \* received by the client's transport, not yet by Recv
    proxy,                  \* the control socket's connection
    gst, gsize,             \* the command in the guest, its terminal's size,
    ginput, gend, gout,     \* the input it has, whether that has ended, and its outputs
    written,                \* what Stdout was given
    ssh,                    \* the ssh command
    ran,                    \* how often ssh has run its command in the guest
    execmix

client == <<pc, result>>
pumps == <<stdin, read, resize, recv, done>>
term == <<size, changes, winch, held, chan>>
pipes == <<toGuest, toClient, inbox, proxy>>
gproc == <<gst, gsize, ginput, gend, gout>>
sshvars == <<ssh, ran>>
xvars == <<client, pumps, term, pipes, gproc, written, sshvars, execmix>>

May(f) == f \in execmix
Code == "code"
Err == "error"
Upto(n) == [i \in 1..n |-> i]
TTY == May("tty")
Interactive == May("input")
Msg(kind, n) == [kind |-> kind, n |-> n]
StreamEnded == \E i \in DOMAIN inbox : inbox[i].kind = "end"
Broken == proxy = "closed"
Running == pc = "pumping"

-----------------------------------------------------------------------------
(* RunExecStream. *)

(* The agent is reached, or the RPC fails: no VM, or no agent in it. *)
Dial ==
    /\ pc = "dial"
    /\ \/ proxy' = "up" /\ pc' = "command" /\ UNCHANGED result
       \/ pc' = "over" /\ result' = Err /\ UNCHANGED proxy
    /\ UNCHANGED <<pumps, term, toGuest, toClient, inbox, gproc, written, sshvars, execmix>>

SendCommand ==
    /\ pc = "command"
    /\ IF Broken THEN pc' = "over" /\ result' = Err /\ UNCHANGED toGuest
       ELSE pc' = "pumping" /\ toGuest' = Append(toGuest, Msg("command", size)) /\ UNCHANGED result
    /\ UNCHANGED <<pumps, term, toClient, inbox, proxy, gproc, written, sshvars, execmix>>

(* Send fails when the stream has ended, and waits for the window. *)
Finish(r) == done' = Append(done, r)
CanSend == Len(toGuest) < Window
SendFails == StreamEnded \/ Broken

(* Read may give the last bytes and the end at once. *)
Stdin ==
    /\ Running /\ Interactive /\ stdin = "reading" /\ read < Chunks
    /\ IF SendFails THEN stdin' = "ended" /\ Finish(Err) /\ UNCHANGED <<read, toGuest>>
       ELSE /\ CanSend /\ toGuest' = Append(toGuest, Msg("input", read + 1))
            /\ read' = read + 1 /\ UNCHANGED done
            /\ UNCHANGED stdin \/ (read + 1 = Chunks /\ stdin' = "eof")
    /\ UNCHANGED <<client, resize, recv, term, toClient, inbox, proxy, gproc, written, sshvars, execmix>>

(* The end of the input is sent on, whether or not that works, and so is an *)
(* error of Read, which ends the command.                                   *)
StdinEOF ==
    /\ Running /\ Interactive /\ (SendFails \/ CanSend)
    /\ toGuest' = IF SendFails THEN toGuest ELSE Append(toGuest, Msg("eof", 0))
    /\ stdin' = "ended"
    /\ \/ stdin = "eof" /\ UNCHANGED done
       \/ stdin = "reading" /\ read = Chunks /\ UNCHANGED done
       \/ May("readfail") /\ stdin = "reading" /\ Finish(Err)
    /\ UNCHANGED <<client, read, resize, recv, term, toClient, inbox, proxy, gproc, written, sshvars, execmix>>

(* The terminal's window is resized: the signal's channel holds one. *)
Winch ==
    /\ TTY /\ Running /\ changes < MaxWinch
    /\ changes' = changes + 1 /\ size' = size + 1 /\ winch' = 1
    /\ UNCHANGED <<client, pumps, held, chan, pipes, gproc, written, sshvars, execmix>>

(* ExecCommand.execute: the size is read and handed on, waiting for room. *)
TakeWinch ==
    /\ Running /\ winch = 1 /\ held = 0
    /\ winch' = 0 /\ held' = size
    /\ UNCHANGED <<client, pumps, size, changes, chan, pipes, gproc, written, sshvars, execmix>>

HandOver ==
    /\ Running /\ held # 0 /\ chan = <<>>
    /\ chan' = <<held>> /\ held' = 0
    /\ UNCHANGED <<client, pumps, size, changes, winch, pipes, gproc, written, sshvars, execmix>>

Resize ==
    /\ Running /\ chan # <<>> /\ resize = "on"
    /\ chan' = <<>>
    /\ IF SendFails THEN resize' = "ended" /\ Finish(Err) /\ UNCHANGED toGuest
       ELSE CanSend /\ toGuest' = Append(toGuest, Msg("resize", Head(chan))) /\ UNCHANGED <<resize, done>>
    /\ UNCHANGED <<client, stdin, read, recv, size, changes, winch, held, toClient, inbox, proxy, gproc, written, sshvars, execmix>>

RecvError == recv' = "ended" /\ Finish(Err)

(* What became of the event m. *)
Event(m) ==
    \/ m.kind = "output" /\ written' = Append(written, m.n) /\ UNCHANGED <<recv, done>>
    \/ m.kind = "exit" /\ recv' = "ended" /\ Finish(Code) /\ UNCHANGED written
    \/ m.kind = "end" /\ RecvError /\ UNCHANGED written

(* Faulty: output is written by whoever gets to it. *)
RecvLater ==
    /\ Running /\ recv = "on"
    /\ \E i \in DOMAIN inbox :
         /\ inbox' = SubSeq(inbox, 1, i - 1) \o SubSeq(inbox, i + 1, Len(inbox))
         /\ Event(inbox[i])
    /\ UNCHANGED <<client, stdin, read, resize, term, toGuest, toClient, proxy, gproc, sshvars, execmix>>

(* The events in their order; the exit's is the last that is looked at. *)
Recv ==
    /\ Running /\ recv = "on" /\ inbox # <<>>
    /\ inbox' = Tail(inbox)
    /\ Event(Head(inbox))
    /\ UNCHANGED <<client, stdin, read, resize, term, toGuest, toClient, proxy, gproc, sshvars, execmix>>

RecvFails ==
    /\ Running /\ recv = "on" /\ inbox = <<>> /\ Broken
    /\ RecvError
    /\ UNCHANGED <<client, stdin, read, resize, term, pipes, gproc, written, sshvars, execmix>>

(* `select`: the first result, or the context's end. *)
Return ==
    /\ Running
    /\ pc' = "over"
    /\ \/ done # <<>> /\ result' = Head(done)
       \/ May("cancel") /\ result' = "cancelled"
    /\ UNCHANGED <<pumps, term, pipes, gproc, written, sshvars, execmix>>

-----------------------------------------------------------------------------
(* ControlSocket.handleClient: the first direction to end closes both ends, *)
(* and what is under way in the other is lost.                              *)

ProxyDown ==
    /\ proxy = "up" /\ toClient # <<>>
    /\ inbox' = Append(inbox, Head(toClient)) /\ toClient' = Tail(toClient)
    /\ UNCHANGED <<client, pumps, term, toGuest, proxy, gproc, written, sshvars, execmix>>

ProxyCloses ==
    /\ proxy = "up"
    /\ \/ gst = "gone" /\ (toClient = <<>> \/ toGuest # <<>>)
       \/ pc = "over"
    /\ proxy' = "closed" /\ toClient' = <<>> /\ toGuest' = <<>>
    /\ UNCHANGED <<client, pumps, term, inbox, gproc, written, sshvars, execmix>>

(* The agent, and the command it runs. *)
Takes(m) ==
    \/ m.kind = "command" /\ gst' = "runs" /\ gsize' = m.n /\ UNCHANGED <<ginput, gend>>
    \/ m.kind = "resize" /\ gsize' = m.n /\ UNCHANGED <<gst, ginput, gend>>
    \/ m.kind = "input" /\ ginput' = Append(ginput, m.n) /\ UNCHANGED <<gst, gsize, gend>>
    \/ m.kind = "eof" /\ gend' = "ended" /\ UNCHANGED <<gst, gsize, ginput>>

GuestTakes ==
    /\ proxy = "up" /\ toGuest # <<>> /\ gst # "gone"
    /\ toGuest' = Tail(toGuest)
    /\ Takes(Head(toGuest))
    /\ UNCHANGED <<client, pumps, term, toClient, inbox, proxy, gout, written, sshvars, execmix>>

GuestWrites ==
    /\ gst = "runs" /\ gout < Outputs /\ Len(toClient) < Window
    /\ gout' = gout + 1
    /\ toClient' = Append(toClient, Msg("output", gout + 1))
    /\ UNCHANGED <<client, pumps, term, toGuest, inbox, proxy, gst, gsize, ginput, gend, written, sshvars, execmix>>

GuestExits ==
    /\ gst = "runs" /\ gst' = "exited"
    /\ toClient' = Append(Append(toClient, Msg("exit", 0)), Msg("end", 0))
    /\ UNCHANGED <<client, pumps, term, toGuest, inbox, proxy, gsize, ginput, gend, gout, written, sshvars, execmix>>

(* The VM stops, or is rebuilt by a revert. *)
GuestGoes ==
    /\ May("crash") /\ proxy = "up" /\ gst # "gone"
    /\ gst' = "gone"
    /\ UNCHANGED <<client, pumps, term, pipes, gsize, ginput, gend, gout, written, sshvars, execmix>>

-----------------------------------------------------------------------------
(* `weave ssh <vm> <command>`, and the HTTP API's exec. *)

(* The in-process client fails to connect, or to open a session. *)
SSHConnect ==
    /\ ssh = "start"
    /\ \E next \in {"connected", "ConnectionFailed", "AuthenticationFailed"} : ssh' = next
    /\ UNCHANGED <<client, pumps, term, pipes, gproc, written, ran, execmix>>

RunError == "CommandFailed"

(* session.Run: the guest has the command, and then the connection may be   *)
(* lost, or the time be up.                                                 *)
SSHRun ==
    /\ ssh = "connected" /\ ran' = ran + 1
    /\ \E next \in {"over", "Timeout", RunError} : ssh' = next
    /\ UNCHANGED <<client, pumps, term, pipes, gproc, written, execmix>>

(* Only a failure to connect is tried again, by /usr/bin/ssh, whose own     *)
(* failure to connect is exit code 255.                                     *)
SystemSSH ==
    /\ ssh = "ConnectionFailed" /\ ssh' = "over"
    /\ \/ ran' = ran + 1
       \/ UNCHANGED ran
    /\ UNCHANGED <<client, pumps, term, pipes, gproc, written, execmix>>

-----------------------------------------------------------------------------
Init ==
    /\ execmix \in ExecMixes
    /\ pc = (IF "ssh" \in execmix THEN "none" ELSE "dial") /\ result = "none"
    /\ stdin = "reading" /\ read = 0 /\ resize = "on" /\ recv = "on" /\ done = <<>>
    /\ size = 1 /\ changes = 0 /\ winch = 0 /\ held = 0 /\ chan = <<>>
    /\ toGuest = <<>> /\ toClient = <<>> /\ inbox = <<>> /\ proxy = "none" /\ written = <<>>
    /\ gst = "none" /\ gsize = 0 /\ ginput = <<>> /\ gend = "open" /\ gout = 0
    /\ ssh = (IF "ssh" \in execmix THEN "start" ELSE "none") /\ ran = 0

Pumps == Stdin \/ StdinEOF \/ TakeWinch \/ HandOver \/ Resize \/ Recv \/ RecvFails
Proxy == ProxyDown \/ ProxyCloses
Guest == GuestTakes \/ GuestWrites
SSH == SSHConnect \/ SSHRun \/ SystemSSH

Next == Dial \/ SendCommand \/ Pumps \/ Return \/ Winch \/ Proxy \/ Guest \/ GuestExits \/ GuestGoes \/ SSH

Fairness ==
    /\ WF_xvars(Dial \/ SendCommand) /\ WF_xvars(Stdin \/ StdinEOF)
    /\ WF_xvars(TakeWinch) /\ WF_xvars(HandOver) /\ SF_xvars(Resize) /\ WF_xvars(Recv \/ RecvFails)
    /\ WF_xvars(Running /\ done # <<>> /\ Return)
    /\ WF_xvars(ProxyDown) /\ WF_xvars(ProxyCloses) /\ WF_xvars(GuestTakes)

Spec == Init /\ [][Next]_xvars /\ Fairness

-----------------------------------------------------------------------------
(* The variables are of their types; `done` never holds more than its three *)
(* places, or a pump would wait for ever.                                   *)
Sizes == 1..MaxWinch + 1
Sent == [kind : {"command", "input", "eof", "resize"}, n : Nat]
Told == [kind : {"output", "exit", "end"}, n : Nat]

Queues ==
    /\ toGuest \in Seq(Sent) /\ toClient \in Seq(Told) /\ inbox \in Seq(Told)
    /\ done \in Seq({Code, Err}) /\ chan \in Seq(Sizes) /\ ginput \in Seq(Nat) /\ written \in Seq(Nat)

TypeOK ==
    /\ Queues
    /\ pc \in {"none", "dial", "command", "pumping", "over"}
    /\ result \in {"none", Code, Err, "cancelled"}
    /\ stdin \in {"reading", "eof", "ended"} /\ read \in 0..Chunks
    /\ resize \in {"on", "ended"} /\ recv \in {"on", "ended"}
    /\ size \in Sizes /\ changes \in 0..MaxWinch /\ winch \in 0..1 /\ held \in Sizes \cup {0}
    /\ gst \in {"none", "runs", "exited", "gone"} /\ gsize \in Nat /\ gend \in {"open", "ended"} /\ gout \in 0..Outputs
    /\ proxy \in {"none", "up", "closed"}
    /\ ssh \in {"none", "start", "connected", "over", "Timeout", "ConnectionFailed",
                "AuthenticationFailed", "CommandFailed"}
    /\ ran \in Nat
    /\ Len(done) <= 3 /\ Len(toGuest) <= Window /\ Len(toClient) <= Window + 2

(* When the command's exit code is returned, everything the command wrote   *)
(* has been written to Stdout before, once and in order (exec.go:134-154).  *)
OutputBeforeCode ==
    result = Code => gst \in {"exited", "gone"} /\ written = Upto(gout)

(* The guest's command reads what the caller typed, in order, and the end   *)
(* of its input only after all of it, but for a failed read (exec.go:79-104). *)
InputWhole ==
    /\ ginput = Upto(Len(ginput))
    /\ gend = "ended" => Len(ginput) = Chunks \/ May("readfail")

(* Whatever ends the stream, `weave exec` ends too: the guest's exit, the   *)
(* loss of the VM, a pump that fails.  A command that runs for ever may.    *)
ExecEnds == (pc # "none" /\ (gst \in {"exited", "gone"} \/ Broken)) ~> pc = "over"

(* The guest's terminal ends up with the size of the caller's, however fast *)
(* that changes, unless the command is over (commands_exec.go:116-139).     *)
SizeSettles ==
    <>[](TTY => gsize = size \/ pc = "over" \/ gst # "runs" \/ Len(inbox) > 0)

(* A command over ssh is run once at most: the fall-back to the system's    *)
(* ssh is for connections that failed, not for commands that did            *)
(* (commands_ssh.go:65-74, httpapi/guest.go:206-227).                       *)
CommandRunsOnce == ran <= 1

(* "The remote command's exit code becomes weave's exit code" (cli/exec.go: *)
(* 18): RunExecStream returns it when the guest has reported it.            *)
ExitCodeReturned ==
    (result = Err /\ ~Broken) => \A i \in DOMAIN inbox : inbox[i].kind # "exit"

(* Output precedes the code, input is whole, a command runs once. *)
ExecSafe == TypeOK /\ OutputBeforeCode /\ InputWhole /\ CommandRunsOnce

-----------------------------------------------------------------------------
(* The inductive invariant.                                                 *)

(* Each pump has one place in `done`, and uses it when it ends.             *)
Uses(b) == IF b THEN 1 ELSE 0
Places == Len(done) <= Uses(stdin = "ended") + Uses(resize = "ended") + Uses(recv = "ended")

(* The size is the number of changes; the pumps begin when the command has  *)
(* been sent, and only the window bounds what the guest writes.             *)
Begun ==
    /\ size = changes + 1
    /\ pc \in {"none", "dial"} => proxy = "none"
    /\ proxy = "none" => gst = "none"
    /\ pc \in {"none", "dial", "command"} =>
          /\ toGuest = <<>> /\ gst \in {"none", "gone"}
          /\ read = 0 /\ stdin = "reading" /\ result = "none"
    /\ gst = "none" => gout = 0 /\ toClient = <<>> /\ inbox = <<>> /\ written = <<>>
    /\ gst = "runs" => Len(toClient) <= Window

(* The command goes out once and first.                                     *)
CommandFirst == \A i \in DOMAIN toGuest : toGuest[i].kind = "command" => i = 1 /\ gst \in {"none", "gone"}

(* Of what was read up to b, the sequence s has all after a, in order, and  *)
(* none of it behind the end.                                               *)
InOrder(s, a, b) ==
    /\ \A k \in a + 1..b : \E i \in DOMAIN s : s[i] = Msg("input", k)
    /\ \A i \in DOMAIN s :
          s[i].kind = "input" =>
              /\ s[i].n \in a + 1..b
              /\ \A j \in 1..i - 1 : s[j].kind # "eof" /\ (s[j].kind = "input" => s[j].n < s[i].n)

AllRead == stdin = "ended" /\ (read = Chunks \/ May("readfail"))

(* What was read and the guest does not have yet is under way; the end of   *)
(* the input follows all of it.                                             *)
InputUnderWay ==
    /\ stdin = "eof" => read = Chunks
    /\ Len(ginput) <= read
    /\ ginput = Upto(Len(ginput))
    /\ gend = "ended" => AllRead /\ (read = Len(ginput) \/ May("readfail"))
    /\ proxy = "up" =>
          /\ InOrder(toGuest, Len(ginput), read)
          /\ \A i \in DOMAIN toGuest : toGuest[i].kind = "eof" => AllRead

(* The things s says are the k + 1st and following of a command with g      *)
(* outputs: each output in its turn, the exit behind them all.              *)
InTurn(s, k, g) ==
    \A i \in DOMAIN s :
        /\ s[i].kind = "output" => s[i].n = k + i /\ k + i <= g
        /\ s[i].kind = "exit" => k + i = g + 1

NoExit(s) == \A i \in DOMAIN s : s[i].kind # "exit"

(* As long as the client receives, it has or will have the guest's events   *)
(* in their turn.                                                           *)
OutputUnderWay ==
    /\ written = Upto(Len(written)) /\ Len(written) <= gout
    /\ (NoExit(toClient) /\ NoExit(inbox)) \/ gst \in {"exited", "gone"}
    /\ recv = "on" =>
          /\ InTurn(inbox, Len(written), gout)
          /\ proxy = "up" =>
                /\ InTurn(toClient, Len(written) + Len(inbox), gout)
                /\ gst = "runs" => Len(written) + Len(inbox) + Len(toClient) = gout

(* A code is known only when the exit was received.                         *)
Coded ==
    result = Code \/ (\E i \in DOMAIN done : done[i] = Code) =>
        recv = "ended" /\ gst \in {"exited", "gone"} /\ Len(written) = gout

(* ssh has run nothing before it has connected.                             *)
NotYetRun == ran <= 1 /\ (ssh \in {"none", "start", "connected", "ConnectionFailed"} => ran = 0)

ExecIInv ==
    /\ TypeOK
    /\ Places
    /\ Begun
    /\ CommandFirst
    /\ InputUnderWay
    /\ OutputUnderWay
    /\ Coded
    /\ NotYetRun
=============================================================================
