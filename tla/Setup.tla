--------------------------------- MODULE Setup ---------------------------------
(***************************************************************************)
(* weave setup: a machine is started by a process of its own, which prints *)
(* where its screen is served; then a preset of boot commands, or a model  *)
(* that is shown the screen, takes the machine through Setup Assistant; a  *)
(* probe and commands over ssh may follow. The machine is left running.    *)
(***************************************************************************)
EXTENDS Naturals, Sequences

CONSTANTS
    Boots,       \* boot commands of the preset
    Probes,      \* attempts of the health check
    Posts,       \* commands over ssh
    Turns,       \* iterations of the agent
    Kept         \* messages kept besides the first: 20 in the code

VARIABLES
    mode,       \* of this setup: preset or agent
    step,       \* how far it is
    holder,     \* whose process runs the machine: the setup's child, another one, nobody
    child,      \* that child: none, starting, serving its screen, or ended
    linked,     \* whose screen the setup is connected to
    booted,     \* boot commands executed
    probed,     \* attempts of the health check; passed
    posted,     \* commands that have exited with 0
    messages,   \* the agent's conversation: who, and in which turn
    turn,       \* the iteration
    viewer      \* the viewer serves

setupvars == <<mode, step, holder, child, linked, booted, probed, posted, messages, turn, viewer>>

User(t) == [by |-> "user", turn |-> t]
Assistant(t) == [by |-> "assistant", turn |-> t]

(* However it ends, the connection and the viewer are closed, and the       *)
(* machine is not.                                                          *)
Ends(s) ==
    /\ step' = s
    /\ linked' = "none" /\ viewer' = FALSE

-----------------------------------------------------------------------------
(* The processes that run the machine: one at a time, by its lock *)

OtherRuns ==
    /\ holder = "nobody"
    /\ holder' = "other"
    /\ UNCHANGED <<mode, step, child, linked, booted, probed, posted, messages, turn, viewer>>

OtherEnds ==
    /\ holder = "other"
    /\ holder' = "nobody"
    /\ UNCHANGED <<mode, step, child, linked, booted, probed, posted, messages, turn, viewer>>

(* The URL is printed by a run that has the lock. *)
ChildServes ==
    /\ child = "starting" /\ holder = "nobody"
    /\ holder' = "child" /\ child' = "serving"
    /\ UNCHANGED <<mode, step, linked, booted, probed, posted, messages, turn, viewer>>

(* The machine is run by another process, does not start, or shuts down.    *)
ChildEnds ==
    /\ child \in {"starting", "serving"}
    /\ child' = "ended"
    /\ holder' = IF holder = "child" THEN "nobody" ELSE holder
    /\ UNCHANGED <<mode, step, linked, booted, probed, posted, messages, turn, viewer>>

-----------------------------------------------------------------------------
(* RunUnattendedSetup, runAgentMode *)

Begin ==
    /\ step = "idle" /\ holder = "nobody"
    /\ mode' \in {"preset", "agent"}
    /\ step' = "start"
    /\ booted' = 0 /\ probed' = [tries |-> 0, passed |-> FALSE] /\ posted' = 0
    /\ messages' = <<>> /\ turn' = 0
    /\ UNCHANGED <<holder, child, linked, viewer>>

(* The child of an earlier setup may still run; this one is another.        *)
StartVM ==
    /\ step = "start"
    /\ child' = "starting" /\ step' = "url"
    /\ holder' = IF holder = "child" THEN "other" ELSE holder
    /\ UNCHANGED <<mode, linked, booted, probed, posted, messages, turn, viewer>>

(* The line comes through the child's own output. *)
URLPrinted ==
    /\ step = "url" /\ child = "serving"
    /\ viewer' \in BOOLEAN
    /\ step' = "boot"
    /\ UNCHANGED <<mode, holder, child, linked, booted, probed, posted, messages, turn>>

(* Another run that serves there has another password. *)
Dial ==
    /\ step = "boot" /\ holder = "child"
    /\ linked' = holder
    /\ step' = IF mode = "preset" THEN "commands" ELSE "look"
    /\ UNCHANGED <<mode, holder, child, booted, probed, posted, messages, turn, viewer>>

(* Sixty seconds without a URL, no connection, a command, a probe or a      *)
(* message that fails, SIGINT: the child goes on.                           *)
Fails ==
    /\ step \notin {"idle", "done"}
    /\ Ends("idle")
    /\ UNCHANGED <<mode, holder, child, booted, probed, posted, messages, turn>>

Command ==
    /\ step = "commands" /\ booted < Boots
    /\ booted' = booted + 1
    /\ UNCHANGED <<mode, step, holder, child, linked, probed, posted, messages, turn, viewer>>

(* What follows is asked for, or not. *)
Completed ==
    /\ step = "commands" /\ booted = Boots
    /\ IF Probes = 0 /\ Posts = 0 THEN Ends("done")
       ELSE step' = (IF Probes # 0 THEN "health" ELSE "ssh") /\ UNCHANGED <<linked, viewer>>
    /\ UNCHANGED <<mode, holder, child, booted, probed, posted, messages, turn>>

ProbeFails ==
    /\ step = "health" /\ probed.tries < Probes
    /\ probed' = [probed EXCEPT !.tries = probed.tries + 1]
    /\ UNCHANGED <<mode, step, holder, child, linked, booted, posted, messages, turn, viewer>>

ProbePasses ==
    /\ step = "health" /\ probed.tries < Probes /\ holder # "nobody"
    /\ probed' = [tries |-> probed.tries + 1, passed |-> TRUE]
    /\ step' = "ssh"
    /\ UNCHANGED <<mode, holder, child, linked, booted, posted, messages, turn, viewer>>

PostCommand ==
    /\ step = "ssh" /\ posted < Posts /\ holder # "nobody"
    /\ posted' = posted + 1
    /\ UNCHANGED <<mode, step, holder, child, linked, booted, probed, messages, turn, viewer>>

Finishes ==
    /\ step = "ssh" /\ posted = Posts
    /\ Ends("done")
    /\ UNCHANGED <<mode, holder, child, booted, probed, posted, messages, turn>>

-----------------------------------------------------------------------------
(* AgentSetupRunner.Run *)

FirstLook ==
    /\ step = "look"
    /\ messages' = <<User(0)>>
    /\ step' = "ask"
    /\ UNCHANGED <<mode, holder, child, linked, booted, probed, posted, turn, viewer>>

(* SendMessage: the answer is remembered before its actions are taken.      *)
Answers ==
    /\ step = "ask" /\ turn < Turns
    /\ turn' = turn + 1
    /\ messages' = Append(messages, Assistant(turn + 1))
    /\ step' = "act"
    /\ UNCHANGED <<mode, holder, child, linked, booted, probed, posted, viewer>>

AgentFinishes ==
    /\ step = "act"
    /\ Ends("done")
    /\ UNCHANGED <<mode, holder, child, booted, probed, posted, messages, turn>>

Remembers(m) ==
    IF Len(m) > Kept + 1 THEN <<m[1]>> \o SubSeq(m, Len(m) - Kept + 1, Len(m)) ELSE m

(* An action that fails is a result too. *)
Acts ==
    /\ step = "act"
    /\ messages' = Remembers(Append(messages, User(turn)))
    /\ step' = "ask"
    /\ UNCHANGED <<mode, holder, child, linked, booted, probed, posted, turn, viewer>>

Again ==
    /\ step = "done"
    /\ step' = "idle"
    /\ UNCHANGED <<mode, holder, child, linked, booted, probed, posted, messages, turn, viewer>>

-----------------------------------------------------------------------------
Init ==
    /\ mode = "preset" /\ step = "idle"
    /\ holder = "nobody" /\ child = "none" /\ linked = "none"
    /\ booted = 0 /\ probed = [tries |-> 0, passed |-> FALSE] /\ posted = 0
    /\ messages = <<>> /\ turn = 0
    /\ viewer = FALSE

Next ==
    \/ OtherRuns \/ OtherEnds \/ ChildServes \/ ChildEnds
    \/ Begin \/ StartVM \/ URLPrinted \/ Dial \/ Fails
    \/ Command \/ Completed \/ ProbeFails \/ ProbePasses \/ PostCommand \/ Finishes
    \/ FirstLook \/ Answers \/ AgentFinishes \/ Acts \/ Again

-----------------------------------------------------------------------------
TypeOK ==
    /\ mode \in {"preset", "agent"}
    /\ step \in {"idle", "start", "url", "boot", "commands", "health", "ssh", "look", "ask", "act", "done"}
    /\ holder \in {"nobody", "child", "other"}
    /\ child \in {"none", "starting", "serving", "ended"}
    /\ linked \in {"none", "child", "other"}
    /\ booted \in Nat /\ posted \in Nat /\ turn \in Nat
    /\ probed \in [tries : Nat, passed : BOOLEAN]
    /\ messages \in Seq([by : {"user", "assistant"}, turn : Nat])
    /\ viewer \in BOOLEAN

(* The setup drives the machine its own child runs, although whether another *)
(* process runs it was looked at before the child began (StartVMWithVNC).    *)
OwnMachine ==
    /\ linked \in {"none", "child"}
    /\ linked = "child" => child \in {"serving", "ended"}
    /\ child = "serving" <=> holder = "child"

(* A setup that says it has finished has executed all there was, in order,   *)
(* and its probe has passed (RunUnattendedSetup).                            *)
Finished ==
    /\ step \in {"health", "ssh"} => mode = "preset" /\ booted = Boots
    /\ step = "ssh" /\ Probes # 0 => probed.passed
    /\ step = "done" /\ mode = "preset" =>
          booted = Boots /\ posted = Posts /\ (Probes # 0 => probed.passed)

(* What is sent to the model begins with the first message, alternates, and  *)
(* has each result after the use it answers, however much is forgotten (Run: *)
(* the first message and the last 20).                                       *)
History ==
    step = "ask" =>
        /\ Len(messages) <= Kept + 1 /\ messages[1] = User(0)
        /\ \A i \in 2..Len(messages) :
              \/ messages[i].by = "assistant" /\ messages[i - 1].by = "user"
              \/ /\ messages[i].by = "user" /\ messages[i - 1].by = "assistant"
                 /\ messages[i].turn = messages[i - 1].turn
        /\ messages[Len(messages)].by = "user"

SetupSafe ==
    /\ TypeOK
    /\ OwnMachine
    /\ Finished
    /\ History
=============================================================================
