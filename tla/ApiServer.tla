------------------------------- MODULE ApiServer -------------------------------
(***************************************************************************)
(* The HTTP API of weave serve: its handlers run commands of weave,        *)
(* receive and send archives, start pulls and ask for them later, start    *)
(* machines in processes of their own and bridge a WebSocket to a shell of *)
(* a guest. A server may end at any time and another one take its place,   *)
(* whose clients remember what the first one told them.                    *)
(***************************************************************************)
EXTENDS Naturals, Sequences, FiniteSets

CONSTANTS
    Clients,      \* each has one request in flight at most
    Asks,         \* what the clients may have come for: the kinds of request of each
    Images,       \* what pulls are started for
    Machines,     \* what runs are started for
    LastServer,   \* bounds the servers that follow each other
    LastJob,      \* bounds the pulls one server starts
    LastOutput,   \* bounds what a shell writes
    LastChild     \* bounds the processes on the way to run a machine

VARIABLES
    asks,      \* what they have come for
    server,    \* its state, and which one in the sequence of servers it is
    at,        \* where the handler of each client's request is
    kind,      \* what the request is for
    arg,       \* the machine a run is asked for
    body,      \* what the temporary file of an upload holds
    ans,       \* the status the client has got
    temps,     \* temporary files and directories: whose, and of which server
    imports,   \* what the archives imported held
    jobs,      \* the pulls of the server, in the order of their ids
    ticket,    \* the id a client was given, by which server, for what
    reply,     \* what it was last told of an id, and by which server
    machine,   \* a machine runs
    child,     \* processes on the way to run it
    shell      \* the session of a client: what was written, what it got

apivars == <<asks, server, at, kind, arg, body, ans, temps, imports, jobs, ticket, reply, machine, child, shell>>

NoTicket == [run |-> 0, id |-> 0, image |-> "none"]
NoReply == [run |-> 0, id |-> 0, image |-> "none", st |-> "none"]
NoShell == [remote |-> "none", wrote |-> 0, got |-> 0, here |-> FALSE]

Temp(c) == [of |-> c, run |-> server.run]
Goto(c, s) == at' = [at EXCEPT ![c] = s]

(* What no handler of an archive, a pull, a machine or a shell touches.     *)
Files == <<body, temps, imports>>
Pulls == <<jobs, ticket, reply>>
Guests == <<machine, child, shell>>

(* The answer, and the end of the handler, or its deferred removal. *)
Answer(c, status) ==
    /\ ans' = [ans EXCEPT ![c] = status]
    /\ Goto(c, IF Temp(c) \in temps THEN "clean" ELSE "idle")

(* writeError: what was not found, what was asked wrongly, everything else. *)
ErrorStatus == {"404", "400", "500"}

-----------------------------------------------------------------------------
(* APIServer.Run *)

Serve ==
    /\ server.st = "down" /\ server.run < LastServer
    /\ server' = [st |-> "up", run |-> server.run + 1]
    /\ UNCHANGED <<asks, at, kind, arg, Files, ans, Pulls, Guests>>

(* SIGINT: the listener is closed and Serve returns at once. *)
Shutdown ==
    /\ server.st = "up" /\ server.run < LastServer
    /\ server' = [server EXCEPT !.st = "closing"]
    /\ UNCHANGED <<asks, at, kind, arg, Files, ans, Pulls, Guests>>

(* The process ends, with the handlers and the jobs that are under way: the *)
(* grace of Shutdown is that of a goroutine nobody waits for.               *)
Exit ==
    /\ server.st # "down" /\ server.run < LastServer
    /\ server' = [server EXCEPT !.st = "down"]
    /\ ans' = [c \in Clients |-> IF at[c] = "idle" THEN ans[c] ELSE "cut"]
    /\ at' = [c \in Clients |-> "idle"]
    /\ body' = [c \in Clients |-> "nothing"]
    /\ jobs' = <<>>
    /\ UNCHANGED <<asks, kind, arg, temps, imports, ticket, reply, Guests>>

(* The router finds the handler. *)
Route(c) ==
    /\ server.st = "up" /\ at[c] = "idle"
    /\ \E k \in asks[c] : kind' = [kind EXCEPT ![c] = k]
    /\ \E v \in Machines : arg' = [arg EXCEPT ![c] = v]
    /\ ans' = [ans EXCEPT ![c] = "none"]
    /\ shell' = [shell EXCEPT ![c] = NoShell]
    /\ Goto(c, "read")
    /\ UNCHANGED <<asks, server, Files, Pulls, machine, child>>

(* readJSON, the fields that are required, Validate; an id that is unknown. *)
Refuse(c) ==
    /\ at[c] = "read"
    /\ kind[c] = "poll" => ticket[c].id \notin DOMAIN jobs
    /\ \E status \in {"400", "404"} : Answer(c, status)
    /\ UNCHANGED <<asks, server, kind, arg, Files, Pulls, Guests>>

(* One command of weave, in this process. *)
Command(c) ==
    /\ at[c] = "read" /\ kind[c] = "command"
    /\ Goto(c, "command")
    /\ UNCHANGED <<asks, server, kind, arg, Files, ans, Pulls, Guests>>

CommandEnds(c) ==
    /\ at[c] = "command"
    /\ \E status \in ErrorStatus \cup {"200"} : Answer(c, status)
    /\ UNCHANGED <<asks, server, kind, arg, Files, Pulls, Guests>>

-----------------------------------------------------------------------------
(* handleImportUpload, handleExportDownload *)

CreateTemp(c) ==
    /\ at[c] = "read" /\ kind[c] \in {"upload", "download"}
    /\ temps' = temps \cup {Temp(c)}
    /\ Goto(c, IF kind[c] = "upload" THEN "part" ELSE "export")
    /\ UNCHANGED <<asks, server, kind, arg, body, imports, ans, Pulls, Guests>>

PartBegins(c) ==
    /\ at[c] = "part" /\ body[c] = "nothing"
    /\ body' = [body EXCEPT ![c] = "some"]
    /\ UNCHANGED <<asks, server, at, kind, arg, temps, imports, ans, Pulls, Guests>>

PartEnds(c) ==
    /\ at[c] = "part" /\ body[c] = "some"
    /\ body' = [body EXCEPT ![c] = "whole"]
    /\ Goto(c, "import")
    /\ UNCHANGED <<asks, server, kind, arg, temps, imports, ans, Pulls, Guests>>

(* The client is gone, the disk is full, or there is no such part.          *)
PartCut(c) ==
    /\ at[c] = "part"
    /\ \E status \in {"400", "500"} : Answer(c, status)
    /\ UNCHANGED <<asks, server, kind, arg, Files, Pulls, Guests>>

ImportEnds(c) ==
    /\ at[c] = "import"
    /\ imports' = imports \cup {body[c]}
    /\ Answer(c, "200")
    /\ UNCHANGED <<asks, server, kind, arg, body, temps, Pulls, Guests>>

ImportFails(c) ==
    /\ at[c] = "import"
    /\ \E status \in ErrorStatus : Answer(c, status)
    /\ UNCHANGED <<asks, server, kind, arg, Files, Pulls, Guests>>

ExportEnds(c) ==
    /\ at[c] = "export"
    /\ Goto(c, "stream")
    /\ UNCHANGED <<asks, server, kind, arg, Files, ans, Pulls, Guests>>

ExportFails(c) ==
    /\ at[c] = "export"
    /\ \E status \in ErrorStatus : Answer(c, status)
    /\ UNCHANGED <<asks, server, kind, arg, Files, Pulls, Guests>>

(* The length went ahead, so the client knows a stream that was cut. *)
StreamEnds(c) ==
    /\ at[c] = "stream"
    /\ \E status \in {"200", "cut"} : Answer(c, status)
    /\ UNCHANGED <<asks, server, kind, arg, Files, Pulls, Guests>>

Remove(c) ==
    /\ at[c] = "clean"
    /\ temps' = temps \ {Temp(c)}
    /\ body' = [body EXCEPT ![c] = "nothing"]
    /\ Goto(c, "idle")
    /\ UNCHANGED <<asks, server, kind, arg, imports, ans, Pulls, Guests>>

-----------------------------------------------------------------------------
(* pullJobs: each operation holds the mutex *)

StartPull(c) ==
    /\ at[c] = "read" /\ kind[c] = "pull" /\ Len(jobs) < LastJob
    /\ \E i \in Images :
          /\ jobs' = Append(jobs, [image |-> i, st |-> "running"])
          /\ ticket' = [ticket EXCEPT ![c] = [run |-> server.run, id |-> Len(jobs) + 1, image |-> i]]
    /\ Answer(c, "202")
    /\ UNCHANGED <<asks, server, kind, arg, Files, reply, Guests>>

(* Whether or not the client who asked for it is still there. *)
JobEnds(j) ==
    /\ j \in DOMAIN jobs /\ jobs[j].st = "running"
    /\ \E s \in {"succeeded", "failed"} : jobs' = [jobs EXCEPT ![j].st = s]
    /\ UNCHANGED <<asks, server, at, kind, arg, Files, ans, ticket, reply, Guests>>

(* The ids start again with each server: the id of another one is unknown,  *)
(* or another pull's, whose image the answer names.                         *)
GetPull(c) ==
    /\ at[c] = "read" /\ kind[c] = "poll" /\ ticket[c].id \in DOMAIN jobs
    /\ reply' = [reply EXCEPT ![c] = [run |-> server.run, id |-> ticket[c].id,
                                      image |-> jobs[ticket[c].id].image, st |-> jobs[ticket[c].id].st]]
    /\ Answer(c, "200")
    /\ UNCHANGED <<asks, server, kind, arg, Files, jobs, ticket, Guests>>

-----------------------------------------------------------------------------
(* handleRunVM, SpawnDetachedRun, WaitForVMRunning *)

SpawnDetachedRun(c) ==
    /\ at[c] = "read" /\ kind[c] = "run" /\ child[arg[c]] < LastChild
    /\ child' = [child EXCEPT ![arg[c]] = child[arg[c]] + 1]
    /\ Goto(c, "running")
    /\ UNCHANGED <<asks, server, kind, arg, Files, ans, Pulls, machine, shell>>

(* It takes the lock of the machine, or finds it taken. *)
ChildRuns(v) ==
    /\ child[v] > 0 /\ ~machine[v]
    /\ machine' = [machine EXCEPT ![v] = TRUE]
    /\ child' = [child EXCEPT ![v] = child[v] - 1]
    /\ UNCHANGED <<asks, server, at, kind, arg, Files, ans, Pulls, shell>>

ChildFails(v) ==
    /\ child[v] > 0
    /\ child' = [child EXCEPT ![v] = child[v] - 1]
    /\ UNCHANGED <<asks, server, at, kind, arg, Files, ans, Pulls, machine, shell>>

MachineEnds(v) ==
    /\ machine[v]
    /\ machine' = [machine EXCEPT ![v] = FALSE]
    /\ UNCHANGED <<asks, server, at, kind, arg, Files, ans, Pulls, child, shell>>

SeenRunning(c) ==
    /\ at[c] = "running" /\ machine[arg[c]]
    /\ Answer(c, "200")
    /\ UNCHANGED <<asks, server, kind, arg, Files, Pulls, Guests>>

(* 30 seconds pass, the client is gone, or the VM is: the process that was  *)
(* started stays.                                                           *)
NotSeenRunning(c) ==
    /\ at[c] = "running"
    /\ \E status \in ErrorStatus : Answer(c, status)
    /\ UNCHANGED <<asks, server, kind, arg, Files, Pulls, Guests>>

-----------------------------------------------------------------------------
(* serveSSHWebSocket, InteractiveIO *)

(* No address, no connection or no session is an answer of its own.         *)
OpenShell(c) ==
    /\ at[c] = "read" /\ kind[c] = "shell"
    /\ shell' = [shell EXCEPT ![c] = [remote |-> "up", wrote |-> 0, got |-> 0, here |-> TRUE]]
    /\ Goto(c, "shell")
    /\ UNCHANGED <<asks, server, kind, arg, Files, ans, Pulls, machine, child>>

Writes(c) ==
    /\ at[c] = "shell" /\ shell[c].remote = "up" /\ shell[c].wrote < LastOutput
    /\ shell' = [shell EXCEPT ![c].wrote = shell[c].wrote + 1]
    /\ UNCHANGED <<asks, server, at, kind, arg, Files, ans, Pulls, machine, child>>

(* wsBinaryWriter: one frame, while there is someone to take it. *)
Frame(c) ==
    /\ at[c] = "shell" /\ shell[c].here /\ shell[c].got < shell[c].wrote
    /\ shell' = [shell EXCEPT ![c].got = shell[c].got + 1]
    /\ UNCHANGED <<asks, server, at, kind, arg, Files, ans, Pulls, machine, child>>

(* pumpWSInput closes the shell's input, which need not end the shell. *)
ClientLeaves(c) ==
    /\ at[c] = "shell" /\ shell[c].here
    /\ shell' = [shell EXCEPT ![c].here = FALSE]
    /\ UNCHANGED <<asks, server, at, kind, arg, Files, ans, Pulls, machine, child>>

RemoteExits(c) ==
    /\ at[c] = "shell" /\ shell[c].remote = "up"
    /\ \E s \in {"ok", "code", "lost"} : shell' = [shell EXCEPT ![c].remote = s]
    /\ UNCHANGED <<asks, server, at, kind, arg, Files, ans, Pulls, machine, child>>

(* closeWS: a session without a status is an end like any other. *)
StatusFrame(c) ==
    IF ~shell[c].here THEN "cut" ELSE IF shell[c].remote = "code" THEN "code" ELSE "200"

(* Session.Wait returns when the output is copied, or cannot be. *)
WaitEnds(c) ==
    /\ at[c] = "shell" /\ shell[c].remote # "up"
    /\ shell[c].here => shell[c].got = shell[c].wrote
    /\ Answer(c, StatusFrame(c))
    /\ UNCHANGED <<asks, server, kind, arg, Files, Pulls, Guests>>

-----------------------------------------------------------------------------
Init ==
    /\ asks \in Asks
    /\ server = [st |-> "down", run |-> 0]
    /\ at = [c \in Clients |-> "idle"]
    /\ kind = [c \in Clients |-> "command"]
    /\ arg \in [Clients -> Machines]
    /\ body = [c \in Clients |-> "nothing"]
    /\ ans = [c \in Clients |-> "none"]
    /\ temps = {}
    /\ imports = {}
    /\ jobs = <<>>
    /\ ticket = [c \in Clients |-> NoTicket]
    /\ reply = [c \in Clients |-> NoReply]
    /\ machine = [v \in Machines |-> FALSE]
    /\ child = [v \in Machines |-> 0]
    /\ shell = [c \in Clients |-> NoShell]

Archive(c) ==
    \/ CreateTemp(c) \/ PartBegins(c) \/ PartEnds(c) \/ PartCut(c) \/ ImportEnds(c) \/ ImportFails(c)
    \/ ExportEnds(c) \/ ExportFails(c) \/ StreamEnds(c) \/ Remove(c)

Session(c) == OpenShell(c) \/ Writes(c) \/ Frame(c) \/ ClientLeaves(c) \/ RemoteExits(c) \/ WaitEnds(c)

Next ==
    \/ Serve \/ Shutdown \/ Exit
    \/ \E c \in Clients :
          \/ Route(c) \/ Refuse(c) \/ Command(c) \/ CommandEnds(c)
          \/ Archive(c) \/ StartPull(c) \/ GetPull(c)
          \/ SpawnDetachedRun(c) \/ SeenRunning(c) \/ NotSeenRunning(c)
          \/ Session(c)
    \/ \E j \in 1..LastJob : JobEnds(j)
    \/ \E v \in Machines : ChildRuns(v) \/ ChildFails(v) \/ MachineEnds(v)
-----------------------------------------------------------------------------
Kinds == {"command", "upload", "download", "pull", "poll", "run", "shell"}
WithTemp == {"part", "import", "export", "stream", "clean"}

TypeOK ==
    /\ asks \in [Clients -> SUBSET Kinds]
    /\ server \in [st : {"down", "up", "closing"}, run : Nat]
    /\ at \in [Clients -> WithTemp \cup {"idle", "read", "command", "running", "shell"}]
    /\ kind \in [Clients -> Kinds]
    /\ arg \in [Clients -> Machines]
    /\ body \in [Clients -> {"nothing", "some", "whole"}]
    /\ ans \in [Clients -> ErrorStatus \cup {"none", "cut", "200", "202", "code"}]
    /\ temps \subseteq [of : Clients, run : Nat]
    /\ imports \subseteq {"nothing", "some", "whole"}
    /\ jobs \in Seq([image : Images, st : {"running", "succeeded", "failed"}])
    /\ ticket \in [Clients -> [run : Nat, id : Nat, image : Images \cup {"none"}]]
    /\ reply \in [Clients -> [run : Nat, id : Nat, image : Images \cup {"none"},
                               st : {"none", "running", "succeeded", "failed"}]]
    /\ machine \in [Machines -> BOOLEAN]
    /\ child \in [Machines -> Nat]
    /\ shell \in [Clients -> [remote : {"none", "up", "ok", "code", "lost"}, wrote : Nat, got : Nat, here : BOOLEAN]]

(* What a handler puts into the temporary directory is there until that      *)
(* handler removes it, whichever way it ends (the deferred removals of       *)
(* handleImportUpload and handleExportDownload); only a server that ends     *)
(* leaves anything.                                                          *)
TempsOwned ==
    /\ \A t \in temps : server.st # "down" /\ t.run = server.run => at[t.of] \in WithTemp
    /\ \A c \in Clients : at[c] \in WithTemp => Temp(c) \in temps

(* An archive is imported when all of it has come, and success means that    *)
(* it was (handleImportUpload).                                              *)
ImportsWhole ==
    /\ imports \subseteq {"whole"}
    /\ \A c \in Clients : kind[c] = "upload" /\ at[c] = "clean" /\ ans[c] = "200" => body[c] = "whole"

(* What a client is told of its pull is about that pull, and the end it is   *)
(* told of is the end; ids start again with each server, so that the answer  *)
(* of another server may be about another pull (pullJobs).                   *)
AnswersHold ==
    \A c \in Clients :
        /\ ticket[c].run = server.run /\ ticket[c].id # 0 /\ server.st # "down" =>
              ticket[c].id \in DOMAIN jobs /\ jobs[ticket[c].id].image = ticket[c].image
        /\ reply[c].run = server.run /\ reply[c].id # 0 /\ server.st # "down" =>
              /\ reply[c].id \in DOMAIN jobs /\ jobs[reply[c].id].image = reply[c].image
              /\ reply[c].st # "running" => jobs[reply[c].id].st = reply[c].st
        /\ reply[c].run = ticket[c].run /\ reply[c].id = ticket[c].id => reply[c].image = ticket[c].image

(* The status of a shell follows everything it wrote, and is its own         *)
(* (InteractiveIO, closeWS).                                                 *)
StatusLast ==
    \A c \in Clients : kind[c] = "shell" /\ ans[c] \in {"200", "code"} =>
        /\ shell[c].got = shell[c].wrote
        /\ ans[c] = "code" <=> shell[c].remote = "code"

ApiSafe ==
    /\ TypeOK
    /\ TempsOwned
    /\ ImportsWhole
    /\ AnswersHold
    /\ StatusLast
=============================================================================
