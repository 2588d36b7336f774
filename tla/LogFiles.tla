------------------------------ MODULE LogFiles ------------------------------
(***************************************************************************)
(* A log file with its cap: every line is one look at the size, perhaps a  *)
(* rotation, an open and a write.  Goroutines of one process take turns    *)
(* under a mutex, processes do not; `weave logs clear` removes the files   *)
(* and `weave logs -f` follows them by size.  LineNumbers are numbers in the     *)
(* order in which they were written, and of one length.                    *)
(***************************************************************************)
EXTENDS Naturals, Sequences, FiniteSets

CONSTANTS
    Writers,   \* goroutines, or processes
    Cap,       \* the lines at which a file is rotated
    MaxLines,  \* written in one history
    LogMixes   \* what may happen in one history

VARIABLES
    data,      \* the lines of each inode
    log,       \* the inode of the log file, 0 if there is none
    old,       \* and of its old generation
    writer,    \* the writers
    mutex,     \* fileLoggerMutex of the process they share
    clearer,   \* Clear
    follower,  \* LogsCommand.Run
    written,   \* how many lines were
    logmix

logvars == <<data, log, old, writer, mutex, clearer, follower, written, logmix>>

May(f) == f \in logmix
Gone == 0
Free == "free"
Shared == May("shared")
LogInodes == 1..Cardinality(Writers) + 2
Held(i) == i \in {log, old} \union {writer[w].fd : w \in Writers}
Size == IF log = Gone THEN 0 ELSE Len(data[log])
Goto(w, pc) == writer' = [writer EXCEPT ![w].pc = pc]

-----------------------------------------------------------------------------
(* appendRotated takes the mutex of its process. *)
Lock(w) ==
    /\ writer[w].pc = "idle"
    /\ Shared => mutex = Free
    /\ mutex' = IF Shared THEN "writer" ELSE mutex
    /\ Goto(w, "stat")
    /\ UNCHANGED <<data, log, old, clearer, follower, written, logmix>>

Full == Size >= Cap

(* The file is full, unless there is no cap ... *)
Stat(w) ==
    /\ writer[w].pc = "stat"
    /\ Goto(w, IF ~May("unlimited") /\ log # Gone /\ Full THEN "rotate" ELSE "open")
    /\ UNCHANGED <<data, log, old, mutex, clearer, follower, written, logmix>>

(* ... and becomes the old generation, or is removed; an error is ignored.  *)
Rotate(w) ==
    /\ writer[w].pc = "rotate"
    /\ old' = IF log = Gone \/ May("drop") THEN old ELSE log
    /\ log' = Gone
    /\ Goto(w, "open")
    /\ UNCHANGED <<data, mutex, clearer, follower, written, logmix>>

Open(w) ==
    /\ writer[w].pc = "open"
    /\ LET i == IF log # Gone THEN log ELSE CHOOSE j \in LogInodes : ~Held(j)
       IN  /\ log' = i
           /\ data' = IF log = Gone THEN [data EXCEPT ![i] = <<>>] ELSE data
           /\ writer' = [writer EXCEPT ![w] = [pc |-> "write", fd |-> i]]
    /\ UNCHANGED <<old, mutex, clearer, follower, written, logmix>>

(* One write appends the line, to whatever the open file is called now.     *)
Write(w) ==
    /\ writer[w].pc = "write" /\ written < MaxLines
    /\ written' = written + 1
    /\ data' = [data EXCEPT ![writer[w].fd] = Append(@, written')]
    /\ writer' = [writer EXCEPT ![w] = [pc |-> "idle", fd |-> Gone]]
    /\ mutex' = IF Shared THEN Free ELSE mutex
    /\ UNCHANGED <<log, old, clearer, follower, logmix>>

(* Clear: the file, then its old generation, under the mutex. *)
ClearLog ==
    /\ May("clear") /\ clearer = "idle"
    /\ Shared => mutex = Free
    /\ mutex' = IF Shared THEN "clear" ELSE mutex
    /\ log' = Gone /\ clearer' = "old"
    /\ UNCHANGED <<data, old, writer, follower, written, logmix>>

ClearOld ==
    /\ clearer = "old"
    /\ mutex' = IF Shared THEN Free ELSE mutex
    /\ old' = Gone /\ clearer' = "done"
    /\ UNCHANGED <<data, log, writer, follower, written, logmix>>

-----------------------------------------------------------------------------
(* weave logs -f: the file is printed ... *)
PrintTail ==
    /\ May("follow") /\ follower.pc = "tail"
    /\ follower' = [follower EXCEPT !.pc = "size", !.shown = IF log = Gone THEN <<>> ELSE data[log]]
    /\ UNCHANGED <<data, log, old, writer, mutex, clearer, written, logmix>>

(* ... then its size is taken, *)
FollowFrom ==
    /\ follower.pc = "size"
    /\ follower' = [follower EXCEPT !.pc = "poll", !.offset = Size, !.first = Size, !.tail = Len(follower.shown)]
    /\ UNCHANGED <<data, log, old, writer, mutex, clearer, written, logmix>>

(* and every second the size again: a smaller file is a new one ... *)
PollSize ==
    /\ follower.pc = "poll"
    /\ LET from == IF Size < follower.offset THEN 0 ELSE follower.offset
       IN  follower' = [follower EXCEPT !.offset = from, !.upto = Size,
                                        !.pc = IF Size = from THEN "poll" ELSE "read"]
    /\ UNCHANGED <<data, log, old, writer, mutex, clearer, written, logmix>>

(* ... and a larger one is opened and read from the offset to that size, or *)
(* as far as it goes, should it be another file by now.                     *)
PollRead ==
    /\ follower.pc = "read"
    /\ LET end == IF Size < follower.upto THEN Size ELSE follower.upto
           new == IF log = Gone THEN <<>> ELSE SubSeq(data[log], follower.offset + 1, end)
       IN  follower' = [follower EXCEPT !.pc = "poll", !.shown = @ \o new, !.offset = @ + Len(new)]
    /\ UNCHANGED <<data, log, old, writer, mutex, clearer, written, logmix>>

-----------------------------------------------------------------------------
Init ==
    /\ logmix \in LogMixes
    /\ data = [i \in LogInodes |-> <<>>]
    /\ log = Gone /\ old = Gone
    /\ writer = [w \in Writers |-> [pc |-> "idle", fd |-> Gone]]
    /\ mutex = Free /\ clearer = "idle" /\ written = 0
    /\ follower = [pc |-> "tail", offset |-> 0, first |-> 0, upto |-> 0, tail |-> 0, shown |-> <<>>]

Next ==
    \/ \E w \in Writers : Lock(w) \/ Stat(w) \/ Rotate(w) \/ Open(w) \/ Write(w)
    \/ ClearLog \/ ClearOld \/ PrintTail \/ FollowFrom \/ PollSize \/ PollRead

Spec == Init /\ [][Next]_logvars

-----------------------------------------------------------------------------
LineNumbers == 1..MaxLines
LinesOf(i) == IF i = Gone THEN {} ELSE {data[i][k] : k \in DOMAIN data[i]}
InOrder(s) == \A i, j \in DOMAIN s : i < j => s[i] < s[j]

(* The types of the variables; the file and its old generation are two. *)
TypeOK ==
    /\ \A i \in LogInodes : Len(data[i]) <= MaxLines /\ LinesOf(i) \subseteq LineNumbers
    /\ log \in LogInodes \union {Gone} /\ old \in LogInodes \union {Gone}
    /\ log # Gone => log # old
    /\ written \in 0..MaxLines /\ mutex \in {Free, "writer", "clear"}
    /\ follower.offset \in 0..MaxLines /\ follower.upto \in 0..MaxLines

(* maxSizeMB caps the files (settings.go): goroutines of one process hold   *)
(* each of them to the cap, and each further process that looked before     *)
(* the file was full can add one line.                                      *)
CapHeld ==
    ~May("unlimited") =>
        \A i \in {log, old} \ {Gone} :
            Len(data[i]) <= IF Shared THEN Cap ELSE Cap - 1 + Cardinality(Writers)

(* "Keeping one generation" (logging_filelogger.go): within one process the *)
(* last Cap lines are in the file or its old generation until a user clears *)
(* them.  Two processes that both find the file full rotate it twice.       *)
RecentKept ==
    Shared /\ ~May("drop") /\ clearer = "idle" =>
        \A n \in LineNumbers : n <= written /\ n > written - Cap => n \in LinesOf(log) \union LinesOf(old)

(* Following a log prints no line twice and none out of order, through      *)
(* rotations, clears and removals, and from its first look on it leaves     *)
(* none out of a file that is never rotated.                                *)
FollowsInOrder ==
    /\ InOrder(follower.shown)
    /\ May("unlimited") /\ ~May("clear") /\ follower.pc \in {"poll", "read"} =>
           /\ Len(follower.shown) = follower.tail + follower.offset - follower.first
           /\ \A k \in 1..(follower.offset - follower.first) :
                  follower.shown[follower.tail + k] = data[log][follower.first + k]

(* Logs are capped, keep their last lines and are followed in order. *)
LogSafe == TypeOK /\ CapHeld /\ RecentKept /\ FollowsInOrder
=============================================================================
