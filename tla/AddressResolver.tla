--------------------------- MODULE AddressResolver ---------------------------
(***************************************************************************)
(* How a guest's address is found: by the DHCP server's leases file, the   *)
(* ARP cache or the agent behind the machine's control socket, again every *)
(* second until a deadline.  Requests of one process (the HTTP server) run *)
(* side by side; they share its working directory, which the agent's       *)
(* strategy changes to dial the socket by a short name.                    *)
(*                                                                         *)
(* The leases file is a sequence of lines: "{", "}", a pair, or blank.     *)
(***************************************************************************)
EXTENDS Naturals, Sequences

CONSTANTS
    VMs,         \* machines, each with its MAC address and directory
    Askers,      \* requests handled at the same time
    Ways,        \* sets of strategies the requests of a history may use
    LeaseLists,  \* what the DHCP server has granted: sequences of leases
    ARPTables,   \* what arp prints: sequences of lines
    MaxTime,     \* bounds the clock
    MaxWait      \* the longest --wait

VARIABLES
    leases,  \* the leases granted, and how many lines of them are in the file
    arp,     \* the lines of "arp -an"
    agents,  \* the machines whose agent answers
    cwd,     \* the working directory of the process
    clock,   \* seconds
    asker,   \* the requests
    ways     \* the strategies of this history

addrvars == <<leases, arp, agents, cwd, clock, asker, ways>>

AddressOf(v) == <<"ip of", v>>
NoAddress == <<"none">>

-----------------------------------------------------------------------------
(* The leases file                                                         *)

Line(t, k, v) == [t |-> t, k |-> k, v |-> v]

(* What the server writes for a lease: a block of at least a pair.         *)
BlockLines(l) ==
    << Line("{", "", 0), Line("=", "hw_address", l.vm), Line("=", "lease", l.until),
       Line("}", "", 0) >>
FileLines == [n \in 1..leases.lines |->
                 BlockLines(leases.granted[(n + 3) \div 4])[((n + 3) % 4) + 1]]

(* A block opens outside of one and closes after a pair; what is outside   *)
(* of a block that a pair makes is a block too.                            *)
Before(lines, n) == IF n = 1 THEN "}" ELSE lines[n - 1].t
Parses(lines) ==
    /\ \A n \in DOMAIN lines :
          /\ lines[n].t = "{" => Before(lines, n) = "}"
          /\ lines[n].t = "}" => Before(lines, n) = "="
    /\ Before(lines, Len(lines) + 1) = "}"

(* The pairs of a block are all since the end of the block before it.      *)
PairOf(lines, e, k) ==
    lines[CHOOSE n \in 1..e : lines[n].k = k /\ \A m \in n + 1 .. e : lines[m].t # "}" \/ m = e].v
retrieveRawLeases(lines) ==
    [e \in {n \in DOMAIN lines : lines[n].t = "}"} |->
        [hw_address |-> PairOf(lines, e, "hw_address"), lease |-> PairOf(lines, e, "lease")]]

(* Of a machine's leases that have not expired, the one that lasts longest *)
(* counts, and of those the first; 0 when there is none.                   *)
NewLeases(v, blocks, now) ==
    LET of == {i \in DOMAIN blocks : blocks[i].hw_address = v /\ blocks[i].lease > now}
        best == {i \in of : \A j \in of : blocks[j].lease <= blocks[i].lease}
    IN IF of = {} THEN 0 ELSE CHOOSE i \in best : \A j \in best : i <= j

-----------------------------------------------------------------------------
NoAsker == [pc |-> "idle", how |-> "", vm |-> "", until |-> 0, got |-> NoAddress, at |-> 0,
            lines |-> 0]

Done(a, pc, got) ==
    asker' = [asker EXCEPT ![a].pc = pc, ![a].got = got, ![a].at = clock,
                         ![a].lines = leases.lines]
Goto(a, pc) == asker' = [asker EXCEPT ![a].pc = pc]

Ask(a) ==
    /\ asker[a].pc = "idle"
    /\ \E v \in VMs, how \in ways, wait \in 0..MaxWait :
          asker' = [asker EXCEPT ![a] = [NoAsker EXCEPT !.pc = "look", !.how = how, !.vm = v,
                                                        !.until = clock + wait]]
    /\ UNCHANGED <<leases, arp, agents, cwd, clock, ways>>

(* The whole file is read and parsed; one that does not parse is an error. *)
LookInLeases(a) ==
    /\ asker[a].pc = "look" /\ asker[a].how = "dhcp"
    /\ IF ~Parses(FileLines) THEN Done(a, "error", NoAddress)
       ELSE LET i == NewLeases(asker[a].vm, retrieveRawLeases(FileLines), clock)
            IN IF i = 0 THEN Goto(a, "missed") ELSE Done(a, "found", <<"lease", i \div 4>>)
    /\ UNCHANGED <<leases, arp, agents, cwd, clock, ways>>

(* Faulty: the first complete line counts, whoever's it is.                *)
LookInARPAny(a) ==
    /\ asker[a].pc = "look" /\ asker[a].how = "arp"
    /\ LET here == {i \in DOMAIN arp : arp[i] # "incomplete"}
           i == CHOOSE x \in here : \A y \in here : x <= y
       IN \/ here = {} /\ Goto(a, "missed")
          \/ here # {} /\ arp[i] = "garbled" /\ Done(a, "error", NoAddress)
          \/ here # {} /\ arp[i] # "garbled" /\ Done(a, "found", AddressOf(arp[i]))
    /\ UNCHANGED <<leases, arp, agents, cwd, clock, ways>>

(* The first line with the address counts, unless one before it does not   *)
(* parse; incomplete entries are passed over.                              *)
LookInARP(a) ==
    /\ asker[a].pc = "look" /\ asker[a].how = "arp"
    /\ LET here == {i \in DOMAIN arp : arp[i] \in {asker[a].vm, "garbled"}}
           i == CHOOSE x \in here : \A y \in here : x <= y
       IN \/ here = {} /\ Goto(a, "missed")
          \/ here # {} /\ arp[i] = "garbled" /\ Done(a, "error", NoAddress)
          \/ here # {} /\ arp[i] # "garbled" /\ Done(a, "found", AddressOf(arp[i]))
    /\ UNCHANGED <<leases, arp, agents, cwd, clock, ways>>

Chdir(a) ==
    /\ asker[a].pc = "look" /\ asker[a].how = "agent"
    /\ cwd' = asker[a].vm
    /\ Goto(a, "dial")
    /\ UNCHANGED <<leases, arp, agents, clock, ways>>

(* The socket is dialled by its name in the working directory.  No agent,  *)
(* or one that takes more than a second, is a miss.                        *)
AskAgent(a) ==
    /\ asker[a].pc = "dial"
    /\ \/ cwd \in agents /\ Done(a, "found", AddressOf(cwd))
       \/ Goto(a, "missed")
    /\ UNCHANGED <<leases, arp, agents, cwd, clock, ways>>

Missed(a) ==
    /\ asker[a].pc = "missed"
    /\ \/ clock >= asker[a].until /\ Done(a, "notfound", NoAddress)
       \/ clock < asker[a].until /\ Goto(a, "sleep")
    /\ UNCHANGED <<leases, arp, agents, cwd, clock, ways>>

(* time.After: the second passes while a request sleeps; others may have   *)
(* been served meanwhile.                                                  *)
SecondPasses ==
    /\ clock < MaxTime
    /\ clock' = clock + 1
    /\ asker' = [a \in Askers |->
          IF asker[a].pc = "sleep" THEN [asker[a] EXCEPT !.pc = "look"] ELSE asker[a]]
    /\ UNCHANGED <<leases, arp, agents, cwd, ways>>

ContextDone(a) ==
    /\ asker[a].pc = "sleep"
    /\ Done(a, "cancelled", NoAddress)
    /\ UNCHANGED <<leases, arp, agents, cwd, clock, ways>>

(* The DHCP server writes its file, of which a reader may see a part; arp  *)
(* prints another table.  (Each only in the histories that look there.)    *)
WriteLeases ==
    /\ "dhcp" \in ways /\ leases.lines < 4 * Len(leases.granted)
    /\ leases' = [leases EXCEPT !.lines = @ + 1]
    /\ UNCHANGED <<arp, agents, cwd, clock, asker, ways>>

CacheChanges ==
    /\ "arp" \in ways /\ arp = <<>>
    /\ \E t \in ARPTables : arp' = t
    /\ UNCHANGED <<leases, agents, cwd, clock, asker, ways>>

AgentStarts ==
    /\ "agent" \in ways
    /\ \E v \in VMs \ agents : agents' = agents \cup {v}
    /\ UNCHANGED <<leases, arp, cwd, clock, asker, ways>>

-----------------------------------------------------------------------------
Init ==
    /\ \E granted \in LeaseLists : leases = [granted |-> granted, lines |-> 0]
    /\ arp = <<>> /\ agents = {} /\ cwd \in VMs /\ clock = 0 /\ ways \in Ways
    /\ asker = [a \in Askers |-> NoAsker]

Looks(a) == LookInLeases(a) \/ LookInARP(a) \/ Chdir(a) \/ AskAgent(a) \/ Missed(a)

Next ==
    \/ \E a \in Askers : Ask(a) \/ Looks(a) \/ ContextDone(a)
    \/ SecondPasses \/ WriteLeases \/ CacheChanges \/ AgentStarts

(* Fairness: a request goes on and time passes.                            *)
Fairness == WF_addrvars(SecondPasses) /\ \A a \in Askers : WF_addrvars(Looks(a))

Spec == Init /\ [][Next]_addrvars /\ Fairness

-----------------------------------------------------------------------------
TypeOK ==
    /\ leases.lines \in 0 .. 4 * Len(leases.granted)
    /\ agents \subseteq VMs /\ cwd \in VMs /\ clock \in 0..MaxTime /\ ways \in Ways
    /\ \A a \in Askers :
          /\ asker[a].pc \in {"idle", "look", "dial", "missed", "sleep", "found", "notfound",
                              "error", "cancelled"}
          /\ (asker[a].pc = "found") = (asker[a].got # NoAddress)
          /\ asker[a].pc = "dial" => asker[a].how = "agent"

(* What is found in the leases file is the machine's own lease, unexpired  *)
(* when it was looked up, and no other of its leases lasts longer; a file  *)
(* of which only a part is there is an error and never a wrong answer,     *)
(* unless the part is one of whole blocks (leases.go NewLeasesFromString). *)
LeaseIsNewest ==
    \A a \in Askers : asker[a].pc = "found" /\ asker[a].how = "dhcp" =>
        LET i == asker[a].got[2] IN
        /\ i <= Len(leases.granted) /\ leases.granted[i].vm = asker[a].vm
        /\ leases.granted[i].until > asker[a].at
        /\ \A j \in DOMAIN leases.granted :
              leases.granted[j].vm = asker[a].vm /\ 4 * j <= asker[a].lines =>
                  leases.granted[j].until <= leases.granted[i].until

(* A request of the ARP cache or of the agent gets the address of the      *)
(* machine it asked about ("through the VM's control socket",              *)
(* agentresolver.go:1-4), whatever else the process is asked.              *)
AddressOfMachine ==
    \A a \in Askers : asker[a].pc = "found" /\ asker[a].how # "dhcp" =>
        asker[a].got = AddressOf(asker[a].vm)

(* "Not found" is never said before the wait is over; and only a leases    *)
(* file or an ARP line that does not parse is an error: an agent that is   *)
(* not there is not.                                                       *)
WaitsLongEnough ==
    \A a \in Askers :
        /\ asker[a].pc = "notfound" => asker[a].at >= asker[a].until
        /\ asker[a].pc = "error" => asker[a].how # "agent"

(* Every request is answered within its wait.                              *)
RequestsEnd ==
    \A a \in Askers : asker[a].pc = "look" /\ asker[a].until <= MaxTime
        ~> asker[a].pc \in {"found", "notfound", "error", "cancelled"}

(* Addresses are of the newest lease and of the machine, and are waited for. *)
AddrSafe == TypeOK /\ LeaseIsNewest /\ AddressOfMachine /\ WaitsLongEnough
=============================================================================
