---------------------------- MODULE MCRunSession ----------------------------
(***************************************************************************)
(* Runs, for TLC: a run with everything but reverts, and with reverts      *)
(* alone; and what is beside a run.                                        *)
(***************************************************************************)
EXTENDS Runs, TLC

CONSTANTS c1, c2, w1, w2, d1, d2

MCMixes == {{"create", "suspend", "stop", "netloss", "kill"}, {"revert", "stop", "kill"}}

BugMixes == {{"revert", "create"}}

-----------------------------------------------------------------------------
(* Topology: eight command lines and configurations, of three NICs at most, *)
(* and one revert.                                                          *)

Stored(m) == [mode |-> m, primary |-> FALSE, mac |-> "none"]
Device(m, o, p, mac) == [mode |-> m, options |-> o, primary |-> p, mac |-> mac]
Line(ask) ==
    ask @@ [profile |-> "none", devices |-> <<>>, bridged |-> <<>>, softnet |-> FALSE, stored |-> <<>>,
            interactive |-> FALSE]
MCNetLines == {
    Line([devices |-> <<Device("softnet", {"block"}, FALSE, "none"), Device("nat", {}, TRUE, "none"),
                        Device("softnet", {}, FALSE, "m")>>, interactive |-> TRUE]),
    Line([devices |-> <<Device("softnet", {"host"}, TRUE, "m"), Device("softnet", {}, TRUE, "none")>>]),
    Line([devices |-> <<Device("nat", {"host"}, TRUE, "m")>>]),
    Line([profile |-> "isolated", interactive |-> TRUE]),
    Line([bridged |-> <<"en0", "en1">>]),
    Line([softnet |-> TRUE, interactive |-> TRUE]),
    Line([softnet |-> FALSE]),
    Line([stored |-> <<Stored("vmnet"), Stored("nat")>>])}

-----------------------------------------------------------------------------
(* QemuRun: two VMs, the first of which is installed from media behind a   *)
(* password and whose process may be killed, and two displays.             *)

MCDisplays == 1 .. 2
MCRunOptions == w1 :> {[password |-> TRUE, iso |-> TRUE]} @@ w2 :> {[password |-> FALSE, iso |-> FALSE]}

-----------------------------------------------------------------------------
(* ApiServer: two clients of two servers; archives and a shell, pulls, and *)
(* runs of one machine.                                                    *)

MCAsks == {
    c1 :> {"upload", "download"} @@ c2 :> {"shell"},
    c1 :> {"pull", "poll"} @@ c2 :> {"pull"},
    c1 :> {"run"} @@ c2 :> {"run", "command"}}

-----------------------------------------------------------------------------
(* Screen: a preset and a viewer, an agent and a tool.                     *)

MCRoles == {d1 :> "preset" @@ d2 :> "viewer", d1 :> "agent" @@ d2 :> "tool"}

-----------------------------------------------------------------------------
(* The components that stay as they begin do so in one state.              *)
AnyInit ==
    /\ RunsInit
    /\ On("session") \/ (mix = {"revert", "stop", "kill"} /\ disk = 1 /\ state = None
                         /\ \A s \in Snaps : snaps[s] = [disk |-> 2, state |-> None])
    /\ On("net") \/ (line = Line([softnet |-> FALSE]) /\ suid)
    /\ On("api") \/ asks = c1 :> {"run"} @@ c2 :> {"run", "command"}
    /\ On("screen") \/ role = d1 :> "agent" @@ d2 :> "tool"

AnyFairness ==
    /\ WF_vars(On("session") /\ Drive)
    /\ WF_vars(On("session") /\ SuspendStep)
    /\ \A c \in Clients : WF_vars(On("session") /\ CreateStep(c))

AnySpec == AnyInit /\ [][RunsNext]_runsvars /\ AnyFairness

SessionSpec == RunsInit /\ On("session") /\ [][RunsNext]_runsvars
=============================================================================
