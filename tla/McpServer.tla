------------------------------ MODULE McpServer -------------------------------
(***************************************************************************)
(* weave serve --mcp: a client calls tools over the process's standard     *)
(* input and output, several at a time, and the tools run commands of      *)
(* weave in this process, which print what they do. What is not a message  *)
(* of the protocol must not come out where the messages do.                *)
(***************************************************************************)
EXTENDS Naturals

CONSTANT LastCall    \* bounds the calls under way

VARIABLES
    session,  \* off, serving, or ended with the process still there
    stdout,   \* where what commands print comes out
    calls,    \* the tools that run
    stray     \* something was printed among the messages

mcpvars == <<session, stdout, calls, stray>>

-----------------------------------------------------------------------------
ServeMCP ==
    /\ session = "off"
    /\ session' = "serving" /\ stdout' = "stderr"
    /\ UNCHANGED <<calls, stray>>

CallTool ==
    /\ session = "serving" /\ calls < LastCall
    /\ calls' = calls + 1
    /\ UNCHANGED <<session, stdout, stray>>

ToolPrints ==
    /\ calls > 0
    /\ stray' = (stray \/ (session = "serving" /\ stdout = "stdout"))
    /\ UNCHANGED <<session, stdout, calls>>

(* Its result is a message, an error too. *)
ToolEnds ==
    /\ calls > 0
    /\ calls' = calls - 1
    /\ UNCHANGED <<session, stdout, stray>>

(* Cancelled, or the client is gone; the streams are given back, and what   *)
(* was called may still print.                                              *)
MCPEnds ==
    /\ session = "serving"
    /\ session' = "ended" /\ stdout' = "stdout"
    /\ UNCHANGED <<calls, stray>>

ProcessEnds ==
    /\ session = "ended"
    /\ session' = "off" /\ calls' = 0
    /\ UNCHANGED <<stdout, stray>>

-----------------------------------------------------------------------------
Init == session = "off" /\ stdout = "stdout" /\ calls = 0 /\ stray = FALSE

Next == ServeMCP \/ CallTool \/ ToolPrints \/ ToolEnds \/ MCPEnds \/ ProcessEnds

-----------------------------------------------------------------------------
TypeOK ==
    /\ session \in {"off", "serving", "ended"}
    /\ stdout \in {"stdout", "stderr"}
    /\ calls \in Nat
    /\ stray \in BOOLEAN

(* Tools run while the streams are exchanged, or after the last message, so  *)
(* that nothing they print comes between messages (RunMCPServer).            *)
FramesOnly ==
    /\ session = "off" => calls = 0
    /\ session = "serving" => stdout = "stderr"
    /\ ~stray

McpSafe == TypeOK /\ FramesOnly
=============================================================================
