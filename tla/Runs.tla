--------------------------------- MODULE Runs ----------------------------------
(***************************************************************************)
(* A run, and what serves it, drives it or is started beside it: the       *)
(* network of a run and the helpers of it, the emulators of Windows runs,  *)
(* the servers that start runs and answer for them, the clients of a       *)
(* machine's screen, and the unattended setup of a machine. The components *)
(* share no variable: a history is one component's, and the others stay in *)
(* their initial states.                                                   *)
(***************************************************************************)
EXTENDS RunSession, Sequences

VARIABLE part    \* the component whose history this is

-----------------------------------------------------------------------------
CONSTANTS NetLines, LastTopology, NoMAC

VARIABLES line, suid, netstep, netat, upto, nics, helper, asked, early, sema, stopping, guest, failed, topology

netvars == <<line, suid, netstep, netat, upto, nics, helper, asked, early, sema, stopping, guest, failed, topology>>

Net == INSTANCE Topology WITH step <- netstep, at <- netat

NICSpecs == Seq([mode : STRING, options : SUBSET STRING, primary : BOOLEAN, mac : STRING])
StoredNICs == Seq([mode : STRING, primary : BOOLEAN, mac : STRING])

ASSUME NetAssumption ==
    \A l \in NetLines :
        /\ l.devices \in NICSpecs /\ l.bridged \in Seq(STRING) /\ l.stored \in StoredNICs
        /\ l.interactive \in BOOLEAN

-----------------------------------------------------------------------------
CONSTANTS WindowsVMs, RunOptions, Displays, Killable, Nobody

VARIABLES emustep, opts, display, emu, tpm, file, cancel, setup, emuleft

emuvars == <<emustep, opts, display, emu, tpm, file, cancel, setup, emuleft>>

Emu == INSTANCE QemuRun WITH step <- emustep, left <- emuleft

-----------------------------------------------------------------------------
CONSTANTS Callers, Asks, Images, Started, LastServer, LastJob, LastOutput, LastChild

VARIABLES asks, server, apiat, kind, arg, body, ans, temps, imports, jobs, ticket, reply, machine, apichild, shell

apivars ==
    <<asks, server, apiat, kind, arg, body, ans, temps, imports, jobs, ticket, reply, machine, apichild, shell>>

Api == INSTANCE ApiServer WITH Clients <- Callers, Machines <- Started, at <- apiat, child <- apichild

ASSUME ServerAssumption == Asks \subseteq [Callers -> SUBSET Api!Kinds]

-----------------------------------------------------------------------------
CONSTANTS Drivers, Roles, Places, Attempts, Retries

VARIABLES role, shown, serving, fresh, down, conn, doing, scrat, fb, moved, tries, retry, last, aim, scrleft, torn

screenvars ==
    <<role, shown, serving, fresh, down, conn, doing, scrat, fb, moved, tries, retry, last, aim, scrleft, torn>>

Scr == INSTANCE Screen WITH Kinds <- Roles, at <- scrat, left <- scrleft

(* Places are not the screen without the text. *)
ASSUME HostAssumption ==
    /\ Nobody \notin WindowsVMs \cup Drivers
    /\ Displays \subseteq Nat
    /\ RunOptions \in [WindowsVMs -> SUBSET [password : BOOLEAN, iso : BOOLEAN]]
    /\ Places \subseteq Nat \ {0}
    /\ Roles \subseteq [Drivers -> {"preset", "agent", "tool", "viewer"}]

-----------------------------------------------------------------------------
CONSTANTS Boots, Probes, Posts, Turns, Kept

VARIABLES mode, setstep, holder, setchild, linked, booted, probed, posted, messages, turn, viewer

setupvars == <<mode, setstep, holder, setchild, linked, booted, probed, posted, messages, turn, viewer>>

Unattended == INSTANCE Setup WITH step <- setstep, child <- setchild

(* What is kept begins with an answer of the model. *)
ASSUME SetupAssumption ==
    /\ {Boots, Probes, Posts, Turns, Kept} \subseteq Nat
    /\ Kept % 2 = 0

-----------------------------------------------------------------------------
CONSTANT LastCall

VARIABLES session, stdout, calls, stray

mcpvars == <<session, stdout, calls, stray>>

Mcp == INSTANCE McpServer

-----------------------------------------------------------------------------
PartNames == {"session", "net", "emu", "api", "screen", "setup", "mcp"}

On(p) == part = p

RunsInit ==
    /\ part \in PartNames
    /\ Init
    /\ Net!Init
    /\ Emu!Init
    /\ Api!Init
    /\ Scr!Init
    /\ Unattended!Init
    /\ Mcp!Init

RunsNext ==
    \/ /\ On("session") /\ Next
       /\ UNCHANGED <<netvars, emuvars, apivars, screenvars, setupvars, mcpvars, part>>
    \/ /\ On("net") /\ Net!Next
       /\ UNCHANGED <<vars, emuvars, apivars, screenvars, setupvars, mcpvars, part>>
    \/ /\ On("emu") /\ Emu!Next
       /\ UNCHANGED <<vars, netvars, apivars, screenvars, setupvars, mcpvars, part>>
    \/ /\ On("api") /\ Api!Next
       /\ UNCHANGED <<vars, netvars, emuvars, screenvars, setupvars, mcpvars, part>>
    \/ /\ On("screen") /\ Scr!Next
       /\ UNCHANGED <<vars, netvars, emuvars, apivars, setupvars, mcpvars, part>>
    \/ /\ On("setup") /\ Unattended!Next
       /\ UNCHANGED <<vars, netvars, emuvars, apivars, screenvars, mcpvars, part>>
    \/ /\ On("mcp") /\ Mcp!Next
       /\ UNCHANGED <<vars, netvars, emuvars, apivars, screenvars, setupvars, part>>

runsvars == <<part, vars, netvars, emuvars, apivars, screenvars, setupvars, mcpvars>>

RunsSpec == RunsInit /\ [][RunsNext]_runsvars

-----------------------------------------------------------------------------
(* Topology, QemuRun, Setup, ApiServer, Screen and McpServer: a run leaves   *)
(* no helper, emulator, vTPM or endpoint behind; keys, clicks and passwords  *)
(* reach the machine they are for; a server's answers are about what was     *)
(* asked, and follow it; nothing else comes out among them.                  *)
HelpersSafe ==
    /\ On("net") => Net!NetSafe
    /\ On("emu") => Emu!EmuSafe
    /\ On("setup") => Unattended!SetupSafe
    /\ On("api") => Api!ApiSafe
    /\ On("screen") => Scr!ScreenSafe
    /\ On("mcp") => Mcp!McpSafe
=============================================================================
