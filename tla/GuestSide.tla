------------------------------ MODULE GuestSide ------------------------------
(***************************************************************************)
(* The guest's machine and what runs beside it: the native hypervisor and  *)
(* its devices, the clipboard, the agent's channel, addresses, commands.   *)
(* The components share no variable: a history is one component's, and the *)
(* others stay in their initial states.                                    *)
(***************************************************************************)
EXTENDS GuestExec

VARIABLE part    \* the component whose history this is

-----------------------------------------------------------------------------
CONSTANTS Requests, MaxCopies, MaxDowns, MaxSets, Offers, Policies, ClipMixes

VARIABLES host, guest, up, eng, ctl, clipmix, copies, downs, sets, reached, asked

clipvars == <<host, guest, up, eng, ctl, clipmix, copies, downs, sets, reached, asked>>

Clip == INSTANCE ClipboardSync

(* Copies are offered in formats the engine knows; a policy restricts the  *)
(* direction, the formats, or both.                                        *)
ASSUME ClipAssumption ==
    /\ MaxCopies \in Nat
    /\ Offers \subseteq SUBSET DOMAIN Clip!Richness
    /\ Policies \subseteq [dir : {"same", "disabled", "bidirectional", "hostToGuest", "guestToHost"},
                           formats : (SUBSET DOMAIN Clip!Richness) \cup {{"same"}}]
    /\ \A m \in ClipMixes : m.policy \in Clip!EngPolicies

-----------------------------------------------------------------------------
CONSTANTS MaxExchanges, MaxData, ChanMixes

VARIABLES toAgent, toHost, guestd, resident, hst, board, chanmix, took

channelvars == <<toAgent, toHost, guestd, resident, hst, board, chanmix, took>>

Chan == INSTANCE AgentChannel

ASSUME ChannelAssumption == MaxExchanges \in Nat /\ MaxData \in Nat

-----------------------------------------------------------------------------
CONSTANTS VMs, Askers, Ways, LeaseLists, ARPTables, MaxTime, MaxWait

VARIABLES leases, arp, agents, cwd, clock, asker, ways

addressvars == <<leases, arp, agents, cwd, clock, asker, ways>>

Addr == INSTANCE AddressResolver

(* The agent's strategy changes the working directory of the process, so   *)
(* it is asked by one request at a time.                                   *)
ASSUME AddrAssumption ==
    /\ MaxTime \in Nat
    /\ LeaseLists \subseteq Seq([vm : VMs, until : Nat])
    /\ \A t \in ARPTables : t \in Seq(VMs \cup {"garbled", "incomplete"})
    /\ \A w \in Ways : "agent" \in w => \A a, b \in Askers : a = b

-----------------------------------------------------------------------------
CONSTANTS Commands, Programs, MaxExits, StuckSamples, Stalled

VARIABLES hv, regions, cmd, cpu, watch, trail, stayed, saved

gmvars == <<hv, regions, cmd, cpu, watch, trail, stayed, saved>>

GM == INSTANCE GuestMachine WITH reached <- stayed

(* A program does not run off its end.                                     *)
ProgramOK(p) == Len(p) \in Nat \ {0} /\ p[Len(p)].op \in {"b", "spin", "noisv"}

ASSUME GMAssumption ==
    /\ MaxExits \in Nat \ {0} /\ StuckSamples \in Nat \ {0}
    /\ \A p \in Programs : ProgramOK(p)

-----------------------------------------------------------------------------
CONSTANTS Words, Bits, Patterns, ReadOnlyItems, RamfbKey, InputCap, MaxFlashOps, MaxDMA, MaxKeys

VARIABLES flash, flashdrv, fwcfg, dma, ramfb, frame, uart

fwvars == <<flash, flashdrv, fwcfg, dma, ramfb, frame, uart>>

FW == INSTANCE FirmwareDevices WITH Items <- ReadOnlyItems

ASSUME FWAssumption == InputCap \in Nat /\ Words \in Nat /\ RamfbKey \notin DOMAIN ReadOnlyItems

-----------------------------------------------------------------------------
Parts == {"clip", "channel", "address", "exec", "gm", "fw"}

On(p) == part = p

GuestSideInit ==
    /\ part \in Parts
    /\ Clip!Init
    /\ Chan!Init
    /\ Addr!Init
    /\ Init
    /\ GM!Init
    /\ FW!Init

GuestSideNext ==
    \/ /\ On("clip") /\ Clip!Next
       /\ UNCHANGED <<channelvars, addressvars, xvars, gmvars, fwvars, part>>
    \/ /\ On("channel") /\ Chan!Next
       /\ UNCHANGED <<clipvars, addressvars, xvars, gmvars, fwvars, part>>
    \/ /\ On("address") /\ Addr!Next
       /\ UNCHANGED <<clipvars, channelvars, xvars, gmvars, fwvars, part>>
    \/ /\ On("exec") /\ Next
       /\ UNCHANGED <<clipvars, channelvars, addressvars, gmvars, fwvars, part>>
    \/ /\ On("gm") /\ GM!Next
       /\ UNCHANGED <<clipvars, channelvars, addressvars, xvars, fwvars, part>>
    \/ /\ On("fw") /\ FW!Next
       /\ UNCHANGED <<clipvars, channelvars, addressvars, xvars, gmvars, part>>

guestsidevars == <<part, clipvars, channelvars, addressvars, xvars, gmvars, fwvars>>

GuestSideSpec == GuestSideInit /\ [][GuestSideNext]_guestsidevars

-----------------------------------------------------------------------------
(* ClipboardSync: nothing crosses against the policy in force, and the     *)
(* host's clipboard is only replaced by a copy made in the guest, or by    *)
(* what the guest kept of the host's own.                                  *)
ClipSteps == Clip!NothingAgainstPolicy /\ Clip!HostKeepsItsCopy

(* AgentChannel: an answer is to the question asked, and the guest's       *)
(* clipboard is given whole payloads (and the types of ClipboardSync).     *)
ChanSafe ==
    /\ On("clip") => Clip!TypeOK
    /\ On("channel") => Chan!ChanSafe

(* AddressResolver: an address that is found is the machine's, and nothing *)
(* is given up before its time.                                            *)
AddrSafe == On("address") => Addr!AddrSafe

(* GuestMachine: a process holds one VM at most, each exit is completed    *)
(* once by the device the tree names, a restored machine is the captured   *)
(* one, and only a guest that stays at one place is given up.              *)
MachinesSafe == On("gm") => GM!GMSafe

(* FirmwareDevices: the flash holds what was programmed, a transfer gives  *)
(* the selected item's bytes, and keys are read in the order of typing.    *)
DevicesSafe == On("fw") => FW!FWSafe
=============================================================================
