----------------------------- MODULE MCGuestSide -----------------------------
(***************************************************************************)
(* GuestSide, for TLC.                                                     *)
(***************************************************************************)
EXTENDS GuestSide

-----------------------------------------------------------------------------
(* ClipboardSync: two copies at most, one restart of the guest, two        *)
(* changes of the policy by one request.                                   *)

MCOffers == {{"plain"}, {"plain", "rich"}, {"files"}}
Allows(d, f) == [dir |-> d, formats |-> f]
AllFormats == {"plain", "rich", "image", "files"}
MCPolicies == {Allows("guestToHost", {"same"}), Allows("same", {"plain"})}
MCClipMixes == {
    [copies |-> {"host"}, policy |-> Allows("hostToGuest", AllFormats), down |-> TRUE, sets |-> FALSE],
    [copies |-> {"guest"}, policy |-> Allows("guestToHost", {"plain"}), down |-> TRUE, sets |-> FALSE],
    [copies |-> {"host", "guest"}, policy |-> Allows("bidirectional", AllFormats), down |-> FALSE, sets |-> FALSE],
    [copies |-> {"host", "guest"}, policy |-> Allows("bidirectional", AllFormats), down |-> FALSE, sets |-> TRUE]}

-----------------------------------------------------------------------------
(* AgentChannel: four exchanges of two messages of data, an agent that     *)
(* comes late or dies.                                                     *)

MCChanMixes == {{"set", "get"}, {"set", "get", "dies"}, {"get", "late"}, {"set", "late"}, {"set", "late", "text"}}

-----------------------------------------------------------------------------
(* AddressResolver: two VMs, one asker, three lists of leases and two ARP  *)
(* tables.                                                                 *)

MCWays == {{"dhcp"}, {"arp"}, {"agent"}}
Lease(v, u) == [vm |-> v, until |-> u]
MCLeaseLists == {<<Lease("a", 1), Lease("b", 2)>>, <<Lease("a", 1), Lease("a", 3), Lease("a", 2)>>,
                 <<Lease("b", 2), Lease("a", 2)>>}
MCARPTables == {<<"incomplete", "b", "a">>, <<"b", "garbled", "a">>}

-----------------------------------------------------------------------------
(* GuestExec: two chunks of input, two outputs, two resizes, two messages  *)
(* under way in a direction.                                               *)

MCExecMixes == {{"input", "tty"}, {"input", "crash"}, {"input", "readfail"}, {"tty", "crash", "cancel"}, {"ssh"}}

-----------------------------------------------------------------------------
(* GuestMachine: four commands, six guest programs, six exits, three       *)
(* samples.                                                                *)

Does(o) == [op |-> o]
At(o, a) == [op |-> o, at |-> a]
MCPrograms == {
    <<At("load", "pl011"), At("msr", "cnthctl"), Does("alu"), At("mrs", "cnthctl"), At("store", "redist"), Does("b")>>,
    <<At("store", "pl011"), Does("hvc"), Does("wfi"), At("store", "fwcfg"), Does("spin")>>,
    <<At("load", "virtio0"), At("load", "virtio1"), At("load", "pcie"), At("load", "pl031"), At("load", "flash"),
      Does("noisv")>>,
    <<At("mrs", "other"), At("storerom", "rom"), At("msr", "other"), Does("undef"), Does("spin")>>,
    <<At("store", "pl011"), Does("b")>>,
    <<Does("alu"), Does("alu"), Does("b")>>}

-----------------------------------------------------------------------------
(* FirmwareDevices: four words of flash of two bits, three operations, two *)
(* items of configuration, five keys.                                      *)

MCPatterns == {{1}, {2}}
MCReadOnlyItems == << <<5, 6>>, <<7, 8, 9>> >>

-----------------------------------------------------------------------------
(* The components that stay as they begin do so in one state.              *)
AnyInit ==
    /\ GuestSideInit
    /\ On("clip") \/ clipmix = CHOOSE m \in ClipMixes : m.sets
    /\ On("channel") \/ chanmix = {"get", "late"}
    /\ On("address") \/ (leases.granted = <<Lease("b", 2), Lease("a", 2)>> /\ cwd = "a" /\ ways = {"dhcp"})
    /\ On("exec") \/ execmix = {"ssh"}
    /\ On("gm") \/ cmd.kind = "test"

AnyFairness ==
    /\ WF_clipvars(On("clip") /\ Clip!Sync)
    /\ WF_clipvars(On("clip") /\ Clip!GuestUp)
    /\ WF_channelvars(On("channel") /\ Chan!AgentServes)
    /\ WF_channelvars(On("channel") /\ Chan!HostReads)
    /\ WF_channelvars(On("channel") /\ (Chan!EnsureResident \/ Chan!NewSerial))
    /\ WF_addressvars(On("address") /\ Addr!SecondPasses)
    /\ \A a \in Askers : WF_addressvars(On("address") /\ Addr!Looks(a))
    /\ WF_xvars(On("exec") /\ (Dial \/ SendCommand))
    /\ WF_xvars(On("exec") /\ (Stdin \/ StdinEOF))
    /\ WF_xvars(On("exec") /\ TakeWinch)
    /\ WF_xvars(On("exec") /\ HandOver)
    /\ SF_xvars(On("exec") /\ Resize)
    /\ WF_xvars(On("exec") /\ (Recv \/ RecvFails))
    /\ WF_xvars(On("exec") /\ Running /\ done # <<>> /\ Return)
    /\ WF_xvars(On("exec") /\ ProxyDown)
    /\ WF_xvars(On("exec") /\ ProxyCloses)
    /\ WF_xvars(On("exec") /\ GuestTakes)
    /\ WF_gmvars(On("gm") /\ GM!Host)
    /\ WF_gmvars(On("gm") /\ GM!GuestRuns)
    /\ WF_gmvars(On("gm") /\ GM!Watchdog)
    /\ WF_fwvars(On("fw") /\ FW!Pump)
    /\ WF_fwvars(On("fw") /\ FW!ReadKey)
    /\ WF_fwvars(On("fw") /\ FW!DriveFlash)
    /\ WF_fwvars(On("fw") /\ FW!BackToArray)

AnySpec == AnyInit /\ [][GuestSideNext]_guestsidevars /\ AnyFairness

-----------------------------------------------------------------------------
(* What is copied arrives and a change of the policy takes effect; every   *)
(* exchange, request for an address and command ends; the guest's terminal *)
(* gets the size of the caller's.                                          *)
GuestSideSettles ==
    /\ On("clip") => Clip!HostCopiesArrive /\ Clip!GuestCopiesArrive /\ Clip!ChangesApply
    /\ On("channel") => Chan!ExchangesEnd
    /\ On("address") => Addr!RequestsEnd
    /\ On("exec") => ExecEnds /\ SizeSettles

(* Every command of the hypervisor ends; every key is read and the flash   *)
(* returns to its array.                                                   *)
MachinesEnd ==
    /\ On("gm") => GM!CommandsEnd
    /\ On("fw") => FW!ConsoleAndFlashEnd
=============================================================================
