SPECIFICATION AnySpec
CONSTANTS
    Requests = {"r1"}
    MaxCopies = 2
    MaxDowns = 1
    MaxSets = 2
    Offers <- MCOffers
    Policies <- MCPolicies
    ClipMixes <- MCClipMixes
    MaxExchanges = 4
    MaxData = 2
    ChanMixes <- MCChanMixes
    VMs = {"a", "b"}
    Askers = {1}
    Ways <- MCWays
    LeaseLists <- MCLeaseLists
    ARPTables <- MCARPTables
    MaxTime = 2
    MaxWait = 1
    Chunks = 2
    Outputs = 2
    MaxWinch = 2
    Window = 2
    ExecMixes <- MCExecMixes
    Commands = {"test", "boot", "step", "snapshot"}
    Programs <- MCPrograms
    MaxExits = 6
    StuckSamples = 3
    Stalled = 3
    Words = 4
    Bits = {1, 2}
    Patterns <- MCPatterns
    ReadOnlyItems <- MCReadOnlyItems
    RamfbKey = 3
    InputCap = 2
    MaxFlashOps = 3
    MaxDMA = 3
    MaxKeys = 5
INVARIANTS
    
    AddrSafe
    ExecSafe
    
    DevicesSafe
PROPERTIES
    
    
    MachinesEnd
CHECK_DEADLOCK FALSE
