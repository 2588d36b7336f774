SPECIFICATION AnySpec
CONSTANTS
    c1 = c1
    c2 = c2
    w1 = w1
    w2 = w2
    d1 = d1
    d2 = d2
    Snaps = {s1, s2}
    Clients = {c1, c2}
    LastMachine = 3
    Moments = {1, 2, 3}
    None = None
    Mixes <- MCMixes
    NetLines <- MCNetLines
    LastTopology = 2
    NoMAC = "none"
    WindowsVMs = {w1, w2}
    RunOptions <- MCRunOptions
    Displays <- MCDisplays
    Killable = {w1}
    Nobody = Nobody
    Callers = {c1, c2}
    Asks <- MCAsks
    Images = {i1, i2}
    Started = {v1}
    LastServer = 2
    LastJob = 2
    LastOutput = 1
    LastChild = 1
    Drivers = {d1, d2}
    Roles <- MCRoles
    Places = {1, 2}
    Attempts = 3
    Retries = 2
    Boots = 2
    Probes = 2
    Posts = 1
    Turns = 5
    Kept = 4
    LastCall = 2
INVARIANTS
    MachineMatchesDisk
    SnapshotsWhole
    OneMachine
    
PROPERTIES
    DiskReplacedWhenStopped
    StopEndsRun
    NoneLeftPaused
    RevertsServed
