SPECIFICATION MCSpec
CONSTANTS
    Names = {"a", "b"}
    Procs = {p1, p2, p3}
    Inodes = {1, 2, 3}
    Disks = {1, 2, 3}
    MACs = {1, 2, 3}
    None = None
    Ops = {"run", "persist"}
INVARIANTS
    LiveReportedRunning
CHECK_DEADLOCK FALSE
