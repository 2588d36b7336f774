SPECIFICATION ExclSpec
CONSTANTS
    Names = {"a", "b"}
    Procs = {p1, p2, p3}
    Inodes = {1, 2, 3, 4}
    Disks = {1, 2, 3, 4}
    MACs = {1, 2, 3, 4}
    None = None
    Ops = {"run", "suspend", "clone", "import", "kill"}
INVARIANTS
    OneMachinePerDisk
    IInv
PROPERTIES
    ImplementsDiskLease
VIEW StatelessView
SYMMETRY Symmetry
CHECK_DEADLOCK FALSE
