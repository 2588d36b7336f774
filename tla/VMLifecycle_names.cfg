SPECIFICATION MCSpec
CONSTANTS
    Names = {"a", "b"}
    Procs = {p1, p2}
    Inodes = {1, 2, 3, 4}
    Disks = {1, 2, 3, 4}
    MACs = {1, 2, 3, 4}
    None = None
    Ops = {"run", "stop", "suspend", "delete", "clone", "create", "import", "rename", "set", "persist", "kill"}
INVARIANTS
    NamesSafe
VIEW View
SYMMETRY Symmetry
CHECK_DEADLOCK FALSE
