SPECIFICATION AnySpec
CONSTANTS
    SnapOps = {o1, o2}
    SnapIds = {i1, i2, i3}
    SnapNames = {a, b, c}
    MaxSnapshots = 2
    SnapMoments = 3
    SnapMixes <- MCSnapMixes
    NoId = NoId
    DevRuns = {"r1", "r2"}
    Lines <- MCLines
    Means <- MCMeans
    KindOf <- MCKindOf
    HostVersions = {14, 15}
    MaxTemps = 2
    Creators = {1, 2}
    Answers = {"x", "y"}
    Places <- MCPlaces
    WMixes <- MCWMixes
    MaxTime = 4
    Settings <- MCSettings
    Overrides <- MCOverrides
    Clipboards <- MCClipboards
    Savers = {1, 2}
    Locations = {"a", "b"}
    Profiles = {"default", "work"}
    Legacy = "default"
    MaxSaves = 3
    SettingsMixes <- MCSettingsMixes
    Writers = {1, 2}
    Cap = 2
    MaxLines = 5
    LogMixes <- MCLogMixes
INVARIANTS
    
    DevSafe
    MediaSafe
    FilesSafe
CHECK_DEADLOCK FALSE
