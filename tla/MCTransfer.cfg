SPECIFICATION AnySpec
CONSTANTS
    Manifest <- MCManifest
    LayerSize = 2
    Concurrency = 2
    Zero = 0
    None = None
    Histories <- MCHistories
    MaxEvents = 4
INVARIANTS
    DiskSafe
    CacheSafe
    RegSafe
    
PROPERTIES
    CacheSteps
    
CHECK_DEADLOCK FALSE
