SPECIFICATION Spec
CONSTANTS
    Manifest <- MCManifest
    LayerSize = 2
    Concurrency = 2
    Zero = 0
    None = None
    Histories <- MCPushAndKill
    MaxEvents = 3
INVARIANT ImagesWhole
CHECK_DEADLOCK FALSE
