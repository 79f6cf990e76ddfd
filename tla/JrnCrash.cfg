SPECIFICATION Spec
CONSTANTS
    LogSize = 12
    BufBlocks = 6
    NumBlocks = 2
    Calls = {"abort", "nomem", "sync", "unmount"}
    MaxCalls = 6
    MaxCrash = 2
INVARIANT ReplayReadsIndex
PROPERTY StoreSpec
PROPERTY SyncWritesEverything
CHECK_DEADLOCK FALSE
