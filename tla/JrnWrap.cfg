SPECIFICATION FairSpec
CONSTANTS
    LogSize = 6
    BufBlocks = 2
    NumBlocks = 2
    Calls = {"checkpoint", "file", "sync"}
    MaxCalls = 7
    MaxCrash = 0
INVARIANT Inv
INVARIANT LogHoldsUnflushed
PROPERTY StoreSpec
PROPERTY CallEnds
PROPERTY LogDrains
CHECK_DEADLOCK FALSE
