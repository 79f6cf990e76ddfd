SPECIFICATION Spec
CONSTANTS
    LogSize = 6
    BufBlocks = 2
    NumBlocks = 2
    Calls = {}
    MaxCalls = 4
    MaxCrash = 1
INVARIANT LogStaysInItsArea
CHECK_DEADLOCK FALSE
