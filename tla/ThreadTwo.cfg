SPECIFICATION Spec
CONSTANTS
  MaxThreads = 4
  MaxProcs = 3
  MultiThreaded = {3}
  PGroup <- TwoGroups
  WaitArgs <- OneWait
  Sent = {}
  Masks <- NoMasks
INVARIANTS FreedOnce
CHECK_DEADLOCK FALSE
