SPECIFICATION FairSpec
CONSTANTS
  MaxThreads = 3
  MaxProcs = 3
  MultiThreaded = {2}
  PGroup <- TwoGroups
  WaitArgs <- ManyWaits
  Sent = {"SIGSTOP", "SIGCONT"}
  Masks <- ThreeMasks
INVARIANTS Inv NobodyForgotten OnlyLastOutCloses
PROPERTIES OrphansCollected
CHECK_DEADLOCK FALSE
