SPECIFICATION FairSpec
CONSTANTS
  Threads = {t1, t2, t3}
  t1 = t1
  t2 = t2
  t3 = t3
  NoThread = NoThread
  Signalled = {t3}
  Inodes = {i1}
  MaxOffset = 2
  Requests <- ThreeThreads
  UnlockEmpty = FALSE
INVARIANTS
  Inv
  NoDeadlock
PROPERTIES
  ImplementsByteLocks
  LockCallEnds
CHECK_DEADLOCK FALSE
