SPECIFICATION FairSpec
CONSTANTS
  u1 = u1
  u2 = u2
  f1 = f1
  f2 = f2
  Users = {u1, u2}
  Flushers = {f1, f2}
  NBlocks = 3
  Data = {0, 1}
  Garbage = Garbage
  BC_FLUSH_SIZE = 2
  MaxReadahead = 2
  Writes <- MetaAndFile
  Jobs <- FlushAndSync
  BadBlocks = {0}
  MaxCalls = 3
INVARIANTS Inv LastWriteKept
PROPERTIES Settles
CHECK_DEADLOCK FALSE
