SPECIFICATION FairSpec
CONSTANTS
  t1 = t1
  t2 = t2
  t3 = t3
  r1 = r1
  r2 = r2
  p1 = p1
  p2 = p2
  Threads = {t1, t2, t3}
  Procs = {r1, r2}
  NoProc = NoProc
  ProcOf <- MCProcOf
  Ports = {p1, p2}
  MayRead <- MCMayRead
  Signalled = {t2}
  Timeouts = {"zero", "finite"}
  MaxMsgs = 2
INVARIANTS Inv TokensCoverMessages MessageWakesReader
PROPERTIES DeletedGetEnds MessageReceived
CHECK_DEADLOCK FALSE
