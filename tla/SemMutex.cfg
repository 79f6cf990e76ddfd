SPECIFICATION Spec
CONSTANTS
  Threads = {t1, t2, t3}
  NoThread = NoThread
  Mutexes = {m}
  Counters = {}
  WaitQueues = {}
  Recursive = {m}
  InitCount = 1
  Counts = {1}
  MaxCount = 2
  Timeouts = {"finite", "INFINITE_TIMEOUT"}
  LockFlags = {"none"}
  MutexFlags = {"SEM_NOSIG"}
  Lockers = {}
  Calls = {"create", "lock", "unlock", "lock_mutex", "signal"}
SYMMETRY Sym
INVARIANTS MutualExclusion NoLostWakeup SleepListMatchesCallers
PROPERTIES LockResultIsTrue
CHECK_DEADLOCK FALSE
