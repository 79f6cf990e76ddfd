SPECIFICATION FairSpec
CONSTANTS
  Threads = {t1, t2}
  NoThread = NoThread
  Mutexes = {m}
  Counters = {}
  WaitQueues = {w}
  Recursive = {m}
  InitCount = 1
  Counts = {1}
  MaxCount = 1
  Timeouts = {"finite", "INFINITE_TIMEOUT"}
  LockFlags = {"none"}
  MutexFlags = {"SEM_NOSIG"}
  Lockers = {}
  Calls = {"create", "delete", "lock", "unlock", "lock_mutex", "spin", "sleep", "wakeup", "suspend", "signal"}
INVARIANTS Inv DeleteWakesAll
PROPERTIES TimedWaitEnds HandOff DeletedWaitEnds
CHECK_DEADLOCK FALSE
