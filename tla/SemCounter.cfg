SPECIFICATION Spec
CONSTANTS
  Threads = {t1, t2, t3}
  NoThread = NoThread
  Mutexes = {}
  Counters = {c}
  WaitQueues = {}
  Recursive = {}
  InitCount = 0
  Counts = {1}
  MaxCount = 3
  Timeouts = {"INFINITE_TIMEOUT"}
  LockFlags = {"none"}
  MutexFlags = {}
  Lockers = {t1, t2}
  Calls = {"create", "lock", "unlock"}
INVARIANT CounterNoLostWakeup
CHECK_DEADLOCK FALSE
