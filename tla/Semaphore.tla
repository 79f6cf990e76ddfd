------------------------------ MODULE Semaphore ------------------------------
(***************************************************************************)
(* Kernel semaphores: kernel/kernel/sema.c with the wait queues, the sleep *)
(* list and the wake-up functions of kernel/kernel/schedule.c and the      *)
(* signal delivery of kernel/kernel/psignals.c that they are built on.     *)
(*                                                                         *)
(* g_sSemListSpinLock is a macro for g_sSchedSpinLock, so every stretch of *)
(* code between taking and releasing that one spinlock is a single step    *)
(* here, whichever CPU it runs on.  A blocking call is therefore two or    *)
(* more steps: the stretch that ends in Schedule() and the stretch that    *)
(* starts when the thread is dispatched again.                             *)
(*                                                                         *)
(* One kernel object serves three purposes, which its documentation says   *)
(* must not be mixed: a mutex (count 1, released by the thread that holds  *)
(* it), a counting semaphore (released by anybody) and a wait queue (the   *)
(* counter is ignored).  The constants say which handle is used as what.   *)
(***************************************************************************)
EXTENDS Integers, Sequences, FiniteSets, WaitQueue

CONSTANTS
  Threads,      \* thread ids
  NoThread,     \* the -1 of ss_hHolder
  Mutexes,      \* handles used as mutexes
  Counters,     \* handles used as counting semaphores
  WaitQueues,   \* handles used as wait queues
  Recursive,    \* handles created with SEM_REQURSIVE
  InitCount,    \* the nCount a counting semaphore is created with
  Counts,       \* the nCount arguments used on counting semaphores
  MaxCount,     \* bound on |ss_lNestCount|: recursion depth, pending posts
  Timeouts,     \* the nTimeOut arguments used, a subset of TimeoutKinds
  LockFlags,    \* the nFlags of lock_semaphore, a subset of FlagKinds
  MutexFlags,   \* the bIgnoreSignals of lock_mutex, a subset of FlagKinds
  Lockers,      \* threads that take counting semaphores
  Calls         \* the system calls and events of the environment

TimeoutKinds == {"zero", "finite", "INFINITE_TIMEOUT"}
FlagKinds    == {"SEM_NOSIG", "none"}
Semas        == Mutexes \cup Counters \cup WaitQueues

ASSUME KindsDisjoint ==
  /\ Mutexes \cap Counters = {}
  /\ Mutexes \cap WaitQueues = {}
  /\ Counters \cap WaitQueues = {}
ASSUME ConstantTypes ==
  /\ NoThread \notin Threads
  /\ Recursive \subseteq Semas
  /\ InitCount \in Int
  /\ Counts \subseteq Nat \ {0}
  /\ MaxCount \in Nat
  /\ Timeouts \subseteq TimeoutKinds
  /\ LockFlags \subseteq FlagKinds
  /\ MutexFlags \subseteq FlagKinds
  /\ Lockers \subseteq Threads

VARIABLES
  table,           \* what get_semaphore_by_handle finds, and the memory behind it
  ss_lNestCount,   \* the counter
  ss_hHolder,      \* the last thread that locked it, or NoThread
  ss_psWaitQueue,  \* the ring of wait nodes, head first
  tr_nState,       \* scheduler state of a thread
  sleepers,        \* threads with a node in g_psFirstSleeping's list
  deadline,        \* where a thread's nResumeTime lies relative to now
  tr_nSigPend,     \* threads with a pending signal they do not block
  cause,           \* history: what made a TS_READY thread ready
  pc,              \* the call a thread is in, and how far
  arg,             \* its arguments and, on return, its result
  held,            \* history: how often a thread holds a mutex
  stale,           \* history: nodes left in a ring by a returned caller
  faults           \* history: a dead wait node was accessed

semVars    == <<table, ss_lNestCount, ss_hHolder, ss_psWaitQueue>>
threadVars == <<tr_nState, sleepers, deadline, tr_nSigPend, cause, pc, arg>>
histVars   == <<held, stale, faults>>
vars       == <<semVars, threadVars, histVars>>

TableStates  == {"free", "live", "unlinked", "freed"}
ThreadStates == {"TS_RUN", "TS_READY", "TS_WAIT", "TS_SLEEP"}
Blocked      == {"TS_WAIT", "TS_SLEEP"}
Deadlines    == {"ahead", "due", "past"}
Causes       == {"none", "queue", "timer", "signal"}
Errors       == {"0", "EINVAL", "EWOULDBLOCK", "ETIME", "EINTR"}
FaultKinds   == {"dangling_node"}
Places       == {"idle", "return", "lock", "lock_mutex", "sleep", "spin",
                 "uas_unlock", "uas", "delete"}
NoSema       == "no semaphore"

\* The arguments of a call; hUnlock is the semaphore unlock_and_suspend
\* releases, nError the result so far.
Args == [hSema: Semas \cup {NoSema}, nCount: Nat, nFlags: FlagKinds,
         nTimeOut: TimeoutKinds, hUnlock: Semas \cup {NoSema}, nError: Errors]
NoArg == [hSema |-> NoSema, nCount |-> 0, nFlags |-> "none",
          nTimeOut |-> "zero", hUnlock |-> NoSema, nError |-> "0"]

Init ==
  /\ table = [s \in Semas |-> "free"]
  /\ ss_lNestCount = [s \in Semas |-> 0]
  /\ ss_hHolder = [s \in Semas |-> NoThread]
  /\ ss_psWaitQueue = [s \in Semas |-> <<>>]
  /\ tr_nState = [t \in Threads |-> "TS_RUN"]
  /\ sleepers = {}
  /\ deadline = [t \in Threads |-> "ahead"]
  /\ tr_nSigPend = {}
  /\ cause = [t \in Threads |-> "none"]
  /\ pc = [t \in Threads |-> "idle"]
  /\ arg = [t \in Threads |-> NoArg]
  /\ held = [s \in Mutexes |-> [t \in Threads |-> 0]]
  /\ stale = [s \in Semas |-> {}]
  /\ faults = {}

-----------------------------------------------------------------------------
(* Wait queues and thread states (schedule.c).                             *)

\* The threads wake_up_queue moves to the ready list.  Their nodes stay in
\* the ring until they run; a thread that is already ready is passed over.
wake_up_queue(q, bAll) ==
  {t \in (IF bAll THEN Members(q) ELSE IF q = <<>> THEN {} ELSE {Head(q)}) :
      tr_nState[t] \in Blocked}

\* add_thread_to_ready for each thread of W, woken by why.
MakeReady(W, why) ==
  /\ tr_nState' = [u \in Threads |-> IF u \in W THEN "TS_READY" ELSE tr_nState[u]]
  /\ cause' = [u \in Threads |-> IF u \in W THEN why ELSE cause[u]]

\* The same while thread t itself enters scheduler state st.
MakeReadyAnd(W, t, st) ==
  /\ tr_nState' = [u \in Threads |-> IF u = t THEN st
                                     ELSE IF u \in W THEN "TS_READY" ELSE tr_nState[u]]
  /\ cause' = [u \in Threads |-> IF u = t THEN "none"
                                 ELSE IF u \in W THEN "queue" ELSE cause[u]]

-----------------------------------------------------------------------------
(* Entering, blocking in and leaving a call.                               *)

\* Thread t can make a call.
Caller(t, call) ==
  /\ call \in Calls
  /\ pc[t] = "idle"
  /\ tr_nState[t] = "TS_RUN"

\* Thread t was made ready in call and is dispatched again.
Resumed(t, call) ==
  /\ pc[t] = call
  /\ tr_nState[t] = "TS_READY"

\* Mutant: the sleep node is left in the list when the call returns.
Return_KeepsSleepNode(t, nError) ==
  /\ pc' = [pc EXCEPT ![t] = "return"]
  /\ arg' = [arg EXCEPT ![t] = [NoArg EXCEPT !.nError = nError]]
  /\ deadline' = [deadline EXCEPT ![t] = "ahead"]
  /\ sleepers' = sleepers

\* The call of t ends with nError; its sleep node, if any, is unlinked.
Return(t, nError) ==
  /\ pc' = [pc EXCEPT ![t] = "return"]
  /\ arg' = [arg EXCEPT ![t] = [NoArg EXCEPT !.nError = nError]]
  /\ deadline' = [deadline EXCEPT ![t] = "ahead"]
  /\ sleepers' = sleepers \ {t}

\* Thread t, whose deadline is d, blocks at place with arguments a, on queue
\* q of semaphore a.hSema.
Block(t, place, a, d, q) ==
  /\ ss_psWaitQueue' = [ss_psWaitQueue EXCEPT ![a.hSema] = add_to_waitlist(q, t)]
  /\ MakeReadyAnd({}, t, IF a.nTimeOut = "INFINITE_TIMEOUT" THEN "TS_WAIT" ELSE "TS_SLEEP")
  /\ sleepers' = IF a.nTimeOut = "INFINITE_TIMEOUT" THEN sleepers \ {t} ELSE sleepers \cup {t}
  /\ pc' = [pc EXCEPT ![t] = place]
  /\ arg' = [arg EXCEPT ![t] = a]
  /\ deadline' = [deadline EXCEPT ![t] = d]

\* get_system_time() at the start of a call with a timeout: a short one may
\* be over before the code looks at the clock again.
FirstDeadline(nTimeOut) == IF nTimeOut = "finite" THEN {"ahead", "past"} ELSE {"ahead"}

\* A call on a handle get_semaphore_by_handle does not know.
InvalidHandle(t, s) ==
  /\ table[s] # "live"
  /\ Return(t, "EINVAL")
  /\ MakeReadyAnd({}, t, "TS_RUN")
  /\ UNCHANGED <<semVars, tr_nSigPend, histVars>>

\* A blocked call finds its semaphore deleted: it returns without unlinking
\* its node, which lives in the stack frame that is about to go away.
DeletedWhileBlocked(t) ==
  /\ table[arg[t].hSema] # "live"
  /\ Return(t, "EINVAL")
  /\ MakeReadyAnd({}, t, "TS_RUN")
  /\ stale' = [stale EXCEPT ![arg[t].hSema] =
                 IF table[arg[t].hSema] = "unlinked" THEN @ \cup {t} ELSE @]
  /\ UNCHANGED <<semVars, tr_nSigPend, held, faults>>

\* A thread goes on to its next call.
LeaveCall(t) ==
  /\ pc[t] = "return"
  /\ pc' = [pc EXCEPT ![t] = "idle"]
  /\ arg' = [arg EXCEPT ![t] = NoArg]
  /\ UNCHANGED <<semVars, tr_nState, sleepers, deadline, tr_nSigPend, cause, histVars>>

-----------------------------------------------------------------------------
(* Creation and deletion.                                                  *)

create_semaphore(t, s) ==
  /\ Caller(t, "create")
  /\ table[s] = "free"
  /\ LET nCount == IF s \in Counters THEN InitCount ELSE 1 IN
     /\ ss_lNestCount' = [ss_lNestCount EXCEPT ![s] = nCount]
     /\ ss_hHolder' = [ss_hHolder EXCEPT ![s] =
                         IF s \in Recursive /\ nCount <= 0 THEN t ELSE NoThread]
  /\ table' = [table EXCEPT ![s] = "live"]
  /\ UNCHANGED <<ss_psWaitQueue, threadVars, histVars>>

\* do_delete_semaphore removes the handle under the spinlock ...
unlink_semaphore(t, s) ==
  /\ table[s] = "live"
  /\ table' = [table EXCEPT ![s] = "unlinked"]
  /\ held' = [m \in Mutexes |-> IF m = s THEN [u \in Threads |-> 0] ELSE held[m]]
  /\ pc' = [pc EXCEPT ![t] = "delete"]
  /\ arg' = [arg EXCEPT ![t] = [NoArg EXCEPT !.hSema = s]]
  /\ UNCHANGED <<ss_lNestCount, ss_hHolder, ss_psWaitQueue, tr_nState, sleepers,
                 deadline, tr_nSigPend, cause, stale, faults>>

delete_semaphore(t, s) ==
  /\ Caller(t, "delete")
  /\ InvalidHandle(t, s) \/ unlink_semaphore(t, s)

\* Mutant: the semaphore is freed without waking those who wait for it.
delete_wakes_none(t) ==
  /\ pc[t] = "delete"
  /\ LET s == arg[t].hSema IN
     /\ table' = [table EXCEPT ![s] = "freed"]
     /\ ss_psWaitQueue' = [ss_psWaitQueue EXCEPT ![s] = <<>>]
     /\ stale' = [stale EXCEPT ![s] = {}]
  /\ Return(t, "0")
  /\ UNCHANGED <<ss_lNestCount, ss_hHolder, tr_nState, cause, tr_nSigPend, held, faults>>

\* ... releases it, and only then walks the ring to wake the waiters and
\* frees the semaphore.  A node whose owner has returned meanwhile is dead
\* stack memory: what the walk does from there on is undefined.
delete_wakes(t) ==
  /\ pc[t] = "delete"
  /\ LET s == arg[t].hSema
         q == ss_psWaitQueue[s]
         Intact == {i \in 1..Len(q) : \A j \in 1..i : q[j] \notin stale[s]}
     IN
     /\ \E W \in SUBSET wake_up_queue(q, TRUE) :
          /\ {q[i] : i \in Intact} \cap wake_up_queue(q, TRUE) \subseteq W
          /\ stale[s] = {} => W = wake_up_queue(q, TRUE)
          /\ MakeReady(W, "queue")
     /\ faults' = IF stale[s] = {} THEN faults ELSE faults \cup {"dangling_node"}
     /\ table' = [table EXCEPT ![s] = "freed"]
     /\ ss_psWaitQueue' = [ss_psWaitQueue EXCEPT ![s] = <<>>]
     /\ stale' = [stale EXCEPT ![s] = {}]
  /\ Return(t, "0")
  /\ UNCHANGED <<ss_lNestCount, ss_hHolder, tr_nSigPend, held>>

-----------------------------------------------------------------------------
(* Mutexes and counting semaphores.                                        *)

\* The condition under which do_lock_semaphore_ex takes the semaphore.
Available(s, nCount, t) ==
  \/ ss_lNestCount[s] - nCount >= 0
  \/ s \in Recursive /\ ss_hHolder[s] = t

\* Mutant: the timeout is looked at after the counter was taken.
TryLock_LateTimeout(t, a, d, q) ==
  LET s == a.hSema IN
  \/ /\ Available(s, a.nCount, t)
     /\ ss_lNestCount' = [ss_lNestCount EXCEPT ![s] = @ - a.nCount]
     /\ ss_hHolder' = [ss_hHolder EXCEPT ![s] = t]
     /\ held' = IF s \in Mutexes THEN [held EXCEPT ![s][t] = @ + 1] ELSE held
     /\ ss_psWaitQueue' = [ss_psWaitQueue EXCEPT ![s] = q]
     /\ Return(t, IF a.nTimeOut = "finite" /\ d = "past" THEN "ETIME" ELSE "0")
     /\ MakeReadyAnd({}, t, "TS_RUN")
  \/ /\ ~Available(s, a.nCount, t)
     /\ \/ a.nTimeOut = "INFINITE_TIMEOUT"
        \/ a.nTimeOut = "finite" /\ d # "past"
     /\ Block(t, "lock", a, d, q)
     /\ UNCHANGED <<ss_lNestCount, ss_hHolder, held>>

\* One turn of the loop of do_lock_semaphore_ex: t, with deadline d, takes
\* the semaphore, gives up, or blocks; q is the ring without t's node.
TryLock(t, a, d, q) ==
  LET s == a.hSema IN
  \/ /\ Available(s, a.nCount, t)
     /\ ss_lNestCount' = [ss_lNestCount EXCEPT ![s] = @ - a.nCount]
     /\ ss_hHolder' = [ss_hHolder EXCEPT ![s] = t]
     /\ held' = IF s \in Mutexes THEN [held EXCEPT ![s][t] = @ + 1] ELSE held
     /\ ss_psWaitQueue' = [ss_psWaitQueue EXCEPT ![s] = q]
     /\ Return(t, "0")
     /\ MakeReadyAnd({}, t, "TS_RUN")
  \/ /\ ~Available(s, a.nCount, t)
     /\ \/ /\ a.nTimeOut = "zero"
           /\ Return(t, "EWOULDBLOCK")
        \/ /\ a.nTimeOut = "finite"
           /\ d = "past"
           /\ Return(t, "ETIME")
     /\ ss_psWaitQueue' = [ss_psWaitQueue EXCEPT ![s] = q]
     /\ MakeReadyAnd({}, t, "TS_RUN")
     /\ UNCHANGED <<ss_lNestCount, ss_hHolder, held>>
  \/ /\ ~Available(s, a.nCount, t)
     /\ \/ a.nTimeOut = "INFINITE_TIMEOUT"
        \/ a.nTimeOut = "finite" /\ d # "past"
     /\ Block(t, "lock", a, d, q)
     /\ UNCHANGED <<ss_lNestCount, ss_hHolder, held>>

\* How a client uses a handle: a mutex one at a time and not deeper than the
\* bound, a counting semaphore by its consumers.
MayLock(t, s, nCount) ==
  \/ s \in Mutexes /\ nCount = 1 /\ held[s][t] < MaxCount
  \/ s \in Counters /\ nCount \in Counts /\ t \in Lockers
     /\ ss_lNestCount[s] - nCount >= -MaxCount

lock_semaphore_ex(t, s, nCount, nFlags, nTimeOut) ==
  /\ Caller(t, "lock")
  /\ MayLock(t, s, nCount)
  /\ \/ InvalidHandle(t, s)
     \/ /\ table[s] = "live"
        /\ \E d \in FirstDeadline(nTimeOut) :
             TryLock(t, [NoArg EXCEPT !.hSema = s, !.nCount = nCount, !.nFlags = nFlags,
                                      !.nTimeOut = nTimeOut], d, ss_psWaitQueue[s])
        /\ UNCHANGED <<table, tr_nSigPend, stale, faults>>

\* Mutant: an interrupted waiter does not tell the next one.
lock_semaphore_resume_silent(t) ==
  /\ Resumed(t, "lock")
  /\ LET a == arg[t]
         q == remove_from_waitlist(ss_psWaitQueue[a.hSema], t)
     IN
     \/ DeletedWhileBlocked(t)
     \/ /\ table[a.hSema] = "live"
        /\ a.nFlags = "none" /\ t \in tr_nSigPend
        /\ ss_psWaitQueue' = [ss_psWaitQueue EXCEPT ![a.hSema] = q]
        /\ MakeReadyAnd({}, t, "TS_RUN")
        /\ Return(t, "EINTR")
        /\ UNCHANGED <<table, ss_lNestCount, ss_hHolder, tr_nSigPend, histVars>>
     \/ /\ table[a.hSema] = "live"
        /\ a.nFlags = "SEM_NOSIG" \/ t \notin tr_nSigPend
        /\ TryLock(t, a, deadline[t], q)
        /\ UNCHANGED <<table, tr_nSigPend, stale, faults>>

\* The rest of the loop body, after Schedule() returns.
lock_semaphore_resume(t) ==
  /\ Resumed(t, "lock")
  /\ LET a == arg[t]
         q == remove_from_waitlist(ss_psWaitQueue[a.hSema], t)
     IN
     \/ DeletedWhileBlocked(t)
     \/ /\ table[a.hSema] = "live"
        /\ a.nFlags = "none" /\ t \in tr_nSigPend
        /\ ss_psWaitQueue' = [ss_psWaitQueue EXCEPT ![a.hSema] = q]
        /\ MakeReadyAnd(wake_up_queue(q, FALSE), t, "TS_RUN")
        /\ Return(t, "EINTR")
        /\ UNCHANGED <<table, ss_lNestCount, ss_hHolder, tr_nSigPend, histVars>>
     \/ /\ table[a.hSema] = "live"
        /\ a.nFlags = "SEM_NOSIG" \/ t \notin tr_nSigPend
        /\ TryLock(t, a, deadline[t], q)
        /\ UNCHANGED <<table, tr_nSigPend, stale, faults>>

\* Mutant: the holder is not reset when the mutex becomes free.
Release_KeepsHolder(s, nCount) ==
  LET n == ss_lNestCount[s] + nCount IN
  /\ ss_lNestCount' = [ss_lNestCount EXCEPT ![s] = n]
  /\ MakeReady(IF n > 0 THEN wake_up_queue(ss_psWaitQueue[s], nCount > 1) ELSE {}, "queue")
  /\ UNCHANGED ss_hHolder

\* Mutant: off by one in the test that decides whether to wake.
Release_OffByOne(s, nCount) ==
  LET n == ss_lNestCount[s] + nCount IN
  /\ ss_lNestCount' = [ss_lNestCount EXCEPT ![s] = n]
  /\ ss_hHolder' = [ss_hHolder EXCEPT ![s] = IF n > 0 THEN NoThread ELSE @]
  /\ MakeReady(IF n > 1 THEN wake_up_queue(ss_psWaitQueue[s], nCount > 1) ELSE {}, "queue")

\* do_unlock_semaphore_ex once the handle is found; every thread in the ring
\* is made ready when more than one count is returned.
Release(s, nCount) ==
  LET n == ss_lNestCount[s] + nCount IN
  /\ ss_lNestCount' = [ss_lNestCount EXCEPT ![s] = n]
  /\ ss_hHolder' = [ss_hHolder EXCEPT ![s] = IF n > 0 THEN NoThread ELSE @]
  /\ MakeReady(IF n > 0 THEN wake_up_queue(ss_psWaitQueue[s], nCount > 1) ELSE {}, "queue")

\* A client releases a mutex it holds or one that is gone, and posts to any
\* counting semaphore.
MayUnlock(t, s, nCount) ==
  \/ s \in Mutexes /\ nCount = 1 /\ (table[s] = "live" => held[s][t] > 0)
  \/ s \in Counters /\ nCount \in Counts /\ ss_lNestCount[s] + nCount <= MaxCount

unlock_semaphore_ex(t, s, nCount) ==
  /\ Caller(t, "unlock")
  /\ MayUnlock(t, s, nCount)
  /\ \/ InvalidHandle(t, s)
     \/ /\ table[s] = "live"
        /\ Release(s, nCount)
        /\ held' = IF s \in Mutexes THEN [held EXCEPT ![s][t] = @ - 1] ELSE held
        /\ Return(t, "0")
        /\ UNCHANGED <<table, ss_psWaitQueue, tr_nSigPend, stale, faults>>

\* One turn of the loop of lock_mutex, which neither looks at nor sets the
\* holder; q is the ring without t's node.
TryMutex(t, a, q) ==
  LET s == a.hSema IN
  \/ /\ ss_lNestCount[s] > 0
     /\ ss_lNestCount' = [ss_lNestCount EXCEPT ![s] = @ - 1]
     /\ held' = [held EXCEPT ![s][t] = @ + 1]
     /\ ss_psWaitQueue' = [ss_psWaitQueue EXCEPT ![s] = q]
     /\ Return(t, "0")
     /\ MakeReadyAnd({}, t, "TS_RUN")
  \/ /\ ss_lNestCount[s] <= 0
     /\ Block(t, "lock_mutex", a, "ahead", q)
     /\ UNCHANGED <<ss_lNestCount, held>>

\* lock_mutex does not test the result of get_semaphore_by_handle the first
\* time: with an unknown handle it reads through a null pointer, which is taken
\* as the EINVAL the caller was meant to get.
lock_mutex(t, s, nFlags) ==
  /\ Caller(t, "lock_mutex")
  /\ s \in Mutexes /\ held[s][t] < MaxCount
  /\ \/ /\ table[s] # "live"
        /\ Return(t, "EINVAL")
        /\ UNCHANGED <<semVars, tr_nState, cause, tr_nSigPend, histVars>>
     \/ /\ table[s] = "live"
        /\ TryMutex(t, [NoArg EXCEPT !.hSema = s, !.nCount = 1, !.nFlags = nFlags,
                                     !.nTimeOut = "INFINITE_TIMEOUT"], ss_psWaitQueue[s])
        /\ UNCHANGED <<table, ss_hHolder, tr_nSigPend, stale, faults>>

\* After Schedule(): unlike do_lock_semaphore_ex, an interrupted lock_mutex
\* leaves its loop before the wake_up_queue of the next waiter.
lock_mutex_resume(t) ==
  /\ Resumed(t, "lock_mutex")
  /\ LET a == arg[t]
         q == remove_from_waitlist(ss_psWaitQueue[a.hSema], t)
     IN
     \/ DeletedWhileBlocked(t)
     \/ /\ table[a.hSema] = "live"
        /\ a.nFlags = "none" /\ t \in tr_nSigPend
        /\ ss_psWaitQueue' = [ss_psWaitQueue EXCEPT ![a.hSema] = q]
        /\ MakeReadyAnd({}, t, "TS_RUN")
        /\ Return(t, "EINTR")
        /\ UNCHANGED <<table, ss_lNestCount, ss_hHolder, tr_nSigPend, histVars>>
     \/ /\ table[a.hSema] = "live"
        /\ a.nFlags = "SEM_NOSIG" \/ t \notin tr_nSigPend
        /\ TryMutex(t, a, q)
        /\ UNCHANGED <<table, ss_hHolder, tr_nSigPend, stale, faults>>

unlock_mutex(t, s) ==
  /\ Caller(t, "lock_mutex")
  /\ MayUnlock(t, s, 1) /\ s \in Mutexes
  /\ \/ InvalidHandle(t, s)
     \/ /\ table[s] = "live"
        /\ Release(s, 1)
        /\ held' = [held EXCEPT ![s][t] = @ - 1]
        /\ Return(t, "0")
        /\ UNCHANGED <<table, ss_psWaitQueue, tr_nSigPend, stale, faults>>

-----------------------------------------------------------------------------
(* Wait queues.                                                            *)

sleep_on_sem(t, s, nTimeOut) ==
  /\ Caller(t, "sleep")
  /\ s \in WaitQueues
  /\ \/ InvalidHandle(t, s)
     \/ /\ table[s] = "live"
        /\ \E d \in FirstDeadline(nTimeOut) :
             \/ /\ nTimeOut = "zero" \/ d = "past"
                /\ Return(t, "ETIME")
                /\ UNCHANGED <<ss_psWaitQueue, tr_nState, cause>>
             \/ /\ nTimeOut # "zero" /\ d # "past"
                /\ Block(t, "sleep", [NoArg EXCEPT !.hSema = s, !.nTimeOut = nTimeOut],
                         d, ss_psWaitQueue[s])
        /\ UNCHANGED <<table, ss_lNestCount, ss_hHolder, tr_nSigPend, histVars>>

\* sleep_on_sem after Schedule(): the result is 0 whatever woke the thread.
sleep_on_sem_resume(t) ==
  /\ Resumed(t, "sleep")
  /\ LET s == arg[t].hSema IN
     \/ DeletedWhileBlocked(t)
     \/ /\ table[s] = "live"
        /\ ss_psWaitQueue' = [ss_psWaitQueue EXCEPT ![s] = remove_from_waitlist(@, t)]
        /\ MakeReadyAnd({}, t, "TS_RUN")
        /\ Return(t, "0")
        /\ UNCHANGED <<table, ss_lNestCount, ss_hHolder, tr_nSigPend, histVars>>

wakeup_sem(t, s, bAll) ==
  /\ Caller(t, "wakeup")
  /\ s \in WaitQueues
  /\ \/ InvalidHandle(t, s)
     \/ /\ table[s] = "live"
        /\ MakeReady(wake_up_queue(ss_psWaitQueue[s], bAll), "queue")
        /\ Return(t, "0")
        /\ UNCHANGED <<semVars, tr_nSigPend, histVars>>

\* The driver's spinlock is held by the caller, so the driver's interrupt
\* handler is kept out until the node is in the ring; a timeout of 0 is a
\* short timeout here.
spinunlock_and_suspend(t, s, nTimeOut) ==
  /\ Caller(t, "spin")
  /\ s \in WaitQueues
  /\ \/ InvalidHandle(t, s)
     \/ /\ table[s] = "live"
        /\ nTimeOut # "zero"
        /\ \E d \in FirstDeadline(nTimeOut) :
             \/ /\ d = "past"
                /\ Return(t, "ETIME")
                /\ UNCHANGED <<ss_psWaitQueue, tr_nState, cause>>
             \/ /\ d # "past"
                /\ Block(t, "spin", [NoArg EXCEPT !.hSema = s, !.nTimeOut = nTimeOut],
                         d, ss_psWaitQueue[s])
        /\ UNCHANGED <<table, ss_lNestCount, ss_hHolder, tr_nSigPend, histVars>>

\* Mutant: an interrupted wait returns without unlinking its node.
spinunlock_and_suspend_resume_early(t) ==
  /\ Resumed(t, "spin")
  /\ LET s == arg[t].hSema IN
     \/ DeletedWhileBlocked(t)
     \/ /\ table[s] = "live"
        /\ ss_psWaitQueue' = [ss_psWaitQueue EXCEPT ![s] =
                                IF t \in tr_nSigPend THEN @ ELSE remove_from_waitlist(@, t)]
        /\ MakeReadyAnd({}, t, "TS_RUN")
        /\ Return(t, IF t \in tr_nSigPend THEN "EINTR"
                     ELSE IF deadline[t] = "past" THEN "ETIME" ELSE "0")
        /\ UNCHANGED <<table, ss_lNestCount, ss_hHolder, tr_nSigPend, histVars>>

spinunlock_and_suspend_resume(t) ==
  /\ Resumed(t, "spin")
  /\ LET s == arg[t].hSema IN
     \/ DeletedWhileBlocked(t)
     \/ /\ table[s] = "live"
        /\ ss_psWaitQueue' = [ss_psWaitQueue EXCEPT ![s] = remove_from_waitlist(@, t)]
        /\ MakeReadyAnd({}, t, "TS_RUN")
        /\ Return(t, IF t \in tr_nSigPend THEN "EINTR"
                     ELSE IF deadline[t] = "past" THEN "ETIME" ELSE "0")
        /\ UNCHANGED <<table, ss_lNestCount, ss_hHolder, tr_nSigPend, histVars>>

\* unlock_and_suspend puts the caller in the ring of h under the spinlock ...
unlock_and_suspend(t, h, s) ==
  /\ Caller(t, "suspend")
  /\ h \in WaitQueues /\ s \in Mutexes /\ held[s][t] > 0
  /\ \/ InvalidHandle(t, h)
     \/ /\ table[h] = "live"
        /\ Block(t, "uas_unlock", [NoArg EXCEPT !.hSema = h, !.hUnlock = s,
                                                !.nTimeOut = "INFINITE_TIMEOUT"],
                 "ahead", ss_psWaitQueue[h])
        /\ UNCHANGED <<table, ss_lNestCount, ss_hHolder, tr_nSigPend, histVars>>

\* ... then, still on its CPU, calls unlock_semaphore( hSema ) and Schedule().
\* The mutex may have been deleted by then.
unlock_and_suspend_unlocks(t) ==
  /\ pc[t] = "uas_unlock"
  /\ LET s == arg[t].hUnlock IN
     /\ \/ /\ table[s] = "live" /\ held[s][t] > 0
           /\ Release(s, 1)
           /\ held' = [held EXCEPT ![s][t] = @ - 1]
           /\ arg' = [arg EXCEPT ![t].hUnlock = NoSema]
        \/ /\ table[s] # "live"
           /\ arg' = [arg EXCEPT ![t].hUnlock = NoSema, ![t].nError = "EINVAL"]
           /\ UNCHANGED <<ss_lNestCount, ss_hHolder, tr_nState, cause, held>>
  /\ pc' = [pc EXCEPT ![t] = "uas"]
  /\ UNCHANGED <<table, ss_psWaitQueue, sleepers, deadline, tr_nSigPend, stale, faults>>

\* After Schedule() the pointer fetched before it is used again, without
\* asking whether the wait queue still exists: the writes into freed memory
\* are left out.
unlock_and_suspend_resume(t) ==
  /\ Resumed(t, "uas")
  /\ LET h == arg[t].hSema IN
     \/ /\ table[h] \in {"live", "unlinked"}
        /\ ss_psWaitQueue' = [ss_psWaitQueue EXCEPT ![h] = remove_from_waitlist(@, t)]
        /\ faults' = IF stale[h] = {} THEN faults ELSE faults \cup {"dangling_node"}
     \/ /\ table[h] = "freed"
        /\ UNCHANGED <<ss_psWaitQueue, faults>>
  /\ MakeReadyAnd({}, t, "TS_RUN")
  /\ Return(t, IF arg[t].nError = "0" /\ t \in tr_nSigPend THEN "EINTR" ELSE arg[t].nError)
  /\ UNCHANGED <<table, ss_lNestCount, ss_hHolder, tr_nSigPend, held, stale>>

-----------------------------------------------------------------------------
(* Signals and time.                                                       *)

\* send_signal, from any thread.  A signal t does not block becomes pending;
\* another one of a kind that is pending already, or a SIGCHLD that t blocks,
\* only wakes it.
send_signal(t) ==
  /\ "signal" \in Calls
  /\ tr_nSigPend' \in {tr_nSigPend, tr_nSigPend \cup {t}}
  /\ MakeReady({t} \cap {u \in Threads : tr_nState[u] \in Blocked}, "signal")
  /\ UNCHANGED <<semVars, sleepers, deadline, pc, arg, histVars>>

\* handle_signals on the way back to user mode.
handle_signals(t) ==
  /\ pc[t] = "idle"
  /\ t \in tr_nSigPend
  /\ tr_nSigPend' = tr_nSigPend \ {t}
  /\ UNCHANGED <<semVars, tr_nState, sleepers, deadline, cause, pc, arg, histVars>>

\* The clock reaches, then passes, the resume time of t.
TimePasses(t) ==
  /\ arg[t].nTimeOut = "finite"
  /\ deadline[t] # "past"
  /\ deadline' = [deadline EXCEPT ![t] = IF @ = "ahead" THEN "due" ELSE "past"]
  /\ UNCHANGED <<semVars, tr_nState, sleepers, tr_nSigPend, cause, pc, arg, histVars>>

\* Mutant: the walk stops after the first thread it wakes, with all due nodes
\* already unlinked.
wake_up_sleepers_first ==
  LET Due == {t \in sleepers : deadline[t] # "ahead"} IN
  /\ Due # {}
  /\ sleepers' = sleepers \ Due
  /\ MakeReady({CHOOSE t \in Due : TRUE} \cap {t \in Due : tr_nState[t] = "TS_SLEEP"}, "timer")
  /\ UNCHANGED <<semVars, deadline, tr_nSigPend, pc, arg, histVars>>

\* The timer interrupt unlinks every sleep node whose time has come and
\* makes its thread ready if it is still asleep.
wake_up_sleepers ==
  LET Due == {t \in sleepers : deadline[t] # "ahead"} IN
  /\ Due # {}
  /\ sleepers' = sleepers \ Due
  /\ MakeReady({t \in Due : tr_nState[t] = "TS_SLEEP"}, "timer")
  /\ UNCHANGED <<semVars, deadline, tr_nSigPend, pc, arg, histVars>>

-----------------------------------------------------------------------------
Client(t) ==
  \/ \E s \in Semas :
       \/ create_semaphore(t, s)
       \/ delete_semaphore(t, s)
       \/ \E n \in Counts \cup {1}, f \in LockFlags, o \in Timeouts :
            lock_semaphore_ex(t, s, n, f, o)
       \/ \E n \in Counts \cup {1} : unlock_semaphore_ex(t, s, n)
       \/ \E f \in MutexFlags : lock_mutex(t, s, f)
       \/ unlock_mutex(t, s)
       \/ \E o \in Timeouts : sleep_on_sem(t, s, o) \/ spinunlock_and_suspend(t, s, o)
       \/ \E b \in BOOLEAN : wakeup_sem(t, s, b)
       \/ \E h \in WaitQueues : unlock_and_suspend(t, h, s)
  \/ LeaveCall(t)
  \/ handle_signals(t)

\* The steps a thread inside a call takes when it is given a CPU.
Continue(t) ==
  \/ lock_semaphore_resume(t)
  \/ lock_mutex_resume(t)
  \/ sleep_on_sem_resume(t)
  \/ spinunlock_and_suspend_resume(t)
  \/ unlock_and_suspend_unlocks(t)
  \/ unlock_and_suspend_resume(t)
  \/ delete_wakes(t)

Next ==
  \/ \E t \in Threads : Client(t) \/ Continue(t) \/ send_signal(t) \/ TimePasses(t)
  \/ wake_up_sleepers

Spec == Init /\ [][Next]_vars

\* The scheduler gives every ready thread a CPU and the timer keeps ticking.
Fairness ==
  /\ \A t \in Threads : WF_vars(Continue(t)) /\ WF_vars(LeaveCall(t)) /\ WF_vars(TimePasses(t))
  /\ WF_vars(wake_up_sleepers)

FairSpec == Spec /\ Fairness

-----------------------------------------------------------------------------
(* Properties.                                                             *)

\* The places in which a thread has a node in the ring of arg[t].hSema.
Waiting == {"lock", "lock_mutex", "sleep", "spin", "uas_unlock", "uas"}

\* The variables keep the types of the kernel's structures.
TypeOK ==
  /\ table \in [Semas -> TableStates]
  /\ ss_lNestCount \in [Semas -> Int]
  /\ ss_hHolder \in [Semas -> Threads \cup {NoThread}]
  /\ ss_psWaitQueue \in [Semas -> Seq(Threads)]
  /\ tr_nState \in [Threads -> ThreadStates]
  /\ sleepers \subseteq Threads
  /\ deadline \in [Threads -> Deadlines]
  /\ tr_nSigPend \subseteq Threads
  /\ cause \in [Threads -> Causes]
  /\ pc \in [Threads -> Places]
  /\ arg \in [Threads -> Args]
  /\ held \in [Mutexes -> [Threads -> Nat]]
  /\ stale \in [Semas -> SUBSET Threads]
  /\ faults \subseteq FaultKinds

\* A semaphore created with count 1 and released only by its holder is a
\* mutex: whatever timeouts, signals, recursion and deletions happen, no two
\* threads are between a successful lock and its unlock (do_lock_semaphore_ex,
\* lock_mutex and do_unlock_semaphore_ex keep ss_lNestCount and ss_hHolder
\* consistent with who is inside).
MutualExclusion ==
  \A s \in Mutexes : \A t, u \in Threads : held[s][t] > 0 /\ held[s][u] > 0 => t = u

\* The counter of a mutex is one minus the nesting depth of the one thread
\* inside, and ss_hHolder never names a thread that is not inside: a stale
\* holder would let do_lock_semaphore_ex admit a second thread to a recursive
\* mutex.  (lock_mutex leaves the holder unset.)
MutexCount ==
  \A s \in Mutexes :
    IF table[s] # "live" THEN \A t \in Threads : held[s][t] = 0
    ELSE \/ /\ ss_lNestCount[s] = 1 /\ ss_hHolder[s] = NoThread
            /\ \A t \in Threads : held[s][t] = 0
         \/ \E t \in Threads :
              /\ ss_hHolder[s] \in {t, NoThread}
              /\ held[s][t] = 1 - ss_lNestCount[s] /\ held[s][t] > 0
              /\ \A u \in Threads \ {t} : held[s][u] = 0

\* A mutex that is free is never waited for by sleepers only: the first waiter
\* of the ring has been made ready by whoever released it or gave up on it,
\* although wake_up_queue skips ready threads and woken threads may be
\* overtaken, interrupted or time out before they run.
NoLostWakeup ==
  \A s \in Mutexes :
    table[s] = "live" /\ ss_lNestCount[s] > 0 /\ ss_psWaitQueue[s] # <<>>
      => tr_nState[Head(ss_psWaitQueue[s])] \notin Blocked

\* The ring of a semaphore holds exactly one node for each thread blocked on
\* it and none for a thread that has returned, as long as the handle is valid:
\* the nodes are stack variables of the blocking calls.
RingMatchesCallers ==
  \A s \in Semas : table[s] = "live" =>
    LET q == ss_psWaitQueue[s] IN
    /\ Members(q) = {t \in Threads : pc[t] \in Waiting /\ arg[t].hSema = s}
    /\ \A i, j \in 1..Len(q) : q[i] = q[j] => i = j

\* What a thread inside a call knows about its arguments: the handle was valid
\* when the call began and is never handed out again, a mutex is asked for once,
\* lock_mutex has no timeout, and the wait functions sleep on wait queues only.
CallArgs ==
  \A t \in Threads :
    /\ pc[t] \in Waiting => arg[t].hSema \in Semas /\ table[arg[t].hSema] # "free"
    /\ pc[t] = "delete" => arg[t].hSema \in Semas /\ table[arg[t].hSema] \in {"unlinked", "freed"}
    /\ pc[t] = "lock" /\ arg[t].hSema \in Mutexes => arg[t].nCount = 1
    /\ pc[t] = "lock_mutex" => /\ arg[t].hSema \in Mutexes /\ arg[t].nFlags \in MutexFlags
                             /\ arg[t].nTimeOut = "INFINITE_TIMEOUT"
    /\ pc[t] = "uas_unlock" => arg[t].hUnlock \in Mutexes
    /\ pc[t] \in {"sleep", "spin", "uas_unlock", "uas"} => arg[t].hSema \in WaitQueues

\* A handle that was never handed out has an empty ring.
FreeUnused == \A s \in Semas : table[s] = "free" => ss_psWaitQueue[s] = <<>>

\* The inductive invariant behind the theorems of SemaphoreProofs.
Inv == TypeOK /\ CallArgs /\ FreeUnused /\ RingMatchesCallers /\ MutexCount

\* A node of the global sleep list belongs to a call with a timeout that has
\* not returned, and every thread in TS_SLEEP has one: no timer interrupt
\* touches a dead stack frame and no timed wait loses its timeout.
SleepListMatchesCallers ==
  /\ \A t \in sleepers : pc[t] \in {"lock", "sleep", "spin"} /\ arg[t].nTimeOut = "finite"
  /\ \A t \in Threads : tr_nState[t] = "TS_SLEEP" => t \in sleepers

\* A waiter of a counting semaphore whose request the counter could satisfy is
\* not left asleep with nobody on the way to the counter (create_semaphore's
\* comment: the thread is blocked until the counter becomes positive again).
\* The code keeps this for one consumer (ConsumerWoken of SemaphoreProofs) and
\* breaks it for two.
CounterNoLostWakeup ==
  \A s \in Counters : table[s] = "live" =>
    LET W == Members(ss_psWaitQueue[s]) IN
    (\E t \in W : tr_nState[t] \in Blocked /\ ss_lNestCount[s] >= arg[t].nCount)
      => \E t \in W : tr_nState[t] = "TS_READY"

\* Once delete_semaphore has freed a semaphore nobody is blocked on it
\* (delete_semaphore's comment: all threads blocked on it are waked up),
\* unless a walk met the node of a caller that had returned in the window
\* between the halves of do_delete_semaphore: from there on it is undefined
\* whom the walk wakes, and with two waiters one may be left asleep.
DeleteWakesAll ==
  "dangling_node" \notin faults =>
    \A t \in Threads :
      pc[t] \in Waiting /\ tr_nState[t] \in Blocked => table[arg[t].hSema] # "freed"

\* sleep_on_sem reports 0 only to a thread somebody woke or signalled, not to
\* one whose timeout ran out (its documented ETIME).
SleepReportsTimeout ==
  [][\A t \in Threads :
       pc[t] = "sleep" /\ pc'[t] = "return" /\ arg'[t].nError = "0" => cause[t] # "timer"]_vars

\* A thread that did not ask to ignore signals is not blocked in a lock call
\* while one is pending for it (lock_semaphore_ex's comment: blocked until it
\* can be acquired or a signal is caught).
SignalEndsWait ==
  \A t \in Threads :
    pc[t] \in {"lock", "lock_mutex"} /\ arg[t].nFlags = "none" /\ t \in tr_nSigPend
      => tr_nState[t] \notin Blocked

\* A lock call interrupted by a signal or timed out leaves the semaphore as it
\* found it, and one that returns 0 has taken exactly its count: the caller can
\* trust the result of do_lock_semaphore_ex whatever woke it in between.
LockResultIsTrue ==
  [][\A t \in Threads, s \in Mutexes :
       pc[t] = "lock" /\ pc'[t] = "return" /\ arg[t].hSema = s
         => (arg'[t].nError = "0" <=> held'[s][t] = held[s][t] + 1)]_vars

\* A wait with a timeout ends: do_lock_semaphore_ex, sleep_on_sem and
\* spinunlock_and_suspend return although the loop may put the thread back to
\* sleep when it is woken exactly at its resume time.
TimedWaitEnds ==
  \A t \in Threads :
    pc[t] \in {"lock", "sleep", "spin"} /\ arg[t].nTimeOut = "finite" ~> pc[t] = "return"

\* A free mutex with waiters is taken (or deserted, or deleted) again.
HandOff ==
  \A s \in Mutexes :
    table[s] = "live" /\ ss_lNestCount[s] > 0 /\ ss_psWaitQueue[s] # <<>>
      ~> table[s] # "live" \/ ss_lNestCount[s] <= 0 \/ ss_psWaitQueue[s] = <<>>

\* Whoever is blocked on a semaphore returns from its call once the semaphore
\* is deleted, whether a timeout or a signal gets there before the second half
\* of do_delete_semaphore or not; nothing is promised after a walk over the
\* node of a caller that has returned.
DeletedWaitEnds ==
  \A t \in Threads :
    pc[t] \in Waiting /\ table[arg[t].hSema] # "live"
      ~> pc[t] = "return" \/ "dangling_node" \in faults
=============================================================================
