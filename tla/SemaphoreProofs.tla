--------------------------- MODULE SemaphoreProofs ---------------------------
(***************************************************************************)
(* Proofs about Semaphore for every set of threads and handles: type       *)
(* correctness, the agreement of rings, sleep list and blocked calls,      *)
(* mutual exclusion, the absence of lost wake-ups, what a lock call        *)
(* returns, and what deletion does to the threads that wait.               *)
(*                                                                         *)
(* The invariant Inv is proved in three layers, each using the ones before *)
(* it: the types (TypeStep); what a blocked call knows and which ring it   *)
(* is in (CallingStep); the counter and holder of each mutex (MutexStep).  *)
(* NoLostWakeup then follows by one more induction on top of Inv           *)
(* (WakeStep), and so do the sleep list (SleepStep), deletion              *)
(* (DeletedStep) and the counting semaphore (FedStep).  Each               *)
(* layer has one lemma per group of actions and a frame lemma for the      *)
(* semaphores and threads an action does not touch.                        *)
(***************************************************************************)
EXTENDS Semaphore, TLAPS

-----------------------------------------------------------------------------
(* Rings.                                                                  *)

\* Unlinking a node leaves a ring of threads.
LEMMA RemoveType ==
  ASSUME NEW q \in Seq(Threads), NEW t \in Threads
  PROVE  remove_from_waitlist(q, t) \in Seq(Threads)
<1> DEFINE i == CHOOSE i \in 1..Len(q) : q[i] = t
           r == [j \in 1..(Len(q) - 1) |-> IF j < i THEN q[j] ELSE q[j + 1]]
<1>1. CASE q = <<>>
  <2>1. 1..(Len(q) - 1) = 1..0
    BY <1>1
  <2>2. r \in [1..0 -> Threads]
    BY <2>1
  <2> QED BY <2>2, 0 \in Nat DEF remove_from_waitlist, Seq
<1>2. CASE q # <<>>
  <2>1. Len(q) - 1 \in Nat
    BY <1>2
  <2>2. \A j \in 1..(Len(q) - 1) : q[j] \in Threads /\ q[j + 1] \in Threads
    BY <2>1
  <2>3. r \in [1..(Len(q) - 1) -> Threads]
    BY <2>2
  <2> QED BY <2>1, <2>3 DEF remove_from_waitlist
<1> QED BY <1>1, <1>2

\* Unlinking a node takes exactly that thread out of a ring that holds each
\* thread once.
LEMMA RemoveMembers ==
  ASSUME NEW q \in Seq(Threads), NEW t \in Members(q),
         \A i, j \in 1..Len(q) : q[i] = q[j] => i = j
  PROVE  LET r == remove_from_waitlist(q, t) IN
         /\ Members(r) = Members(q) \ {t}
         /\ \A i, j \in 1..Len(r) : r[i] = r[j] => i = j
<1> DEFINE k == CHOOSE i \in 1..Len(q) : q[i] = t
           r == [j \in 1..(Len(q) - 1) |-> IF j < k THEN q[j] ELSE q[j + 1]]
<1>1. k \in 1..Len(q) /\ q[k] = t
  BY DEF Members
<1> HIDE DEF k
<1>2. Len(q) \in Nat /\ Len(q) > 0
  BY <1>1
<1>3. Len(r) = Len(q) - 1
  BY <1>2
<1>4. ASSUME NEW i \in 1..Len(r) PROVE r[i] = (IF i < k THEN q[i] ELSE q[i + 1])
  BY <1>3
<1> HIDE DEF r
<1>5. Members(r) \subseteq Members(q) \ {t}
  <2> SUFFICES ASSUME NEW i \in 1..Len(r) PROVE r[i] \in Members(q) \ {t}
    BY DEF Members
  <2>1. i \in 1..Len(q) /\ i + 1 \in 1..Len(q)
    BY <1>2, <1>3
  <2> QED BY <2>1, <1>1, <1>4 DEF Members
<1>6. Members(q) \ {t} \subseteq Members(r)
  <2> SUFFICES ASSUME NEW i \in 1..Len(q), q[i] # t PROVE q[i] \in Members(r)
    BY DEF Members
  <2>1. CASE i < k
    <3>1. i \in 1..Len(r)
      BY <1>1, <1>2, <1>3, <2>1
    <3> QED BY <3>1, <1>4, <2>1 DEF Members
  <2>2. CASE i > k
    <3>1. i - 1 \in 1..Len(r) /\ ~(i - 1 < k) /\ (i - 1) + 1 = i
      BY <1>1, <1>2, <1>3, <2>2
    <3>2. r[i - 1] = q[i]
      BY <3>1, <1>4
    <3> QED BY <3>1, <3>2 DEF Members
  <2> QED BY <1>1, <1>2, <2>1, <2>2
<1>7. \A i, j \in 1..Len(r) : r[i] = r[j] => i = j
  <2> SUFFICES ASSUME NEW i \in 1..Len(r), NEW j \in 1..Len(r), r[i] = r[j] PROVE i = j
    OBVIOUS
  <2>1. /\ i \in 1..Len(q) /\ i + 1 \in 1..Len(q)
        /\ j \in 1..Len(q) /\ j + 1 \in 1..Len(q)
    BY <1>2, <1>3
  <2> QED BY <2>1, <1>1, <1>2, <1>4
<1>8. r = remove_from_waitlist(q, t)
  BY DEF r, k, remove_from_waitlist
<1> QED BY <1>5, <1>6, <1>7, <1>8

\* Linking a node in at the tail adds exactly that thread.
LEMMA AppendMembers ==
  ASSUME NEW q \in Seq(Threads), NEW t \in Threads, t \notin Members(q),
         \A i, j \in 1..Len(q) : q[i] = q[j] => i = j
  PROVE  LET r == add_to_waitlist(q, t) IN
         /\ r \in Seq(Threads)
         /\ Members(r) = Members(q) \cup {t}
         /\ \A i, j \in 1..Len(r) : r[i] = r[j] => i = j
<1> DEFINE r == Append(q, t)
<1>1. r \in Seq(Threads) /\ Len(r) = Len(q) + 1 /\ Len(q) \in Nat
  OBVIOUS
<1>2. \A i \in 1..Len(r) : r[i] = IF i <= Len(q) THEN q[i] ELSE t
  BY <1>1
<1>3. Members(r) \subseteq Members(q) \cup {t}
  BY <1>1, <1>2 DEF Members
<1>4. Members(q) \cup {t} \subseteq Members(r)
  <2>1. \A i \in 1..Len(q) : i \in 1..Len(r) /\ r[i] = q[i]
    BY <1>1, <1>2
  <2>2. Len(r) \in 1..Len(r) /\ r[Len(r)] = t
    BY <1>1, <1>2
  <2> QED BY <2>1, <2>2 DEF Members
<1>5. \A i, j \in 1..Len(r) : r[i] = r[j] => i = j
  <2>1. \A i \in 1..Len(q) : q[i] # t
    BY DEF Members
  <2> QED BY <1>1, <1>2, <2>1
<1> QED BY <1>1, <1>3, <1>4, <1>5 DEF add_to_waitlist

-----------------------------------------------------------------------------
\* The arguments of an idle thread are arguments.
LEMMA NoArgType == NoArg \in Args
BY DEF NoArg, Args, FlagKinds, TimeoutKinds, Errors

\* What the shared parts of the actions assign has the right type.
LEMMA ReturnType ==
  ASSUME TypeOK, NEW t \in Threads, NEW e \in Errors, Return(t, e)
  PROVE  /\ pc' \in [Threads -> Places]
         /\ arg' \in [Threads -> Args]
         /\ deadline' \in [Threads -> Deadlines]
         /\ sleepers' \subseteq Threads
<1>1. [NoArg EXCEPT !.nError = e] \in Args
  BY NoArgType DEF Args
<1> QED BY <1>1 DEF TypeOK, Return, Places, Deadlines

\* add_thread_to_ready keeps the scheduler states well formed.
LEMMA MakeReadyType ==
  ASSUME TypeOK, NEW W, NEW t, NEW st \in ThreadStates, NEW why \in Causes,
         MakeReady(W, why) \/ MakeReadyAnd(W, t, st)
  PROVE  /\ tr_nState' \in [Threads -> ThreadStates]
         /\ cause' \in [Threads -> Causes]
BY DEF TypeOK, MakeReady, MakeReadyAnd, ThreadStates, Causes

\* So does blocking, for everything it assigns.
LEMMA BlockType ==
  ASSUME TypeOK, NEW t \in Threads, NEW place \in Places, NEW a \in Args,
         NEW d \in Deadlines, NEW q \in Seq(Threads), a.hSema \in Semas,
         Block(t, place, a, d, q)
  PROVE  /\ ss_psWaitQueue' \in [Semas -> Seq(Threads)]
         /\ tr_nState' \in [Threads -> ThreadStates]
         /\ cause' \in [Threads -> Causes]
         /\ sleepers' \subseteq Threads
         /\ pc' \in [Threads -> Places]
         /\ arg' \in [Threads -> Args]
         /\ deadline' \in [Threads -> Deadlines]
<1>1. Append(q, t) \in Seq(Threads)
  OBVIOUS
<1>2. tr_nState' \in [Threads -> ThreadStates] /\ cause' \in [Threads -> Causes]
  BY DEF Block, TypeOK, MakeReadyAnd, ThreadStates, Causes
<1> QED BY <1>1, <1>2 DEF Block, TypeOK, add_to_waitlist

-----------------------------------------------------------------------------
(* Type correctness.  Each lemma treats one group of actions.              *)

\* An unknown handle: only the caller's result changes.
LEMMA InvalidHandleType ==
  ASSUME TypeOK, NEW t \in Threads, NEW s \in Semas, InvalidHandle(t, s)
  PROVE  TypeOK'
<1>1. "EINVAL" \in Errors /\ "TS_RUN" \in ThreadStates /\ "none" \in Causes
  BY DEF Errors, ThreadStates, Causes
<1>2. Return(t, "EINVAL") /\ MakeReadyAnd({}, t, "TS_RUN")
  BY DEF InvalidHandle
<1>3. /\ pc' \in [Threads -> Places] /\ arg' \in [Threads -> Args]
      /\ deadline' \in [Threads -> Deadlines] /\ sleepers' \subseteq Threads
  BY <1>1, <1>2, ReturnType
<1>4. tr_nState' \in [Threads -> ThreadStates] /\ cause' \in [Threads -> Causes]
  BY <1>1, <1>2, MakeReadyType
<1> QED BY <1>3, <1>4 DEF TypeOK, InvalidHandle, semVars, histVars

\* A call that finds its semaphore gone.
LEMMA DeletedWhileBlockedType ==
  ASSUME TypeOK, NEW t \in Threads, DeletedWhileBlocked(t)
  PROVE  TypeOK'
<1>1. "EINVAL" \in Errors /\ "TS_RUN" \in ThreadStates /\ "none" \in Causes
  BY DEF Errors, ThreadStates, Causes
<1>2. Return(t, "EINVAL") /\ MakeReadyAnd({}, t, "TS_RUN")
  BY DEF DeletedWhileBlocked
<1>3. /\ pc' \in [Threads -> Places] /\ arg' \in [Threads -> Args]
      /\ deadline' \in [Threads -> Deadlines] /\ sleepers' \subseteq Threads
  BY <1>1, <1>2, ReturnType
<1>4. tr_nState' \in [Threads -> ThreadStates] /\ cause' \in [Threads -> Causes]
  BY <1>1, <1>2, MakeReadyType
<1>5. stale' \in [Semas -> SUBSET Threads]
  BY DEF TypeOK, DeletedWhileBlocked
<1> QED BY <1>3, <1>4, <1>5 DEF TypeOK, DeletedWhileBlocked, semVars

\* One turn of the loop of do_lock_semaphore_ex.
LEMMA TryLockType ==
  ASSUME TypeOK, NEW t \in Threads, NEW a \in Args, a.hSema \in Semas,
         NEW d \in Deadlines, NEW q \in Seq(Threads), TryLock(t, a, d, q),
         UNCHANGED <<table, tr_nSigPend, stale, faults>>
  PROVE  TypeOK'
<1> DEFINE s == a.hSema
<1>1. /\ {"0", "EWOULDBLOCK", "ETIME"} \subseteq Errors
      /\ "TS_RUN" \in ThreadStates /\ "none" \in Causes /\ "lock" \in Places
  BY DEF Errors, ThreadStates, Causes, Places
<1>2. CASE /\ ss_lNestCount' = [ss_lNestCount EXCEPT ![s] = @ - a.nCount]
           /\ ss_hHolder' = [ss_hHolder EXCEPT ![s] = t]
           /\ held' = IF s \in Mutexes THEN [held EXCEPT ![s][t] = @ + 1] ELSE held
           /\ ss_psWaitQueue' = [ss_psWaitQueue EXCEPT ![s] = q]
           /\ Return(t, "0")
           /\ MakeReadyAnd({}, t, "TS_RUN")
  <2>1. /\ pc' \in [Threads -> Places] /\ arg' \in [Threads -> Args]
        /\ deadline' \in [Threads -> Deadlines] /\ sleepers' \subseteq Threads
    BY <1>1, <1>2, ReturnType
  <2>2. tr_nState' \in [Threads -> ThreadStates] /\ cause' \in [Threads -> Causes]
    BY <1>1, <1>2, MakeReadyType
  <2>3. ss_lNestCount' \in [Semas -> Int]
    BY <1>2 DEF TypeOK, Args
  <2>4. held' \in [Mutexes -> [Threads -> Nat]]
    BY <1>2 DEF TypeOK
  <2> QED BY <1>2, <2>1, <2>2, <2>3, <2>4 DEF TypeOK
<1>3. CASE /\ Return(t, "EWOULDBLOCK") \/ Return(t, "ETIME")
           /\ ss_psWaitQueue' = [ss_psWaitQueue EXCEPT ![s] = q]
           /\ MakeReadyAnd({}, t, "TS_RUN")
           /\ UNCHANGED <<ss_lNestCount, ss_hHolder, held>>
  <2>1. /\ pc' \in [Threads -> Places] /\ arg' \in [Threads -> Args]
        /\ deadline' \in [Threads -> Deadlines] /\ sleepers' \subseteq Threads
    BY <1>1, <1>3, ReturnType
  <2>2. tr_nState' \in [Threads -> ThreadStates] /\ cause' \in [Threads -> Causes]
    BY <1>1, <1>3, MakeReadyType
  <2> QED BY <1>3, <2>1, <2>2 DEF TypeOK
<1>4. CASE Block(t, "lock", a, d, q) /\ UNCHANGED <<ss_lNestCount, ss_hHolder, held>>
  BY <1>1, <1>4, BlockType DEF TypeOK
<1> QED BY <1>2, <1>3, <1>4 DEF TryLock

\* One turn of the loop of lock_mutex.
LEMMA TryMutexType ==
  ASSUME TypeOK, NEW t \in Threads, NEW a \in Args, a.hSema \in Mutexes,
         NEW q \in Seq(Threads), TryMutex(t, a, q),
         UNCHANGED <<table, ss_hHolder, tr_nSigPend, stale, faults>>
  PROVE  TypeOK'
<1> DEFINE s == a.hSema
<1>1. /\ "0" \in Errors /\ "TS_RUN" \in ThreadStates /\ "none" \in Causes
      /\ "lock_mutex" \in Places /\ "ahead" \in Deadlines /\ s \in Semas
  BY DEF Errors, ThreadStates, Causes, Places, Deadlines, Semas
<1>2. CASE /\ ss_lNestCount' = [ss_lNestCount EXCEPT ![s] = @ - 1]
           /\ held' = [held EXCEPT ![s][t] = @ + 1]
           /\ ss_psWaitQueue' = [ss_psWaitQueue EXCEPT ![s] = q]
           /\ Return(t, "0")
           /\ MakeReadyAnd({}, t, "TS_RUN")
  <2>1. /\ pc' \in [Threads -> Places] /\ arg' \in [Threads -> Args]
        /\ deadline' \in [Threads -> Deadlines] /\ sleepers' \subseteq Threads
    BY <1>1, <1>2, ReturnType
  <2>2. tr_nState' \in [Threads -> ThreadStates] /\ cause' \in [Threads -> Causes]
    BY <1>1, <1>2, MakeReadyType
  <2>3. ss_lNestCount' \in [Semas -> Int] /\ held' \in [Mutexes -> [Threads -> Nat]]
    BY <1>1, <1>2 DEF TypeOK
  <2> QED BY <1>1, <1>2, <2>1, <2>2, <2>3 DEF TypeOK
<1>3. CASE Block(t, "lock_mutex", a, "ahead", q) /\ UNCHANGED <<ss_lNestCount, held>>
  BY <1>1, <1>3, BlockType DEF TypeOK
<1> QED BY <1>2, <1>3 DEF TryMutex

\* The common part of the actions that unlink their node and return.
LEMMA UnlinkType ==
  ASSUME TypeOK, NEW t \in Threads, NEW s \in Semas, NEW W, NEW e \in Errors,
         ss_psWaitQueue' = [ss_psWaitQueue EXCEPT
                              ![s] = remove_from_waitlist(ss_psWaitQueue[s], t)],
         MakeReadyAnd(W, t, "TS_RUN"), Return(t, e),
         UNCHANGED <<table, ss_lNestCount, ss_hHolder, tr_nSigPend, held, stale>>,
         faults' \subseteq FaultKinds
  PROVE  TypeOK'
<1>1. "TS_RUN" \in ThreadStates /\ "none" \in Causes
  BY DEF ThreadStates, Causes
<1>2. tr_nState' \in [Threads -> ThreadStates] /\ cause' \in [Threads -> Causes]
  BY <1>1, MakeReadyType
<1>3. remove_from_waitlist(ss_psWaitQueue[s], t) \in Seq(Threads)
  BY RemoveType DEF TypeOK
<1>4. ss_psWaitQueue' \in [Semas -> Seq(Threads)]
  BY <1>3 DEF TypeOK
<1> QED BY <1>2, <1>4, ReturnType DEF TypeOK

\* The release of a semaphore.
LEMMA ReleaseType ==
  ASSUME TypeOK, NEW s \in Semas, NEW n \in Nat, Release(s, n)
  PROVE  /\ ss_lNestCount' \in [Semas -> Int]
         /\ ss_hHolder' \in [Semas -> Threads \cup {NoThread}]
         /\ tr_nState' \in [Threads -> ThreadStates]
         /\ cause' \in [Threads -> Causes]
<1>1. "TS_RUN" \in ThreadStates /\ "queue" \in Causes
  BY DEF ThreadStates, Causes
<1> DEFINE W == IF ss_lNestCount[s] + n > 0
                THEN wake_up_queue(ss_psWaitQueue[s], n > 1) ELSE {}
<1>2. MakeReady(W, "queue")
  BY DEF Release
<1> HIDE DEF W
<1>3. tr_nState' \in [Threads -> ThreadStates] /\ cause' \in [Threads -> Causes]
  BY <1>1, <1>2, MakeReadyType
<1> QED BY <1>3 DEF TypeOK, Release

\* A first deadline is a deadline.
LEMMA FirstDeadlineType ==
  ASSUME NEW o, NEW d \in FirstDeadline(o)
  PROVE  d \in Deadlines
BY DEF FirstDeadline, Deadlines

\* Type correctness of the lock functions.
LEMMA LockTypeStep ==
  ASSUME TypeOK, CallArgs, NEW t \in Threads,
         \/ \E s \in Semas, n \in Counts \cup {1}, f \in LockFlags, o \in Timeouts :
              lock_semaphore_ex(t, s, n, f, o)
         \/ lock_semaphore_resume(t)
         \/ \E s \in Semas, f \in MutexFlags : lock_mutex(t, s, f)
         \/ lock_mutex_resume(t)
  PROVE  TypeOK'
<1>1. ASSUME NEW s \in Semas, NEW n \in Counts \cup {1}, NEW f \in LockFlags,
             NEW o \in Timeouts, lock_semaphore_ex(t, s, n, f, o)
      PROVE  TypeOK'
  <2> DEFINE a == [NoArg EXCEPT !.hSema = s, !.nCount = n, !.nFlags = f, !.nTimeOut = o]
  <2>0. n \in Nat /\ f \in FlagKinds /\ o \in TimeoutKinds
    BY ConstantTypes
  <2>1. a \in Args /\ a.hSema = s
    BY <2>0, NoArgType DEF Args
  <2> HIDE DEF a
  <2>2. CASE InvalidHandle(t, s)
    BY <2>2, InvalidHandleType
  <2>3. ASSUME NEW d \in FirstDeadline(o), TryLock(t, a, d, ss_psWaitQueue[s]),
               UNCHANGED <<table, tr_nSigPend, stale, faults>>
        PROVE  TypeOK'
    <3>1. ss_psWaitQueue[s] \in Seq(Threads)
      BY DEF TypeOK
    <3> QED BY <2>1, <2>3, <3>1, TryLockType, FirstDeadlineType
  <2> QED BY <1>1, <2>2, <2>3 DEF lock_semaphore_ex, a
<1>2. CASE lock_semaphore_resume(t)
  <2> DEFINE a == arg[t]
             q == remove_from_waitlist(ss_psWaitQueue[a.hSema], t)
  <2>1. a \in Args /\ a.hSema \in Semas
    BY <1>2 DEF lock_semaphore_resume, Resumed, CallArgs, Waiting, TypeOK
  <2>2. ss_psWaitQueue[a.hSema] \in Seq(Threads) /\ deadline[t] \in Deadlines
    BY <2>1 DEF TypeOK
  <2>3. q \in Seq(Threads)
    BY <2>2, RemoveType
  <2>4. CASE DeletedWhileBlocked(t)
    BY <2>4, DeletedWhileBlockedType
  <2>5. CASE /\ ss_psWaitQueue' = [ss_psWaitQueue EXCEPT ![a.hSema] = q]
             /\ MakeReadyAnd(wake_up_queue(q, FALSE), t, "TS_RUN")
             /\ Return(t, "EINTR")
             /\ UNCHANGED <<table, ss_lNestCount, ss_hHolder, tr_nSigPend, histVars>>
    <3>1. "EINTR" \in Errors /\ faults' \subseteq FaultKinds
      BY <2>5 DEF Errors, TypeOK, histVars
    <3> QED BY <2>1, <2>5, <3>1, UnlinkType DEF histVars
  <2>6. CASE /\ TryLock(t, a, deadline[t], q)
             /\ UNCHANGED <<table, tr_nSigPend, stale, faults>>
    BY <2>1, <2>2, <2>3, <2>6, TryLockType
  <2> QED BY <1>2, <2>4, <2>5, <2>6 DEF lock_semaphore_resume
<1>3. ASSUME NEW s \in Semas, NEW f \in MutexFlags, lock_mutex(t, s, f)
      PROVE  TypeOK'
  <2> DEFINE a == [NoArg EXCEPT !.hSema = s, !.nCount = 1, !.nFlags = f,
                                !.nTimeOut = "INFINITE_TIMEOUT"]
  <2>0. s \in Mutexes /\ f \in FlagKinds /\ "INFINITE_TIMEOUT" \in TimeoutKinds
    BY <1>3, ConstantTypes DEF lock_mutex, TimeoutKinds
  <2>1. a \in Args /\ a.hSema = s /\ s \in Mutexes
    BY <2>0, NoArgType DEF Args
  <2> HIDE DEF a
  <2>2. CASE /\ Return(t, "EINVAL")
             /\ UNCHANGED <<semVars, tr_nState, cause, tr_nSigPend, histVars>>
    <3>1. "EINVAL" \in Errors
      BY DEF Errors
    <3> QED BY <2>2, <3>1, ReturnType DEF TypeOK, semVars, histVars
  <2>3. CASE /\ TryMutex(t, a, ss_psWaitQueue[s])
             /\ UNCHANGED <<table, ss_hHolder, tr_nSigPend, stale, faults>>
    <3>1. ss_psWaitQueue[s] \in Seq(Threads)
      BY DEF TypeOK
    <3> QED BY <2>1, <2>3, <3>1, TryMutexType
  <2> QED BY <1>3, <2>2, <2>3 DEF lock_mutex, a
<1>4. CASE lock_mutex_resume(t)
  <2> DEFINE a == arg[t]
             q == remove_from_waitlist(ss_psWaitQueue[a.hSema], t)
  <2>1. a \in Args /\ a.hSema \in Mutexes /\ a.hSema \in Semas
    BY <1>4 DEF lock_mutex_resume, Resumed, CallArgs, Waiting, TypeOK
  <2>2. ss_psWaitQueue[a.hSema] \in Seq(Threads)
    BY <2>1 DEF TypeOK
  <2>3. q \in Seq(Threads)
    BY <2>2, RemoveType
  <2>4. CASE DeletedWhileBlocked(t)
    BY <2>4, DeletedWhileBlockedType
  <2>5. CASE /\ ss_psWaitQueue' = [ss_psWaitQueue EXCEPT ![a.hSema] = q]
             /\ MakeReadyAnd({}, t, "TS_RUN")
             /\ Return(t, "EINTR")
             /\ UNCHANGED <<table, ss_lNestCount, ss_hHolder, tr_nSigPend, histVars>>
    <3>1. "EINTR" \in Errors /\ faults' \subseteq FaultKinds
      BY <2>5 DEF Errors, TypeOK, histVars
    <3> QED BY <2>1, <2>5, <3>1, UnlinkType DEF histVars
  <2>6. CASE /\ TryMutex(t, a, q)
             /\ UNCHANGED <<table, ss_hHolder, tr_nSigPend, stale, faults>>
    BY <2>1, <2>3, <2>6, TryMutexType
  <2> QED BY <1>4, <2>4, <2>5, <2>6 DEF lock_mutex_resume
<1> QED BY <1>1, <1>2, <1>3, <1>4

\* Type correctness of the functions on wait queues.
LEMMA WaitTypeStep ==
  ASSUME TypeOK, CallArgs, NEW t \in Threads,
         \/ \E s \in Semas, o \in Timeouts :
              sleep_on_sem(t, s, o) \/ spinunlock_and_suspend(t, s, o)
         \/ sleep_on_sem_resume(t)
         \/ spinunlock_and_suspend_resume(t)
         \/ \E s \in Semas, b \in BOOLEAN : wakeup_sem(t, s, b)
         \/ \E s \in Semas, h \in WaitQueues : unlock_and_suspend(t, h, s)
         \/ unlock_and_suspend_unlocks(t)
         \/ unlock_and_suspend_resume(t)
  PROVE  TypeOK'
<1>0. /\ {"0", "ETIME", "EINTR", "EINVAL"} \subseteq Errors
      /\ {"sleep", "spin", "uas_unlock", "uas"} \subseteq Places
      /\ "TS_RUN" \in ThreadStates /\ "queue" \in Causes /\ "ahead" \in Deadlines
      /\ "INFINITE_TIMEOUT" \in TimeoutKinds
  BY DEF Errors, Places, ThreadStates, Causes, Deadlines, TimeoutKinds
<1>1. ASSUME NEW s \in Semas, NEW o \in Timeouts,
             sleep_on_sem(t, s, o) \/ spinunlock_and_suspend(t, s, o)
      PROVE  TypeOK'
  <2> DEFINE a == [NoArg EXCEPT !.hSema = s, !.nTimeOut = o]
  <2>1. a \in Args /\ a.hSema = s /\ ss_psWaitQueue[s] \in Seq(Threads)
    BY NoArgType, ConstantTypes DEF Args, TypeOK
  <2> HIDE DEF a
  <2>2. CASE InvalidHandle(t, s)
    BY <2>2, InvalidHandleType
  <2>3. CASE /\ Return(t, "ETIME")
             /\ UNCHANGED <<ss_psWaitQueue, tr_nState, cause>>
             /\ UNCHANGED <<table, ss_lNestCount, ss_hHolder, tr_nSigPend, histVars>>
    BY <1>0, <2>3, ReturnType DEF TypeOK, histVars
  <2>4. ASSUME NEW d \in FirstDeadline(o), NEW place \in {"sleep", "spin"},
               Block(t, place, a, d, ss_psWaitQueue[s]),
               UNCHANGED <<table, ss_lNestCount, ss_hHolder, tr_nSigPend, histVars>>
        PROVE  TypeOK'
    BY <1>0, <2>1, <2>4, BlockType, FirstDeadlineType DEF TypeOK, histVars
  <2> QED BY <1>1, <2>2, <2>3, <2>4 DEF sleep_on_sem, spinunlock_and_suspend, a
<1>2. CASE sleep_on_sem_resume(t) \/ spinunlock_and_suspend_resume(t)
  <2>1. arg[t].hSema \in Semas
    BY <1>2 DEF sleep_on_sem_resume, spinunlock_and_suspend_resume, Resumed, CallArgs, Waiting
  <2>2. CASE DeletedWhileBlocked(t)
    BY <2>2, DeletedWhileBlockedType
  <2>3. ASSUME NEW e \in Errors,
               ss_psWaitQueue' = [ss_psWaitQueue EXCEPT ![arg[t].hSema] = remove_from_waitlist(@, t)],
               MakeReadyAnd({}, t, "TS_RUN"), Return(t, e),
               UNCHANGED <<table, ss_lNestCount, ss_hHolder, tr_nSigPend, histVars>>
        PROVE  TypeOK'
    <3>1. faults' \subseteq FaultKinds
      BY <2>3 DEF TypeOK, histVars
    <3>2. ss_psWaitQueue' = [ss_psWaitQueue EXCEPT
             ![arg[t].hSema] = remove_from_waitlist(ss_psWaitQueue[arg[t].hSema], t)]
      BY <2>3
    <3> QED BY <2>1, <2>3, <3>1, <3>2, UnlinkType DEF histVars
  <2>4. CASE sleep_on_sem_resume(t)
    BY <1>0, <2>2, <2>3, <2>4 DEF sleep_on_sem_resume
  <2>5. CASE spinunlock_and_suspend_resume(t)
    <3>1. (IF t \in tr_nSigPend THEN "EINTR"
           ELSE IF deadline[t] = "past" THEN "ETIME" ELSE "0") \in Errors
      BY <1>0
    <3> QED BY <2>2, <2>3, <2>5, <3>1 DEF spinunlock_and_suspend_resume
  <2> QED BY <1>2, <2>4, <2>5
<1>3. ASSUME NEW s \in Semas, NEW b \in BOOLEAN, wakeup_sem(t, s, b)
      PROVE  TypeOK'
  <2>2. CASE InvalidHandle(t, s)
    BY <2>2, InvalidHandleType
  <2>3. ASSUME NEW W, MakeReady(W, "queue"), Return(t, "0"),
               UNCHANGED <<semVars, tr_nSigPend, histVars>>
        PROVE  TypeOK'
    BY <1>0, <2>3, MakeReadyType, ReturnType DEF TypeOK, semVars, histVars
  <2> QED BY <1>3, <2>2, <2>3 DEF wakeup_sem
<1>4. ASSUME NEW s \in Semas, NEW h \in WaitQueues, unlock_and_suspend(t, h, s)
      PROVE  TypeOK'
  <2> DEFINE a == [NoArg EXCEPT !.hSema = h, !.hUnlock = s, !.nTimeOut = "INFINITE_TIMEOUT"]
  <2>1. h \in Semas
    BY DEF Semas
  <2>2. a \in Args /\ a.hSema = h /\ ss_psWaitQueue[h] \in Seq(Threads)
    BY <1>0, <2>1, NoArgType DEF Args, TypeOK
  <2> HIDE DEF a
  <2>3. CASE InvalidHandle(t, h)
    BY <2>1, <2>3, InvalidHandleType
  <2>4. CASE /\ Block(t, "uas_unlock", a, "ahead", ss_psWaitQueue[h])
             /\ UNCHANGED <<table, ss_lNestCount, ss_hHolder, tr_nSigPend, histVars>>
    BY <1>0, <2>1, <2>2, <2>4, BlockType DEF TypeOK, histVars
  <2> QED BY <1>4, <2>3, <2>4 DEF unlock_and_suspend, a
<1>5. CASE unlock_and_suspend_unlocks(t)
  <2> DEFINE s == arg[t].hUnlock
  <2>1. s \in Mutexes /\ s \in Semas /\ arg[t] \in Args
    BY <1>5 DEF unlock_and_suspend_unlocks, CallArgs, Semas, TypeOK
  <2>2. pc' \in [Threads -> Places]
    BY <1>0, <1>5 DEF unlock_and_suspend_unlocks, TypeOK
  <2>3. CASE /\ held[s][t] > 0
             /\ Release(s, 1)
             /\ held' = [held EXCEPT ![s][t] = @ - 1]
             /\ arg' = [arg EXCEPT ![t].hUnlock = NoSema]
    <3>1. held' \in [Mutexes -> [Threads -> Nat]]
      BY <2>1, <2>3 DEF TypeOK
    <3>2. arg' \in [Threads -> Args]
      BY <2>1, <2>3 DEF TypeOK, Args
    <3> QED BY <1>5, <2>1, <2>2, <2>3, <3>1, <3>2, ReleaseType
            DEF TypeOK, unlock_and_suspend_unlocks
  <2>4. CASE /\ arg' = [arg EXCEPT ![t].hUnlock = NoSema, ![t].nError = "EINVAL"]
             /\ UNCHANGED <<ss_lNestCount, ss_hHolder, tr_nState, cause, held>>
    <3>1. arg' \in [Threads -> Args]
      BY <1>0, <2>1, <2>4 DEF TypeOK, Args
    <3> QED BY <1>5, <2>2, <2>4, <3>1 DEF TypeOK, unlock_and_suspend_unlocks
  <2> QED BY <1>5, <2>3, <2>4 DEF unlock_and_suspend_unlocks
<1>6. CASE unlock_and_suspend_resume(t)
  <2> DEFINE h == arg[t].hSema
             e == IF arg[t].nError = "0" /\ t \in tr_nSigPend THEN "EINTR" ELSE arg[t].nError
  <2>1. h \in Semas /\ e \in Errors
    BY <1>0, <1>6 DEF unlock_and_suspend_resume, Resumed, CallArgs, Waiting, TypeOK, Args
  <2> HIDE DEF e
  <2>2. faults' \subseteq FaultKinds
    BY <1>6 DEF unlock_and_suspend_resume, TypeOK, FaultKinds
  <2>3. /\ MakeReadyAnd({}, t, "TS_RUN") /\ Return(t, e)
        /\ UNCHANGED <<table, ss_lNestCount, ss_hHolder, tr_nSigPend, held, stale>>
    BY <1>6 DEF unlock_and_suspend_resume, e
  <2>4. CASE ss_psWaitQueue' = [ss_psWaitQueue EXCEPT ![h] = remove_from_waitlist(@, t)]
    <3>1. ss_psWaitQueue' = [ss_psWaitQueue EXCEPT
             ![h] = remove_from_waitlist(ss_psWaitQueue[h], t)]
      BY <2>4
    <3> QED BY <2>1, <2>2, <2>3, <3>1, UnlinkType
  <2>5. CASE UNCHANGED ss_psWaitQueue
    <3>1. tr_nState' \in [Threads -> ThreadStates] /\ cause' \in [Threads -> Causes]
      BY <1>0, <2>3, MakeReadyType
    <3> QED BY <2>1, <2>2, <2>3, <2>5, <3>1, ReturnType DEF TypeOK
  <2> QED BY <1>6, <2>4, <2>5 DEF unlock_and_suspend_resume
<1> QED BY <1>1, <1>2, <1>3, <1>4, <1>5, <1>6

\* Type correctness of creation, deletion, release and return.
LEMMA OtherTypeStep ==
  ASSUME TypeOK, CallArgs, NEW t \in Threads,
         \/ \E s \in Semas : \/ create_semaphore(t, s)
                            \/ delete_semaphore(t, s)
                            \/ unlock_mutex(t, s)
                            \/ \E n \in Counts \cup {1} : unlock_semaphore_ex(t, s, n)
         \/ delete_wakes(t)
         \/ LeaveCall(t)
         \/ handle_signals(t)
         \/ send_signal(t)
         \/ TimePasses(t)
  PROVE  TypeOK'
<1>0. /\ "0" \in Errors /\ {"idle", "delete"} \subseteq Places
      /\ "TS_RUN" \in ThreadStates /\ {"queue", "signal", "timer"} \subseteq Causes
      /\ {"due", "past"} \subseteq Deadlines /\ {"live", "unlinked", "freed"} \subseteq TableStates
  BY DEF Errors, Places, ThreadStates, Causes, Deadlines, TableStates
<1>1. ASSUME NEW s \in Semas, create_semaphore(t, s)
      PROVE  TypeOK'
  BY <1>0, <1>1, ConstantTypes DEF create_semaphore, TypeOK, threadVars, histVars
<1>2. ASSUME NEW s \in Semas, delete_semaphore(t, s)
      PROVE  TypeOK'
  <2>1. [NoArg EXCEPT !.hSema = s] \in Args
    BY NoArgType DEF Args
  <2>2. CASE InvalidHandle(t, s)
    BY <2>2, InvalidHandleType
  <2>3. CASE unlink_semaphore(t, s)
    <3>1. held' \in [Mutexes -> [Threads -> Nat]]
      BY <2>3 DEF unlink_semaphore, TypeOK
    <3> QED BY <1>0, <2>1, <2>3, <3>1 DEF unlink_semaphore, TypeOK
  <2> QED BY <1>2, <2>2, <2>3 DEF delete_semaphore
<1>3. ASSUME NEW s \in Semas, NEW n \in Counts \cup {1},
             unlock_semaphore_ex(t, s, n)
      PROVE  TypeOK'
  <2>1. n \in Nat
    BY ConstantTypes
  <2>2. CASE InvalidHandle(t, s)
    BY <2>2, InvalidHandleType
  <2>3. CASE /\ table[s] = "live" /\ Release(s, n)
             /\ held' = IF s \in Mutexes THEN [held EXCEPT ![s][t] = @ - 1] ELSE held
             /\ Return(t, "0")
             /\ UNCHANGED <<table, ss_psWaitQueue, tr_nSigPend, stale, faults>>
    <3>1. s \in Mutexes => held[s][t] > 0
      BY <1>3, <2>3, KindsDisjoint DEF unlock_semaphore_ex, MayUnlock
    <3>2. held' \in [Mutexes -> [Threads -> Nat]]
      BY <2>3, <3>1 DEF TypeOK
    <3> QED BY <1>0, <2>1, <2>3, <3>2, ReleaseType, ReturnType DEF TypeOK
  <2> QED BY <1>3, <2>2, <2>3 DEF unlock_semaphore_ex
<1>4. ASSUME NEW s \in Semas, unlock_mutex(t, s)
      PROVE  TypeOK'
  <2>1. CASE InvalidHandle(t, s)
    BY <2>1, InvalidHandleType
  <2>2. CASE /\ table[s] = "live" /\ Release(s, 1) /\ Return(t, "0")
             /\ held' = [held EXCEPT ![s][t] = @ - 1]
             /\ UNCHANGED <<table, ss_psWaitQueue, tr_nSigPend, stale, faults>>
    <3>1. s \in Mutexes /\ held[s][t] > 0
      BY <1>4, <2>2, KindsDisjoint DEF unlock_mutex, MayUnlock
    <3>2. held' \in [Mutexes -> [Threads -> Nat]]
      BY <2>2, <3>1 DEF TypeOK
    <3> QED BY <1>0, <2>2, <3>2, ReleaseType, ReturnType DEF TypeOK
  <2> QED BY <1>4, <2>1, <2>2 DEF unlock_mutex
<1>5. CASE delete_wakes(t)
  <2>1. Return(t, "0") /\ \E W : MakeReady(W, "queue")
    BY <1>5 DEF delete_wakes
  <2>2. tr_nState' \in [Threads -> ThreadStates] /\ cause' \in [Threads -> Causes]
    BY <1>0, <2>1, MakeReadyType
  <2>3. /\ pc' \in [Threads -> Places] /\ arg' \in [Threads -> Args]
        /\ deadline' \in [Threads -> Deadlines] /\ sleepers' \subseteq Threads
    BY <1>0, <2>1, ReturnType
  <2>4. arg[t].hSema \in Semas
    BY <1>5 DEF delete_wakes, CallArgs
  <2>5. /\ table' \in [Semas -> TableStates] /\ stale' \in [Semas -> SUBSET Threads]
        /\ ss_psWaitQueue' \in [Semas -> Seq(Threads)] /\ faults' \subseteq FaultKinds
    BY <1>0, <1>5, <2>4 DEF delete_wakes, TypeOK, FaultKinds
  <2> QED BY <1>5, <2>2, <2>3, <2>5 DEF delete_wakes, TypeOK
<1>6. CASE LeaveCall(t)
  BY <1>0, <1>6, NoArgType DEF LeaveCall, TypeOK, semVars, histVars
<1>7. CASE handle_signals(t)
  BY <1>7 DEF handle_signals, TypeOK, semVars, histVars
<1>8. CASE send_signal(t)
  <2>1. \E W : MakeReady(W, "signal")
    BY <1>8 DEF send_signal
  <2> QED BY <1>0, <1>8, <2>1, MakeReadyType DEF send_signal, TypeOK, semVars, histVars
<1>9. CASE TimePasses(t)
  BY <1>0, <1>9 DEF TimePasses, TypeOK, semVars, histVars
<1> QED BY <1>1, <1>2, <1>3, <1>4, <1>5, <1>6, <1>7, <1>8, <1>9

\* Every step keeps the types.
LEMMA TypeStep ==
  ASSUME TypeOK, CallArgs, [Next]_vars
  PROVE  TypeOK'
<1>1. ASSUME NEW t \in Threads, Client(t) \/ Continue(t) \/ send_signal(t) \/ TimePasses(t)
      PROVE  TypeOK'
  BY <1>1, LockTypeStep, WaitTypeStep, OtherTypeStep DEF Client, Continue
<1>2. CASE wake_up_sleepers
  <2>1. "timer" \in Causes /\ "TS_RUN" \in ThreadStates
    BY DEF Causes, ThreadStates
  <2>2. \E W : MakeReady(W, "timer")
    BY <1>2 DEF wake_up_sleepers
  <2> QED BY <1>2, <2>1, <2>2, MakeReadyType DEF wake_up_sleepers, TypeOK, semVars, histVars
<1>3. CASE UNCHANGED vars
  BY <1>3 DEF vars, semVars, threadVars, histVars, TypeOK
<1> QED BY <1>1, <1>2, <1>3 DEF Next

-----------------------------------------------------------------------------
(* Frame lemmas: how the shared parts of the actions move the call of one  *)
(* thread and one node of one ring.                                        *)

\* Thread u has a node in the ring of s.
On(u, s) == pc[u] \in Waiting /\ arg[u].hSema = s

\* Only the call of t moves.
Others(t) == \A u \in Threads \ {t} : pc'[u] = pc[u] /\ arg'[u] = arg[u]

\* The call of t is over and its handle no longer matters.
LEMMA ReturnFrame ==
  ASSUME TypeOK, NEW t \in Threads, NEW e, Return(t, e)
  PROVE  Others(t) /\ pc'[t] = "return" /\ pc'[t] \notin Waiting
BY DEF TypeOK, Return, Others, Waiting

\* Blocking moves only t, which joins the ring of its semaphore.
LEMMA BlockFrame ==
  ASSUME TypeOK, NEW t \in Threads, NEW place, NEW a, NEW d, NEW q, Block(t, place, a, d, q)
  PROVE  /\ Others(t) /\ pc'[t] = place /\ arg'[t] = a
         /\ ss_psWaitQueue' = [ss_psWaitQueue EXCEPT ![a.hSema] = add_to_waitlist(q, t)]
         /\ \A u \in Threads \ {t} : tr_nState'[u] = tr_nState[u]
BY DEF TypeOK, Block, Others, MakeReadyAnd

\* No step forgets that a handle was used, or hands it out again.
Aged == \A s \in Semas : /\ table[s] # "free" => table'[s] # "free"
                         /\ table[s] \in {"unlinked", "freed"} => table'[s] \in {"unlinked", "freed"}

\* A call that ends leaves what is known about the other calls.
LEMMA CallArgsFrame ==
  ASSUME CallArgs, NEW t \in Threads, Others(t), Aged,
         pc'[t] \in {"idle", "return"}
  PROVE  CallArgs'
BY DEF CallArgs, Others, Aged, Waiting

\* A call that blocks knows its own arguments.
LEMMA CallArgsBlock ==
  ASSUME CallArgs, TypeOK, NEW t \in Threads, NEW place \in Waiting, NEW a, NEW d, NEW q,
         Block(t, place, a, d, q), table' = table,
         a.hSema \in Semas, table[a.hSema] = "live",
         place = "lock" /\ a.hSema \in Mutexes => a.nCount = 1,
         place = "lock_mutex" => /\ a.hSema \in Mutexes /\ a.nFlags \in MutexFlags
                                 /\ a.nTimeOut = "INFINITE_TIMEOUT",
         place = "uas_unlock" => a.hUnlock \in Mutexes,
         place \in {"sleep", "spin", "uas_unlock", "uas"} => a.hSema \in WaitQueues
  PROVE  CallArgs'
<1>1. Others(t) /\ pc'[t] = place /\ arg'[t] = a
  BY BlockFrame
<1> QED BY <1>1 DEF CallArgs, Others, Waiting

\* A step that touches no ring and leaves who is on which live ring alone.
LEMMA RingQuiet ==
  ASSUME RingMatchesCallers, FreeUnused, ss_psWaitQueue' = ss_psWaitQueue, table' = table,
         \A u \in Threads, s \in Semas : table[s] = "live" => (On(u, s)' <=> On(u, s))
  PROVE  RingMatchesCallers' /\ FreeUnused'
BY DEF RingMatchesCallers, FreeUnused, On

\* A thread that was on no ring joins one.
LEMMA RingLink ==
  ASSUME TypeOK, RingMatchesCallers, FreeUnused, NEW t \in Threads, NEW s \in Semas,
         table[s] = "live", table' = table, pc[t] \notin Waiting, Others(t),
         pc'[t] \in Waiting, arg'[t].hSema = s,
         ss_psWaitQueue' = [ss_psWaitQueue EXCEPT ![s] = add_to_waitlist(ss_psWaitQueue[s], t)]
  PROVE  RingMatchesCallers' /\ FreeUnused'
<1> DEFINE q == ss_psWaitQueue[s]
<1>1. q \in Seq(Threads) /\ t \notin Members(q) /\ \A i, j \in 1..Len(q) : q[i] = q[j] => i = j
  BY DEF TypeOK, RingMatchesCallers
<1>2. /\ Members(add_to_waitlist(q, t)) = Members(q) \cup {t}
      /\ \A i, j \in 1..Len(add_to_waitlist(q, t)) :
            add_to_waitlist(q, t)[i] = add_to_waitlist(q, t)[j] => i = j
  BY <1>1, AppendMembers
<1>3. ss_psWaitQueue'[s] = add_to_waitlist(q, t)
  BY DEF TypeOK
<1>4. \A r \in Semas \ {s} : ss_psWaitQueue'[r] = ss_psWaitQueue[r]
  BY DEF TypeOK
<1>5. FreeUnused'
  BY <1>4 DEF FreeUnused
<1>6. ASSUME NEW r \in Semas, table[r] = "live"
      PROVE  /\ Members(ss_psWaitQueue'[r])
                  = {u \in Threads : pc'[u] \in Waiting /\ arg'[u].hSema = r}
             /\ \A i, j \in 1..Len(ss_psWaitQueue'[r]) :
                  ss_psWaitQueue'[r][i] = ss_psWaitQueue'[r][j] => i = j
  <2>1. CASE r = s
    <3>1. Members(q) = {u \in Threads : pc[u] \in Waiting /\ arg[u].hSema = s}
      BY DEF RingMatchesCallers
    <3>2. Members(q) \cup {t} = {u \in Threads : pc'[u] \in Waiting /\ arg'[u].hSema = s}
      BY <3>1 DEF Others
    <3> QED BY <1>2, <1>3, <2>1, <3>2
  <2>2. CASE r # s
    BY <1>4, <1>6, <2>2 DEF RingMatchesCallers, Others
  <2> QED BY <2>1, <2>2
<1> QED BY <1>5, <1>6 DEF RingMatchesCallers

\* A thread leaves its ring.
LEMMA RingUnlink ==
  ASSUME TypeOK, RingMatchesCallers, FreeUnused, NEW t \in Threads, NEW s \in Semas,
         table[s] = "live", table' = table, On(t, s), Others(t), pc'[t] \notin Waiting,
         ss_psWaitQueue' = [ss_psWaitQueue EXCEPT ![s] = remove_from_waitlist(ss_psWaitQueue[s], t)]
  PROVE  RingMatchesCallers' /\ FreeUnused'
<1> DEFINE q == ss_psWaitQueue[s]
           r == remove_from_waitlist(q, t)
<1>1. /\ q \in Seq(Threads) /\ t \in Members(q)
      /\ \A i, j \in 1..Len(q) : q[i] = q[j] => i = j
  BY DEF TypeOK, RingMatchesCallers, On
<1>2. Members(r) = Members(q) \ {t} /\ \A i, j \in 1..Len(r) : r[i] = r[j] => i = j
  BY <1>1, RemoveMembers
<1> HIDE DEF r
<1>3. ss_psWaitQueue'[s] = r
  BY DEF TypeOK, r
<1>4. \A v \in Semas \ {s} : ss_psWaitQueue'[v] = ss_psWaitQueue[v]
  BY DEF TypeOK
<1>5. FreeUnused'
  BY <1>4 DEF FreeUnused
<1>6. ASSUME NEW v \in Semas, table[v] = "live"
      PROVE  /\ Members(ss_psWaitQueue'[v])
                  = {u \in Threads : pc'[u] \in Waiting /\ arg'[u].hSema = v}
             /\ \A i, j \in 1..Len(ss_psWaitQueue'[v]) :
                  ss_psWaitQueue'[v][i] = ss_psWaitQueue'[v][j] => i = j
  <2>1. CASE v = s
    <3>1. Members(q) = {u \in Threads : pc[u] \in Waiting /\ arg[u].hSema = s}
      BY DEF RingMatchesCallers
    <3>2. Members(q) \ {t} = {u \in Threads : pc'[u] \in Waiting /\ arg'[u].hSema = s}
      BY <3>1 DEF Others
    <3> QED BY <1>2, <1>3, <2>1, <3>2
  <2>2. CASE v # s
    BY <1>4, <1>6, <2>2 DEF RingMatchesCallers, Others, On
  <2> QED BY <2>1, <2>2
<1> QED BY <1>5, <1>6 DEF RingMatchesCallers

\* A woken thread that finds the semaphore taken goes to the tail of the ring.
LEMMA RingRelink ==
  ASSUME TypeOK, RingMatchesCallers, FreeUnused, NEW t \in Threads, NEW s \in Semas,
         table[s] = "live", table' = table, On(t, s), Others(t),
         pc'[t] \in Waiting, arg'[t].hSema = s,
         ss_psWaitQueue' = [ss_psWaitQueue EXCEPT
            ![s] = add_to_waitlist(remove_from_waitlist(ss_psWaitQueue[s], t), t)]
  PROVE  RingMatchesCallers' /\ FreeUnused'
<1> DEFINE q == ss_psWaitQueue[s]
           p == remove_from_waitlist(q, t)
           r == add_to_waitlist(p, t)
<1>1. /\ q \in Seq(Threads) /\ t \in Members(q)
      /\ \A i, j \in 1..Len(q) : q[i] = q[j] => i = j
  BY DEF TypeOK, RingMatchesCallers, On
<1>2. /\ p \in Seq(Threads) /\ Members(p) = Members(q) \ {t}
      /\ \A i, j \in 1..Len(p) : p[i] = p[j] => i = j
  BY <1>1, RemoveMembers, RemoveType
<1> HIDE DEF p
<1>3. Members(r) = Members(q) /\ \A i, j \in 1..Len(r) : r[i] = r[j] => i = j
  <2>1. t \notin Members(p)
    BY <1>2
  <2>2. Members(r) = Members(p) \cup {t} /\ \A i, j \in 1..Len(r) : r[i] = r[j] => i = j
    BY <1>2, <2>1, AppendMembers
  <2> HIDE DEF r
  <2> QED BY <1>1, <1>2, <2>2
<1> HIDE DEF r
<1>4. ss_psWaitQueue'[s] = r /\ \A v \in Semas \ {s} : ss_psWaitQueue'[v] = ss_psWaitQueue[v]
  BY DEF TypeOK, r, p
<1>5. FreeUnused'
  BY <1>4 DEF FreeUnused
<1>6. ASSUME NEW v \in Semas, table[v] = "live"
      PROVE  /\ Members(ss_psWaitQueue'[v])
                  = {u \in Threads : pc'[u] \in Waiting /\ arg'[u].hSema = v}
             /\ \A i, j \in 1..Len(ss_psWaitQueue'[v]) :
                  ss_psWaitQueue'[v][i] = ss_psWaitQueue'[v][j] => i = j
  <2>1. {u \in Threads : pc'[u] \in Waiting /\ arg'[u].hSema = v}
          = {u \in Threads : pc[u] \in Waiting /\ arg[u].hSema = v}
    BY DEF Others, On
  <2> QED BY <1>3, <1>4, <1>6, <2>1 DEF RingMatchesCallers
<1> QED BY <1>5, <1>6 DEF RingMatchesCallers

-----------------------------------------------------------------------------
(* The rings and the calls agree in every step.                            *)

Calling == CallArgs /\ FreeUnused /\ RingMatchesCallers

\* A call that ends without having been in a live ring, rings untouched.
LEMMA QuietReturn ==
  ASSUME TypeOK, Calling, NEW t \in Threads, NEW e, Return(t, e),
         table' = table, ss_psWaitQueue' = ss_psWaitQueue,
         pc[t] \in Waiting => table[arg[t].hSema] # "live"
  PROVE  Calling'
<1>1. Others(t) /\ pc'[t] = "return" /\ pc'[t] \notin Waiting
  BY ReturnFrame
<1>2. CallArgs'
  BY <1>1, CallArgsFrame DEF Calling, Aged
<1>3. \A u \in Threads, s \in Semas : table[s] = "live" => (On(u, s)' <=> On(u, s))
  BY <1>1 DEF On, Others
<1> QED BY <1>2, <1>3, RingQuiet DEF Calling

\* A call that ends after unlinking its node from a live ring.
LEMMA UnlinkReturn ==
  ASSUME TypeOK, Calling, NEW t \in Threads, NEW e, Return(t, e), table' = table,
         NEW s \in Semas, On(t, s), table[s] = "live",
         ss_psWaitQueue' = [ss_psWaitQueue EXCEPT ![s] = remove_from_waitlist(ss_psWaitQueue[s], t)]
  PROVE  Calling'
<1>1. Others(t) /\ pc'[t] = "return" /\ pc'[t] \notin Waiting
  BY ReturnFrame
<1>2. CallArgs'
  BY <1>1, CallArgsFrame DEF Calling, Aged
<1> QED BY <1>1, <1>2, RingUnlink DEF Calling

\* A call blocks for the first time.
LEMMA FirstBlock ==
  ASSUME TypeOK, Calling, NEW t \in Threads, pc[t] = "idle", NEW place \in Waiting,
         NEW a, NEW d, a.hSema \in Semas, table[a.hSema] = "live", table' = table,
         Block(t, place, a, d, ss_psWaitQueue[a.hSema]),
         place = "lock" /\ a.hSema \in Mutexes => a.nCount = 1,
         place = "lock_mutex" => /\ a.hSema \in Mutexes /\ a.nFlags \in MutexFlags
                                 /\ a.nTimeOut = "INFINITE_TIMEOUT",
         place = "uas_unlock" => a.hUnlock \in Mutexes,
         place \in {"sleep", "spin", "uas_unlock", "uas"} => a.hSema \in WaitQueues
  PROVE  Calling'
<1>1. /\ Others(t) /\ pc'[t] = place /\ arg'[t] = a
      /\ ss_psWaitQueue' = [ss_psWaitQueue EXCEPT
            ![a.hSema] = add_to_waitlist(ss_psWaitQueue[a.hSema], t)]
  BY BlockFrame
<1>2. CallArgs'
  BY CallArgsBlock DEF Calling
<1>3. pc[t] \notin Waiting /\ pc'[t] \in Waiting /\ arg'[t].hSema = a.hSema
  BY <1>1 DEF Waiting
<1> QED BY <1>1, <1>2, <1>3, RingLink DEF Calling

\* A lock call blocks again.
LEMMA NextBlock ==
  ASSUME TypeOK, Calling, NEW t \in Threads, NEW place \in {"lock", "lock_mutex"},
         pc[t] = place, NEW d, table[arg[t].hSema] = "live", table' = table,
         Block(t, place, arg[t], d, remove_from_waitlist(ss_psWaitQueue[arg[t].hSema], t))
  PROVE  Calling'
<1> DEFINE a == arg[t]
<1>0. place \in Waiting /\ place # "uas_unlock" /\ a.hSema \in Semas
  BY DEF Calling, CallArgs, Waiting
<1>1. /\ Others(t) /\ pc'[t] = place /\ arg'[t] = a
      /\ ss_psWaitQueue' = [ss_psWaitQueue EXCEPT ![a.hSema] =
            add_to_waitlist(remove_from_waitlist(ss_psWaitQueue[a.hSema], t), t)]
  BY BlockFrame
<1>2. /\ place = "lock" /\ a.hSema \in Mutexes => a.nCount = 1
      /\ place = "lock_mutex" => /\ a.hSema \in Mutexes /\ a.nFlags \in MutexFlags
                                 /\ a.nTimeOut = "INFINITE_TIMEOUT"
  BY DEF Calling, CallArgs
<1>3. CallArgs'
  BY <1>0, <1>2, CallArgsBlock DEF Calling
<1>4. On(t, a.hSema) /\ pc'[t] \in Waiting /\ arg'[t].hSema = a.hSema
  BY <1>0, <1>1 DEF On
<1> QED BY <1>0, <1>1, <1>3, <1>4, RingRelink DEF Calling

\* Writing a ring back unchanged.
LEMMA SameRing ==
  ASSUME TypeOK, NEW s \in Semas, ss_psWaitQueue' = [ss_psWaitQueue EXCEPT ![s] = ss_psWaitQueue[s]]
  PROVE  ss_psWaitQueue' = ss_psWaitQueue
BY DEF TypeOK

\* The lock functions keep rings and callers in step.
LEMMA LockCallingStep ==
  ASSUME TypeOK, Calling, NEW t \in Threads,
         \/ \E s \in Semas, n \in Counts \cup {1}, f \in LockFlags, o \in Timeouts :
              lock_semaphore_ex(t, s, n, f, o)
         \/ lock_semaphore_resume(t)
         \/ \E s \in Semas, f \in MutexFlags : lock_mutex(t, s, f)
         \/ lock_mutex_resume(t)
  PROVE  Calling'
<1>0. {"lock", "lock_mutex"} \subseteq Waiting /\ "idle" \notin Waiting
  BY DEF Waiting
<1>1. ASSUME NEW s \in Semas, NEW n \in Counts \cup {1}, NEW f \in LockFlags,
             NEW o \in Timeouts, lock_semaphore_ex(t, s, n, f, o)
      PROVE  Calling'
  <2> DEFINE a == [NoArg EXCEPT !.hSema = s, !.nCount = n, !.nFlags = f, !.nTimeOut = o]
  <2>1. n \in Nat /\ f \in FlagKinds /\ o \in TimeoutKinds
    BY ConstantTypes
  <2>2. a.hSema = s /\ a.nCount = n
    BY <2>1, NoArgType DEF Args
  <2>3. pc[t] = "idle" /\ (s \in Mutexes => n = 1)
    BY <1>1, KindsDisjoint DEF lock_semaphore_ex, Caller, MayLock
  <2> HIDE DEF a
  <2>4. CASE InvalidHandle(t, s)
    BY <1>0, <2>3, <2>4, QuietReturn DEF InvalidHandle, semVars
  <2>5. ASSUME NEW d, table[s] = "live", TryLock(t, a, d, ss_psWaitQueue[s]), table' = table
        PROVE  Calling'
    <3>1. CASE /\ \E e \in Errors : Return(t, e)
               /\ ss_psWaitQueue' = [ss_psWaitQueue EXCEPT ![a.hSema] = ss_psWaitQueue[s]]
      BY <1>0, <2>2, <2>3, <2>5, <3>1, SameRing, QuietReturn
    <3>2. CASE Block(t, "lock", a, d, ss_psWaitQueue[s])
      BY <1>0, <2>2, <2>3, <2>5, <3>2, FirstBlock
    <3>3. {"0", "EWOULDBLOCK", "ETIME"} \subseteq Errors
      BY DEF Errors
    <3> QED BY <2>5, <3>1, <3>2, <3>3 DEF TryLock
  <2> QED BY <1>1, <2>4, <2>5 DEF lock_semaphore_ex, a
<1>2. CASE lock_semaphore_resume(t)
  <2> DEFINE a == arg[t]
             q == remove_from_waitlist(ss_psWaitQueue[a.hSema], t)
  <2>1. pc[t] = "lock" /\ a.hSema \in Semas /\ On(t, a.hSema)
    BY <1>2 DEF lock_semaphore_resume, Resumed, Calling, CallArgs, Waiting, On
  <2>2. CASE DeletedWhileBlocked(t)
    BY <2>2, QuietReturn DEF DeletedWhileBlocked, semVars
  <2>3. CASE /\ table[a.hSema] = "live" /\ table' = table
             /\ \E e \in Errors : Return(t, e)
             /\ ss_psWaitQueue' = [ss_psWaitQueue EXCEPT ![a.hSema] = q]
    BY <2>1, <2>3, UnlinkReturn
  <2>4. CASE /\ table[a.hSema] = "live" /\ table' = table
             /\ Block(t, "lock", a, deadline[t], q)
    BY <2>1, <2>4, NextBlock
  <2>5. {"0", "EWOULDBLOCK", "ETIME", "EINTR"} \subseteq Errors
    BY DEF Errors
  <2> QED BY <1>2, <2>2, <2>3, <2>4, <2>5 DEF lock_semaphore_resume, TryLock
<1>3. ASSUME NEW s \in Semas, NEW f \in MutexFlags, lock_mutex(t, s, f)
      PROVE  Calling'
  <2> DEFINE a == [NoArg EXCEPT !.hSema = s, !.nCount = 1, !.nFlags = f,
                                !.nTimeOut = "INFINITE_TIMEOUT"]
  <2>1. s \in Mutexes /\ f \in FlagKinds /\ pc[t] = "idle"
    BY <1>3, ConstantTypes DEF lock_mutex, Caller
  <2>2. a.hSema = s /\ a.nFlags = f /\ a.nTimeOut = "INFINITE_TIMEOUT"
    BY <2>1, NoArgType DEF Args
  <2> HIDE DEF a
  <2>3. CASE Return(t, "EINVAL") /\ table' = table /\ ss_psWaitQueue' = ss_psWaitQueue
    BY <1>0, <2>1, <2>3, QuietReturn
  <2>4. CASE table[s] = "live" /\ table' = table /\ TryMutex(t, a, ss_psWaitQueue[s])
    <3>1. CASE /\ Return(t, "0")
               /\ ss_psWaitQueue' = [ss_psWaitQueue EXCEPT ![a.hSema] = ss_psWaitQueue[s]]
      BY <1>0, <2>1, <2>2, <2>4, <3>1, SameRing, QuietReturn
    <3>2. CASE Block(t, "lock_mutex", a, "ahead", ss_psWaitQueue[s])
      BY <1>0, <2>1, <2>2, <2>4, <3>2, FirstBlock
    <3> QED BY <2>4, <3>1, <3>2 DEF TryMutex
  <2> QED BY <1>3, <2>3, <2>4 DEF lock_mutex, semVars, a
<1>4. CASE lock_mutex_resume(t)
  <2> DEFINE a == arg[t]
             q == remove_from_waitlist(ss_psWaitQueue[a.hSema], t)
  <2>1. pc[t] = "lock_mutex" /\ a.hSema \in Semas /\ On(t, a.hSema)
    BY <1>4 DEF lock_mutex_resume, Resumed, Calling, CallArgs, Waiting, On
  <2>2. CASE DeletedWhileBlocked(t)
    BY <2>2, QuietReturn DEF DeletedWhileBlocked, semVars
  <2>3. CASE /\ table[a.hSema] = "live" /\ table' = table
             /\ \E e \in Errors : Return(t, e)
             /\ ss_psWaitQueue' = [ss_psWaitQueue EXCEPT ![a.hSema] = q]
    BY <2>1, <2>3, UnlinkReturn
  <2>4. CASE /\ table[a.hSema] = "live" /\ table' = table
             /\ Block(t, "lock_mutex", a, "ahead", q)
    BY <2>1, <2>4, NextBlock
  <2>5. {"0", "EINTR"} \subseteq Errors
    BY DEF Errors
  <2> QED BY <1>4, <2>2, <2>3, <2>4, <2>5 DEF lock_mutex_resume, TryMutex
<1> QED BY <1>1, <1>2, <1>3, <1>4

\* Rings of deleted semaphores do not matter.
LEMMA RingDeleted ==
  ASSUME RingMatchesCallers, FreeUnused,
         \A s \in Semas : table'[s] \in {"live", "free"} =>
            table[s] = table'[s] /\ ss_psWaitQueue'[s] = ss_psWaitQueue[s],
         \A u \in Threads, s \in Semas : table'[s] = "live" => (On(u, s)' <=> On(u, s))
  PROVE  RingMatchesCallers' /\ FreeUnused'
<1>1. FreeUnused'
  BY DEF FreeUnused
<1>2. ASSUME NEW v \in Semas, table'[v] = "live"
      PROVE  /\ Members(ss_psWaitQueue'[v])
                  = {u \in Threads : pc'[u] \in Waiting /\ arg'[u].hSema = v}
             /\ \A i, j \in 1..Len(ss_psWaitQueue'[v]) :
                  ss_psWaitQueue'[v][i] = ss_psWaitQueue'[v][j] => i = j
  <2>1. {u \in Threads : pc'[u] \in Waiting /\ arg'[u].hSema = v}
          = {u \in Threads : pc[u] \in Waiting /\ arg[u].hSema = v}
    BY <1>2 DEF On
  <2> QED BY <1>2, <2>1 DEF RingMatchesCallers
<1> QED BY <1>1, <1>2 DEF RingMatchesCallers

\* So do the functions on wait queues ...
LEMMA WaitCallingStep ==
  ASSUME TypeOK, Calling, NEW t \in Threads,
         \/ \E s \in Semas, o \in Timeouts :
              sleep_on_sem(t, s, o) \/ spinunlock_and_suspend(t, s, o)
         \/ sleep_on_sem_resume(t)
         \/ spinunlock_and_suspend_resume(t)
         \/ \E s \in Semas, b \in BOOLEAN : wakeup_sem(t, s, b)
         \/ \E s \in Semas, h \in WaitQueues : unlock_and_suspend(t, h, s)
         \/ unlock_and_suspend_unlocks(t)
         \/ unlock_and_suspend_resume(t)
  PROVE  Calling'
<1>0. /\ {"sleep", "spin", "uas_unlock", "uas"} \subseteq Waiting
      /\ "idle" \notin Waiting /\ "return" \notin Waiting
  BY DEF Waiting
<1>1. ASSUME NEW s \in Semas, NEW o \in Timeouts,
             sleep_on_sem(t, s, o) \/ spinunlock_and_suspend(t, s, o)
      PROVE  Calling'
  <2> DEFINE a == [NoArg EXCEPT !.hSema = s, !.nTimeOut = o]
  <2>1. a.hSema = s /\ pc[t] = "idle" /\ s \in WaitQueues
    BY <1>1, NoArgType, ConstantTypes DEF Args, sleep_on_sem, spinunlock_and_suspend, Caller
  <2> HIDE DEF a
  <2>2. CASE InvalidHandle(t, s)
    BY <1>0, <2>1, <2>2, QuietReturn DEF InvalidHandle, semVars
  <2>3. CASE Return(t, "ETIME") /\ UNCHANGED <<ss_psWaitQueue, table>>
    BY <1>0, <2>1, <2>3, QuietReturn
  <2>4. ASSUME NEW d, NEW place \in {"sleep", "spin"}, table[s] = "live", table' = table,
               Block(t, place, a, d, ss_psWaitQueue[s])
        PROVE  Calling'
    BY <1>0, <2>1, <2>4, FirstBlock
  <2>5. CASE sleep_on_sem(t, s, o)
    BY <2>2, <2>3, <2>4, <2>5 DEF sleep_on_sem, a
  <2>6. CASE spinunlock_and_suspend(t, s, o)
    BY <2>2, <2>3, <2>4, <2>6 DEF spinunlock_and_suspend, a
  <2> QED BY <1>1, <2>5, <2>6
<1>2. CASE sleep_on_sem_resume(t) \/ spinunlock_and_suspend_resume(t)
  <2>1. arg[t].hSema \in Semas /\ On(t, arg[t].hSema)
    BY <1>2 DEF sleep_on_sem_resume, spinunlock_and_suspend_resume, Resumed, Calling,
                CallArgs, Waiting, On
  <2>2. CASE DeletedWhileBlocked(t)
    BY <2>2, QuietReturn DEF DeletedWhileBlocked, semVars
  <2>3. ASSUME NEW e, table[arg[t].hSema] = "live", table' = table, Return(t, e),
               ss_psWaitQueue' = [ss_psWaitQueue EXCEPT ![arg[t].hSema] = remove_from_waitlist(@, t)]
        PROVE  Calling'
    BY <2>1, <2>3, UnlinkReturn
  <2>4. CASE sleep_on_sem_resume(t)
    BY <2>2, <2>3, <2>4 DEF sleep_on_sem_resume
  <2>5. CASE spinunlock_and_suspend_resume(t)
    BY <2>2, <2>3, <2>5 DEF spinunlock_and_suspend_resume
  <2> QED BY <1>2, <2>4, <2>5
<1>3. ASSUME NEW s \in Semas, NEW b \in BOOLEAN, wakeup_sem(t, s, b)
      PROVE  Calling'
  <2>1. pc[t] = "idle" /\ table' = table /\ ss_psWaitQueue' = ss_psWaitQueue
    BY <1>3 DEF wakeup_sem, Caller, InvalidHandle, semVars
  <2>2. \E e : Return(t, e)
    BY <1>3 DEF wakeup_sem, InvalidHandle
  <2> QED BY <1>0, <2>1, <2>2, QuietReturn
<1>4. ASSUME NEW s \in Semas, NEW h \in WaitQueues, unlock_and_suspend(t, h, s)
      PROVE  Calling'
  <2> DEFINE a == [NoArg EXCEPT !.hSema = h, !.hUnlock = s, !.nTimeOut = "INFINITE_TIMEOUT"]
  <2>1. h \in Semas /\ s \in Mutexes /\ pc[t] = "idle"
    BY <1>4 DEF Semas, unlock_and_suspend, Caller
  <2>2. a.hSema = h /\ a.hUnlock = s
    BY NoArgType DEF Args
  <2> HIDE DEF a
  <2>3. CASE InvalidHandle(t, h)
    BY <1>0, <2>1, <2>3, QuietReturn DEF InvalidHandle, semVars
  <2>4. CASE /\ table[h] = "live" /\ table' = table
             /\ Block(t, "uas_unlock", a, "ahead", ss_psWaitQueue[h])
    BY <1>0, <2>1, <2>2, <2>4, FirstBlock
  <2> QED BY <1>4, <2>3, <2>4 DEF unlock_and_suspend, a
<1>5. CASE unlock_and_suspend_unlocks(t)
  <2>1. /\ pc[t] = "uas_unlock" /\ pc'[t] = "uas" /\ Others(t)
        /\ table' = table /\ ss_psWaitQueue' = ss_psWaitQueue
    BY <1>5 DEF unlock_and_suspend_unlocks, TypeOK, Others
  <2>2. arg'[t].hSema = arg[t].hSema
    BY <1>5 DEF unlock_and_suspend_unlocks, TypeOK, Args
  <2>3. CallArgs'
    BY <2>1, <2>2 DEF Calling, CallArgs, Others, Waiting
  <2>4. \A u \in Threads, s \in Semas : On(u, s)' <=> On(u, s)
    BY <1>0, <2>1, <2>2 DEF On, Others
  <2> QED BY <2>1, <2>3, <2>4, RingQuiet DEF Calling
<1>6. CASE unlock_and_suspend_resume(t)
  <2> DEFINE h == arg[t].hSema
  <2>1. /\ h \in Semas /\ On(t, h) /\ table' = table /\ \E e : Return(t, e)
    BY <1>6 DEF unlock_and_suspend_resume, Resumed, Calling, CallArgs, Waiting, On
  <2>2. CASE table[h] = "live"
    <3>1. ss_psWaitQueue' = [ss_psWaitQueue EXCEPT ![h] = remove_from_waitlist(ss_psWaitQueue[h], t)]
      BY <1>6, <2>2 DEF unlock_and_suspend_resume
    <3> QED BY <2>1, <2>2, <3>1, UnlinkReturn
  <2>3. CASE table[h] # "live"
    <3>1. \A s \in Semas : table[s] \in {"live", "free"} => ss_psWaitQueue'[s] = ss_psWaitQueue[s]
      BY <1>6, <2>1, <2>3 DEF unlock_and_suspend_resume, TypeOK
    <3>2. Others(t) /\ pc'[t] = "return" /\ pc'[t] \notin Waiting
      BY <2>1, ReturnFrame
    <3>3. CallArgs'
      BY <2>1, <3>2, CallArgsFrame DEF Calling, Aged
    <3>4. \A u \in Threads, s \in Semas : table[s] = "live" => (On(u, s)' <=> On(u, s))
      BY <2>1, <2>3, <3>2 DEF On, Others
    <3> QED BY <2>1, <3>1, <3>3, <3>4, RingDeleted DEF Calling
  <2> QED BY <2>2, <2>3
<1> QED BY <1>1, <1>2, <1>3, <1>4, <1>5, <1>6

\* ... and creation, deletion, release and return.
LEMMA OtherCallingStep ==
  ASSUME TypeOK, Calling, NEW t \in Threads,
         \/ \E s \in Semas : \/ create_semaphore(t, s)
                            \/ delete_semaphore(t, s)
                            \/ unlock_mutex(t, s)
                            \/ \E n \in Counts \cup {1} : unlock_semaphore_ex(t, s, n)
         \/ delete_wakes(t)
         \/ LeaveCall(t)
  PROVE  Calling'
<1>0. {"idle", "return", "delete"} \cap Waiting = {}
  BY DEF Waiting
<1>1. ASSUME NEW s \in Semas, create_semaphore(t, s)
      PROVE  Calling'
  <2>1. /\ table[s] = "free" /\ table' = [table EXCEPT ![s] = "live"]
        /\ ss_psWaitQueue' = ss_psWaitQueue /\ pc' = pc /\ arg' = arg
    BY <1>1 DEF create_semaphore, threadVars
  <2>2. CallArgs'
    BY <2>1 DEF Calling, CallArgs, TypeOK
  <2>3. FreeUnused'
    BY <2>1 DEF Calling, FreeUnused, TypeOK
  <2>4. ss_psWaitQueue[s] = <<>> /\ \A u \in Threads : ~On(u, s)
    BY <2>1 DEF Calling, CallArgs, FreeUnused, On
  <2>5. ASSUME NEW v \in Semas, table'[v] = "live"
        PROVE  /\ Members(ss_psWaitQueue'[v])
                    = {u \in Threads : pc'[u] \in Waiting /\ arg'[u].hSema = v}
               /\ \A i, j \in 1..Len(ss_psWaitQueue'[v]) :
                    ss_psWaitQueue'[v][i] = ss_psWaitQueue'[v][j] => i = j
    <3>1. CASE v = s
      BY <2>1, <2>4, <3>1 DEF On, Members
    <3>2. CASE v # s
      BY <2>1, <2>5, <3>2 DEF Calling, RingMatchesCallers, TypeOK
    <3> QED BY <3>1, <3>2
  <2> QED BY <2>2, <2>3, <2>5 DEF Calling, RingMatchesCallers
<1>2. ASSUME NEW s \in Semas, delete_semaphore(t, s)
      PROVE  Calling'
  <2>a. pc[t] = "idle"
    BY <1>2 DEF delete_semaphore, Caller
  <2>b. CASE InvalidHandle(t, s)
    BY <1>0, <2>a, <2>b, QuietReturn DEF InvalidHandle, semVars
  <2>c. SUFFICES ASSUME unlink_semaphore(t, s) PROVE Calling'
    BY <1>2, <2>b DEF delete_semaphore
  <2>1. /\ table[s] = "live" /\ table' = [table EXCEPT ![s] = "unlinked"]
        /\ ss_psWaitQueue' = ss_psWaitQueue /\ Others(t)
        /\ pc[t] = "idle" /\ pc'[t] = "delete"
    BY <2>a, <2>c DEF unlink_semaphore, TypeOK, Others
  <2>2. arg'[t].hSema = s
    BY <2>c, NoArgType DEF unlink_semaphore, TypeOK, Args
  <2>3. CallArgs'
    BY <2>1, <2>2 DEF Calling, CallArgs, TypeOK, Others, Waiting
  <2>4. \A u \in Threads, v \in Semas : On(u, v)' <=> On(u, v)
    BY <1>0, <2>1 DEF On, Others
  <2>5. \A v \in Semas : table'[v] \in {"live", "free"} => table[v] = table'[v]
    BY <2>1 DEF TypeOK
  <2> QED BY <2>1, <2>3, <2>4, <2>5, RingDeleted DEF Calling
<1>3. ASSUME NEW s \in Semas,
             unlock_mutex(t, s) \/ \E n \in Counts \cup {1} : unlock_semaphore_ex(t, s, n)
      PROVE  Calling'
  <2>1. pc[t] = "idle" /\ table' = table /\ ss_psWaitQueue' = ss_psWaitQueue
    BY <1>3 DEF unlock_mutex, unlock_semaphore_ex, Caller, InvalidHandle, semVars
  <2>2. \E e : Return(t, e)
    BY <1>3 DEF unlock_mutex, unlock_semaphore_ex, InvalidHandle
  <2> QED BY <1>0, <2>1, <2>2, QuietReturn
<1>4. CASE delete_wakes(t)
  <2> DEFINE s == arg[t].hSema
  <2>1. /\ s \in Semas /\ table[s] \in {"unlinked", "freed"} /\ pc[t] = "delete"
        /\ table' = [table EXCEPT ![s] = "freed"]
        /\ ss_psWaitQueue' = [ss_psWaitQueue EXCEPT ![s] = <<>>]
        /\ Return(t, "0")
    BY <1>4 DEF delete_wakes, Calling, CallArgs
  <2>2. Others(t) /\ pc'[t] = "return" /\ pc'[t] \notin Waiting
    BY <2>1, ReturnFrame
  <2>3. Aged
    BY <2>1 DEF Aged, TypeOK
  <2>4. CallArgs'
    BY <2>2, <2>3, CallArgsFrame DEF Calling
  <2>5. \A u \in Threads, v \in Semas : On(u, v)' <=> On(u, v)
    BY <1>0, <2>1, <2>2 DEF On, Others
  <2>6. \A v \in Semas : table'[v] \in {"live", "free"} =>
            table[v] = table'[v] /\ ss_psWaitQueue'[v] = ss_psWaitQueue[v]
    BY <2>1 DEF TypeOK
  <2> QED BY <2>4, <2>5, <2>6, RingDeleted DEF Calling
<1>5. CASE LeaveCall(t)
  <2>1. /\ pc[t] = "return" /\ pc'[t] = "idle" /\ Others(t)
        /\ table' = table /\ ss_psWaitQueue' = ss_psWaitQueue
    BY <1>5 DEF LeaveCall, TypeOK, Others, semVars
  <2>2. CallArgs'
    BY <2>1, CallArgsFrame DEF Calling, Aged
  <2>3. \A u \in Threads, v \in Semas : On(u, v)' <=> On(u, v)
    BY <1>0, <2>1 DEF On, Others
  <2> QED BY <2>1, <2>2, <2>3, RingQuiet DEF Calling
<1> QED BY <1>1, <1>2, <1>3, <1>4, <1>5

\* Every step keeps rings and callers in step.
LEMMA CallingStep ==
  ASSUME TypeOK, Calling, [Next]_vars
  PROVE  Calling'
<1>1. CASE UNCHANGED <<semVars, pc, arg>>
  BY <1>1 DEF semVars, Calling, CallArgs, FreeUnused, RingMatchesCallers
<1>2. ASSUME NEW t \in Threads, Client(t) \/ Continue(t) \/ send_signal(t) \/ TimePasses(t)
      PROVE  Calling'
  <2>1. CASE handle_signals(t) \/ send_signal(t) \/ TimePasses(t)
    BY <1>1, <2>1 DEF handle_signals, send_signal, TimePasses
  <2> QED BY <1>2, <2>1, LockCallingStep, WaitCallingStep, OtherCallingStep DEF Client, Continue
<1>3. CASE wake_up_sleepers
  BY <1>1, <1>3 DEF wake_up_sleepers
<1>4. CASE UNCHANGED vars
  BY <1>1, <1>4 DEF vars, threadVars
<1> QED BY <1>2, <1>3, <1>4 DEF Next

-----------------------------------------------------------------------------
(* The counter, the holder and the threads inside a mutex agree.           *)

MutexFree(s) == /\ ss_lNestCount[s] = 1 /\ ss_hHolder[s] = NoThread
                /\ \A t \in Threads : held[s][t] = 0
MutexHeld(s, t) == /\ ss_hHolder[s] \in {t, NoThread}
                   /\ held[s][t] = 1 - ss_lNestCount[s] /\ held[s][t] > 0
                   /\ \A u \in Threads \ {t} : held[s][u] = 0
OneMutex(s) == IF table[s] # "live" THEN \A t \in Threads : held[s][t] = 0
               ELSE MutexFree(s) \/ \E t \in Threads : MutexHeld(s, t)

\* MutexCount, one mutex at a time.
LEMMA MutexCountDef == MutexCount <=> \A s \in Mutexes : OneMutex(s)
BY DEF MutexCount, OneMutex, MutexFree, MutexHeld

\* A step that changes the state of at most one mutex.
LEMMA MutexFrame ==
  ASSUME MutexCount, NEW s,
         \A m \in Mutexes \ {s} : /\ table'[m] = table[m] /\ held'[m] = held[m]
                                  /\ ss_lNestCount'[m] = ss_lNestCount[m]
                                  /\ ss_hHolder'[m] = ss_hHolder[m],
         s \in Mutexes => OneMutex(s)'
  PROVE  MutexCount'
<1>1. \A m \in Mutexes \ {s} : OneMutex(m)'
  BY MutexCountDef DEF OneMutex, MutexFree, MutexHeld
<1>2. \A m \in Mutexes : OneMutex(m)'
  BY <1>1
<1> QED BY <1>2 DEF MutexCount, OneMutex, MutexFree, MutexHeld

\* Taking a mutex: it is free, or recursive and taken by the same thread.
LEMMA Take ==
  ASSUME TypeOK, MutexCount, NEW s \in Mutexes, NEW t \in Threads, table[s] = "live",
         ss_lNestCount[s] > 0 \/ ss_hHolder[s] = t, table' = table,
         ss_lNestCount' = [ss_lNestCount EXCEPT ![s] = @ - 1],
         held' = [held EXCEPT ![s][t] = @ + 1],
         \/ ss_hHolder' = [ss_hHolder EXCEPT ![s] = t]
         \/ ss_hHolder' = ss_hHolder /\ ss_lNestCount[s] > 0
  PROVE  MutexCount'
<1>0. s \in Semas /\ NoThread \notin Threads
  BY ConstantTypes DEF Semas
<1>1. /\ ss_lNestCount[s] \in Int /\ ss_lNestCount'[s] = ss_lNestCount[s] - 1
      /\ \A m \in Mutexes \ {s} : ss_lNestCount'[m] = ss_lNestCount[m]
  BY <1>0 DEF TypeOK, Semas
<1>2. /\ held[s][t] \in Nat /\ held'[s][t] = held[s][t] + 1
      /\ \A u \in Threads \ {t} : held'[s][u] = held[s][u]
      /\ \A m \in Mutexes \ {s} : held'[m] = held[m]
  BY DEF TypeOK
<1>3. /\ ss_hHolder'[s] \in {t, ss_hHolder[s]}
      /\ ss_lNestCount[s] <= 0 => ss_hHolder'[s] = t
      /\ \A m \in Mutexes \ {s} : ss_hHolder'[m] = ss_hHolder[m]
  BY <1>0, <1>1 DEF TypeOK, Semas
<1>4. OneMutex(s)
  BY MutexCountDef
<1>5. MutexHeld(s, t)'
  <2>1. CASE MutexFree(s)
    BY <1>1, <1>2, <1>3, <2>1 DEF MutexFree, MutexHeld
  <2>2. ASSUME NEW u \in Threads, MutexHeld(s, u) PROVE MutexHeld(s, t)'
    <3>1. held[s][u] \in Nat
      BY DEF TypeOK
    <3>2. ss_lNestCount[s] <= 0 /\ ss_hHolder[s] = t
      BY <1>1, <2>2, <3>1 DEF MutexHeld
    <3>3. u = t
      BY <1>0, <2>2, <3>2 DEF MutexHeld
    <3> QED BY <1>1, <1>2, <1>3, <2>2, <3>2, <3>3 DEF MutexHeld
  <2> QED BY <1>4, <2>1, <2>2 DEF OneMutex
<1>6. OneMutex(s)'
  BY <1>5 DEF OneMutex
<1> QED BY <1>1, <1>2, <1>3, <1>6, MutexFrame

\* Releasing a mutex one holds.
LEMMA Drop ==
  ASSUME TypeOK, MutexCount, NEW s \in Mutexes, NEW t \in Threads, table[s] = "live",
         held[s][t] > 0, table' = table, Release(s, 1),
         held' = [held EXCEPT ![s][t] = @ - 1]
  PROVE  MutexCount'
<1>0. s \in Semas /\ NoThread \notin Threads
  BY ConstantTypes DEF Semas
<1>1. /\ ss_lNestCount[s] \in Int /\ ss_lNestCount'[s] = ss_lNestCount[s] + 1
      /\ \A m \in Mutexes \ {s} : ss_lNestCount'[m] = ss_lNestCount[m]
  BY <1>0 DEF TypeOK, Semas, Release
<1>2. /\ held[s][t] \in Nat /\ held'[s][t] = held[s][t] - 1
      /\ \A u \in Threads \ {t} : held'[s][u] = held[s][u]
      /\ \A m \in Mutexes \ {s} : held'[m] = held[m]
  BY DEF TypeOK
<1>3. /\ ss_hHolder'[s] = IF ss_lNestCount[s] + 1 > 0 THEN NoThread ELSE ss_hHolder[s]
      /\ \A m \in Mutexes \ {s} : ss_hHolder'[m] = ss_hHolder[m]
  BY <1>0 DEF TypeOK, Semas, Release
<1>4. MutexHeld(s, t)
  <2>1. OneMutex(s)
    BY MutexCountDef
  <2>2. ASSUME NEW u \in Threads, MutexHeld(s, u) PROVE u = t
    BY <1>2, <2>2 DEF MutexHeld
  <2> QED BY <1>2, <2>1, <2>2 DEF OneMutex, MutexFree
<1>5. CASE held[s][t] = 1
  <2>1. ss_lNestCount'[s] = 1 /\ ss_hHolder'[s] = NoThread
    BY <1>1, <1>3, <1>4, <1>5 DEF MutexHeld
  <2>2. \A u \in Threads : held'[s][u] = 0
    BY <1>2, <1>4, <1>5 DEF MutexHeld
  <2>3. OneMutex(s)'
    BY <2>1, <2>2 DEF OneMutex, MutexFree
  <2> QED BY <1>1, <1>2, <1>3, <2>3, MutexFrame
<1>6. CASE held[s][t] # 1
  <2>1. MutexHeld(s, t)'
    BY <1>1, <1>2, <1>3, <1>4, <1>6 DEF MutexHeld
  <2>2. OneMutex(s)'
    BY <2>1 DEF OneMutex
  <2> QED BY <1>1, <1>2, <1>3, <2>2, MutexFrame
<1> QED BY <1>5, <1>6

\* Steps that leave every mutex alone.
LEMMA MutexQuiet ==
  ASSUME MutexCount, UNCHANGED <<table, ss_lNestCount, ss_hHolder, held>>
  PROVE  MutexCount'
BY DEF MutexCount

\* One turn of the loop of do_lock_semaphore_ex keeps the count of a mutex.
LEMMA TryLockMutex ==
  ASSUME TypeOK, MutexCount, NEW t \in Threads, NEW a, NEW d, NEW q,
         a.hSema \in Semas, table[a.hSema] = "live", table' = table,
         a.hSema \in Mutexes => a.nCount = 1, TryLock(t, a, d, q)
  PROVE  MutexCount'
<1> DEFINE s == a.hSema
<1>1. CASE UNCHANGED <<ss_lNestCount, ss_hHolder, held>>
  BY <1>1, MutexQuiet
<1>2. CASE /\ Available(s, a.nCount, t)
           /\ ss_lNestCount' = [ss_lNestCount EXCEPT ![s] = @ - a.nCount]
           /\ ss_hHolder' = [ss_hHolder EXCEPT ![s] = t]
           /\ held' = IF s \in Mutexes THEN [held EXCEPT ![s][t] = @ + 1] ELSE held
  <2>1. CASE s \in Mutexes
    <3>1. ss_lNestCount[s] > 0 \/ ss_hHolder[s] = t
      BY <1>2, <2>1 DEF Available, TypeOK
    <3> QED BY <1>2, <2>1, <3>1, Take
  <2>2. CASE s \notin Mutexes
    <3>1. \A m \in Mutexes : /\ held'[m] = held[m]
                             /\ ss_lNestCount'[m] = ss_lNestCount[m]
                             /\ ss_hHolder'[m] = ss_hHolder[m]
      BY <1>2, <2>2 DEF TypeOK, Semas
    <3> QED BY <2>2, <3>1, MutexFrame
  <2> QED BY <2>1, <2>2
<1> QED BY <1>1, <1>2 DEF TryLock

\* One turn of the loop of lock_mutex keeps the count of a mutex.
LEMMA TryMutexMutex ==
  ASSUME TypeOK, MutexCount, NEW t \in Threads, NEW a, NEW q,
         a.hSema \in Mutexes, table[a.hSema] = "live",
         UNCHANGED <<table, ss_hHolder>>, TryMutex(t, a, q)
  PROVE  MutexCount'
<1>1. CASE UNCHANGED <<ss_lNestCount, held>>
  BY <1>1, MutexQuiet
<1>2. CASE /\ ss_lNestCount[a.hSema] > 0
           /\ ss_lNestCount' = [ss_lNestCount EXCEPT ![a.hSema] = @ - 1]
           /\ held' = [held EXCEPT ![a.hSema][t] = @ + 1]
  BY <1>2, Take
<1> QED BY <1>1, <1>2 DEF TryMutex

\* Every step keeps counter, holder and the threads inside in agreement.
LEMMA MutexStep ==
  ASSUME TypeOK, CallArgs, MutexCount, [Next]_vars
  PROVE  MutexCount'
<1>1. ASSUME NEW t \in Threads, NEW s \in Semas, create_semaphore(t, s) PROVE MutexCount'
  <2>1. /\ table[s] = "free" /\ held' = held
        /\ \A m \in Semas \ {s} : /\ table'[m] = table[m]
                                  /\ ss_lNestCount'[m] = ss_lNestCount[m]
                                  /\ ss_hHolder'[m] = ss_hHolder[m]
    BY <1>1 DEF create_semaphore, histVars, TypeOK
  <2>2. s \in Mutexes => MutexFree(s)'
    <3> SUFFICES ASSUME s \in Mutexes PROVE MutexFree(s)'
      OBVIOUS
    <3>1. OneMutex(s)
      BY MutexCountDef
    <3>2. \A u \in Threads : held'[s][u] = 0
      BY <2>1, <3>1 DEF OneMutex
    <3>3. ss_lNestCount'[s] = 1 /\ ss_hHolder'[s] = NoThread
      BY <1>1, KindsDisjoint DEF create_semaphore, TypeOK
    <3> QED BY <3>2, <3>3 DEF MutexFree
  <2>3. s \in Mutexes => OneMutex(s)'
    BY <1>1, <2>2 DEF OneMutex, create_semaphore, TypeOK
  <2> QED BY <2>1, <2>3, MutexFrame DEF Semas
<1>2. ASSUME NEW t \in Threads, NEW s \in Semas, delete_semaphore(t, s) PROVE MutexCount'
  <2>a. CASE InvalidHandle(t, s)
    BY <2>a, MutexQuiet DEF InvalidHandle, semVars, histVars
  <2>b. SUFFICES ASSUME unlink_semaphore(t, s) PROVE MutexCount'
    BY <1>2, <2>a DEF delete_semaphore
  <2>1. \A m \in Mutexes \ {s} : /\ table'[m] = table[m] /\ held'[m] = held[m]
                                  /\ ss_lNestCount'[m] = ss_lNestCount[m]
                                  /\ ss_hHolder'[m] = ss_hHolder[m]
    BY <2>b DEF unlink_semaphore, TypeOK, Semas
  <2>2. s \in Mutexes => OneMutex(s)'
    BY <2>b DEF unlink_semaphore, TypeOK, Semas, OneMutex
  <2> QED BY <2>1, <2>2, MutexFrame
<1>3. ASSUME NEW t \in Threads, NEW s \in Semas, NEW n \in Counts \cup {1},
             NEW f \in LockFlags, NEW o \in Timeouts, lock_semaphore_ex(t, s, n, f, o)
      PROVE  MutexCount'
  <2> DEFINE a == [NoArg EXCEPT !.hSema = s, !.nCount = n, !.nFlags = f, !.nTimeOut = o]
  <2>1. n \in Nat /\ f \in FlagKinds /\ o \in TimeoutKinds
    BY ConstantTypes
  <2>2. a.hSema = s /\ a.nCount = n
    BY <2>1, NoArgType DEF Args
  <2>3. s \in Mutexes => n = 1
    BY <1>3, KindsDisjoint DEF lock_semaphore_ex, MayLock
  <2> HIDE DEF a
  <2>4. CASE InvalidHandle(t, s)
    BY <2>4, MutexQuiet DEF InvalidHandle, semVars, histVars
  <2>5. ASSUME NEW d, table[s] = "live", table' = table, TryLock(t, a, d, ss_psWaitQueue[s])
        PROVE  MutexCount'
    BY <2>2, <2>3, <2>5, TryLockMutex
  <2> QED BY <1>3, <2>4, <2>5 DEF lock_semaphore_ex, a
<1>4. ASSUME NEW t \in Threads, lock_semaphore_resume(t) PROVE MutexCount'
  <2>1. arg[t].hSema \in Semas /\ (arg[t].hSema \in Mutexes => arg[t].nCount = 1)
    BY <1>4 DEF lock_semaphore_resume, Resumed, CallArgs, Waiting
  <2>2. CASE UNCHANGED <<table, ss_lNestCount, ss_hHolder, held>>
    BY <2>2, MutexQuiet
  <2>3. ASSUME NEW d, NEW q, table[arg[t].hSema] = "live", table' = table, TryLock(t, arg[t], d, q)
        PROVE  MutexCount'
    BY <2>1, <2>3, TryLockMutex
  <2> QED BY <1>4, <2>2, <2>3 DEF lock_semaphore_resume, DeletedWhileBlocked, semVars, histVars
<1>5. ASSUME NEW t \in Threads, NEW s \in Semas, NEW f \in MutexFlags, lock_mutex(t, s, f)
      PROVE  MutexCount'
  <2> DEFINE a == [NoArg EXCEPT !.hSema = s, !.nCount = 1, !.nFlags = f,
                                !.nTimeOut = "INFINITE_TIMEOUT"]
  <2>1. s \in Mutexes /\ a.hSema = s
    BY <1>5, NoArgType DEF lock_mutex, Args
  <2> HIDE DEF a
  <2>2. CASE UNCHANGED <<table, ss_lNestCount, ss_hHolder, held>>
    BY <2>2, MutexQuiet
  <2>3. CASE /\ table[s] = "live" /\ UNCHANGED <<table, ss_hHolder>>
             /\ TryMutex(t, a, ss_psWaitQueue[s])
    BY <2>1, <2>3, TryMutexMutex
  <2> QED BY <1>5, <2>2, <2>3 DEF lock_mutex, semVars, histVars, a
<1>6. ASSUME NEW t \in Threads, lock_mutex_resume(t) PROVE MutexCount'
  <2>1. arg[t].hSema \in Mutexes
    BY <1>6 DEF lock_mutex_resume, Resumed, CallArgs
  <2>2. CASE UNCHANGED <<table, ss_lNestCount, ss_hHolder, held>>
    BY <2>2, MutexQuiet
  <2>3. ASSUME NEW q, table[arg[t].hSema] = "live", UNCHANGED <<table, ss_hHolder>>,
               TryMutex(t, arg[t], q)
        PROVE  MutexCount'
    BY <2>1, <2>3, TryMutexMutex
  <2> QED BY <1>6, <2>2, <2>3 DEF lock_mutex_resume, DeletedWhileBlocked, semVars, histVars
<1>7. ASSUME NEW t \in Threads, NEW s \in Semas, NEW n \in Counts \cup {1},
             unlock_semaphore_ex(t, s, n)
      PROVE  MutexCount'
  <2>1. CASE InvalidHandle(t, s)
    BY <2>1, MutexQuiet DEF InvalidHandle, semVars, histVars
  <2>2. CASE /\ table[s] = "live" /\ table' = table /\ Release(s, n)
             /\ held' = IF s \in Mutexes THEN [held EXCEPT ![s][t] = @ - 1] ELSE held
    <3>1. CASE s \in Mutexes
      <4>1. n = 1 /\ held[s][t] > 0
        BY <1>7, <2>2, <3>1, KindsDisjoint DEF unlock_semaphore_ex, MayUnlock
      <4> QED BY <2>2, <3>1, <4>1, Drop
    <3>2. CASE s \notin Mutexes
      <4>1. \A m \in Mutexes : /\ held'[m] = held[m]
                               /\ ss_lNestCount'[m] = ss_lNestCount[m]
                               /\ ss_hHolder'[m] = ss_hHolder[m]
        BY <2>2, <3>2 DEF TypeOK, Semas, Release
      <4> QED BY <2>2, <3>2, <4>1, MutexFrame
    <3> QED BY <3>1, <3>2
  <2> QED BY <1>7, <2>1, <2>2 DEF unlock_semaphore_ex
<1>8. ASSUME NEW t \in Threads, NEW s \in Semas, unlock_mutex(t, s) PROVE MutexCount'
  <2>1. CASE InvalidHandle(t, s)
    BY <2>1, MutexQuiet DEF InvalidHandle, semVars, histVars
  <2>2. CASE table[s] = "live"
    <3>1. s \in Mutexes /\ held[s][t] > 0
      BY <1>8, <2>2, KindsDisjoint DEF unlock_mutex, MayUnlock
    <3> QED BY <1>8, <2>1, <2>2, <3>1, Drop DEF unlock_mutex
  <2> QED BY <1>8, <2>1, <2>2 DEF unlock_mutex
<1>9. ASSUME NEW t \in Threads, unlock_and_suspend_unlocks(t) PROVE MutexCount'
  <2>1. arg[t].hUnlock \in Mutexes
    BY <1>9 DEF unlock_and_suspend_unlocks, CallArgs
  <2>2. CASE UNCHANGED <<table, ss_lNestCount, ss_hHolder, held>>
    BY <2>2, MutexQuiet
  <2> QED BY <1>9, <2>1, <2>2, Drop DEF unlock_and_suspend_unlocks
<1>10. ASSUME NEW t \in Threads, delete_wakes(t) PROVE MutexCount'
  <2>0. PICK s \in Semas : s = arg[t].hSema
    BY <1>10 DEF delete_wakes, CallArgs
  <2>1. /\ table[s] # "live" /\ table' = [table EXCEPT ![s] = "freed"]
        /\ UNCHANGED <<ss_lNestCount, ss_hHolder, held>>
    BY <1>10, <2>0 DEF delete_wakes, CallArgs
  <2>2. \A m \in Mutexes \ {s} : table'[m] = table[m]
    BY <2>1 DEF TypeOK, Semas
  <2>3. s \in Mutexes => OneMutex(s)'
    BY <2>1, MutexCountDef DEF OneMutex, TypeOK
  <2> QED BY <2>1, <2>2, <2>3, MutexFrame
<1>11. CASE UNCHANGED <<table, ss_lNestCount, ss_hHolder, held>>
  BY <1>11, MutexQuiet
<1>12. ASSUME NEW t \in Threads, NEW s \in Semas,
              \/ \E o \in Timeouts : sleep_on_sem(t, s, o) \/ spinunlock_and_suspend(t, s, o)
              \/ \E b \in BOOLEAN : wakeup_sem(t, s, b)
              \/ \E h \in WaitQueues : unlock_and_suspend(t, h, s)
       PROVE  MutexCount'
  BY <1>11, <1>12 DEF sleep_on_sem, spinunlock_and_suspend, wakeup_sem, unlock_and_suspend,
                      InvalidHandle, semVars, histVars
<1>13. ASSUME NEW t \in Threads,
              \/ LeaveCall(t) \/ handle_signals(t) \/ send_signal(t) \/ TimePasses(t)
              \/ sleep_on_sem_resume(t) \/ spinunlock_and_suspend_resume(t)
              \/ unlock_and_suspend_resume(t)
       PROVE  MutexCount'
  BY <1>11, <1>13 DEF LeaveCall, handle_signals, send_signal, TimePasses, sleep_on_sem_resume,
                      spinunlock_and_suspend_resume, unlock_and_suspend_resume,
                      DeletedWhileBlocked, semVars, histVars
<1>14. CASE wake_up_sleepers \/ UNCHANGED vars
  BY <1>11, <1>14 DEF wake_up_sleepers, vars, semVars, histVars
<1> QED BY <1>1, <1>2, <1>3, <1>4, <1>5, <1>6, <1>7, <1>8, <1>9, <1>10, <1>12, <1>13, <1>14
        DEF Next, Client, Continue

-----------------------------------------------------------------------------
(* The theorems.                                                           *)

\* The invariant holds before any semaphore is created.
LEMMA InitInv == Init => Inv
<1> SUFFICES ASSUME Init PROVE Inv
  OBVIOUS
<1>1. TypeOK
  <2>1. <<>> \in Seq(Threads)
    OBVIOUS
  <2> QED BY <2>1, NoArgType DEF Init, TypeOK, TableStates, ThreadStates, Deadlines, Causes,
                                 Places, FaultKinds
<1>2. CallArgs /\ FreeUnused
  BY DEF Init, CallArgs, FreeUnused, Waiting
<1>3. RingMatchesCallers /\ MutexCount
  BY DEF Init, RingMatchesCallers, MutexCount, Semas
<1> QED BY <1>1, <1>2, <1>3 DEF Inv

\* In every reachable state the variables have their types, each live ring
\* holds exactly the nodes of the calls blocked on it, and the counter and
\* holder of each mutex agree with the threads inside.
THEOREM Invariance == Spec => []Inv
<1>1. Inv /\ [Next]_vars => Inv'
  <2> SUFFICES ASSUME Inv, [Next]_vars PROVE Inv'
    OBVIOUS
  <2>1. TypeOK /\ Calling /\ MutexCount
    BY DEF Inv, Calling
  <2>2. TypeOK'
    BY <2>1, TypeStep DEF Calling
  <2>3. Calling'
    BY <2>1, CallingStep
  <2>4. MutexCount'
    BY <2>1, MutexStep DEF Calling
  <2> QED BY <2>2, <2>3, <2>4 DEF Inv, Calling
<1> QED BY <1>1, InitInv, PTL DEF Spec

\* do_lock_semaphore_ex, lock_mutex and the unlock functions keep the types of
\* the kernel's structures.
THEOREM TypeCorrect == Spec => []TypeOK
<1>1. Inv => TypeOK
  BY DEF Inv
<1> QED BY <1>1, Invariance, PTL

\* A wait ring holds exactly one node for each blocked caller of a valid handle.
THEOREM RingsMatch == Spec => []RingMatchesCallers
<1>1. Inv => RingMatchesCallers
  BY DEF Inv
<1> QED BY <1>1, Invariance, PTL

\* Semaphores used as mutexes exclude, for any number of threads and handles,
\* with recursion, timeouts, signals and deletion.
THEOREM MutexesExclude == Spec => []MutualExclusion
<1>1. Inv => MutualExclusion
  BY DEF Inv, MutexCount, MutualExclusion
<1> QED BY <1>1, Invariance, PTL

-----------------------------------------------------------------------------
(* No lost wake-up.                                                        *)

Awake(s) == table[s] = "live" /\ ss_lNestCount[s] > 0 /\ ss_psWaitQueue[s] # <<>>
              => tr_nState[Head(ss_psWaitQueue[s])] \notin Blocked

\* No thread goes to sleep.
NobodyBlocks == \A u \in Threads : tr_nState'[u] \in Blocked => tr_nState[u] \in Blocked

\* Making threads ready puts nobody to sleep.
LEMMA ReadyOnly ==
  ASSUME TypeOK, NEW W, NEW why, NEW t, MakeReady(W, why) \/ MakeReadyAnd(W, t, "TS_RUN")
  PROVE  NobodyBlocks
BY DEF NobodyBlocks, MakeReady, MakeReadyAnd, Blocked

\* The head of a ring is one of its threads.
LEMMA HeadMember ==
  ASSUME TypeOK, NEW s \in Semas, ss_psWaitQueue[s] # <<>>
  PROVE  Head(ss_psWaitQueue[s]) \in Threads /\ Head(ss_psWaitQueue[s]) \in Members(ss_psWaitQueue[s])
<1>1. ss_psWaitQueue[s] \in Seq(Threads)
  BY DEF TypeOK
<1> QED BY <1>1 DEF Members

\* A mutex whose ring and counter stay, while nobody in the ring goes to sleep.
LEMMA AwakeStays ==
  ASSUME TypeOK, NEW s \in Semas, Awake(s), table'[s] = "live" => table[s] = "live",
         ss_lNestCount'[s] = ss_lNestCount[s], ss_psWaitQueue'[s] = ss_psWaitQueue[s],
         \A u \in Members(ss_psWaitQueue[s]) : tr_nState'[u] \in Blocked => tr_nState[u] \in Blocked
  PROVE  Awake(s)'
BY HeadMember DEF Awake

\* A step that changes the ring or the counter of at most one semaphore.
LEMMA AwakeFrame ==
  ASSUME TypeOK, NoLostWakeup, NEW s, NobodyBlocks,
         \A m \in Mutexes \ {s} : /\ table'[m] = table[m]
                                  /\ ss_lNestCount'[m] = ss_lNestCount[m]
                                  /\ ss_psWaitQueue'[m] = ss_psWaitQueue[m],
         s \in Mutexes => Awake(s)'
  PROVE  NoLostWakeup'
<1>1. ASSUME NEW m \in Mutexes \ {s} PROVE Awake(m)'
  <2>1. m \in Semas /\ Awake(m)
    BY DEF Semas, NoLostWakeup, Awake
  <2>2. Members(ss_psWaitQueue[m]) \subseteq Threads
    BY <2>1 DEF TypeOK, Members
  <2> QED BY <2>1, <2>2, AwakeStays DEF NobodyBlocks
<1>2. \A m \in Mutexes : Awake(m)'
  BY <1>1
<1> QED BY <1>2 DEF NoLostWakeup, Awake

\* A thread joins a ring: the other rings do not contain it, and if it waits
\* for a mutex the mutex is not free.
LEMMA AwakeBlock ==
  ASSUME Inv, NoLostWakeup, NEW t \in Threads, NEW place, NEW a, NEW d, NEW q,
         a.hSema \in Semas, Block(t, place, a, d, q),
         UNCHANGED <<table, ss_lNestCount>>,
         pc[t] \in Waiting => arg[t].hSema = a.hSema,
         a.hSema \in Mutexes => ss_lNestCount[a.hSema] <= 0
  PROVE  NoLostWakeup'
<1> DEFINE s == a.hSema
<1>0. TypeOK /\ RingMatchesCallers
  BY DEF Inv
<1>1. /\ ss_psWaitQueue' = [ss_psWaitQueue EXCEPT ![s] = add_to_waitlist(q, t)]
      /\ \A u \in Threads \ {t} : tr_nState'[u] = tr_nState[u]
  BY <1>0, BlockFrame
<1>2. ASSUME NEW m \in Mutexes PROVE Awake(m)'
  <2>1. m \in Semas /\ Awake(m)
    BY DEF Semas, NoLostWakeup, Awake
  <2>2. CASE m = s
    BY <1>0, <2>1, <2>2 DEF Awake, TypeOK
  <2>3. CASE m # s
    <3>1. CASE table[m] = "live"
      <4>1. t \notin Members(ss_psWaitQueue[m]) /\ Members(ss_psWaitQueue[m]) \subseteq Threads
        BY <1>0, <2>1, <2>3, <3>1 DEF RingMatchesCallers
      <4>2. ss_psWaitQueue'[m] = ss_psWaitQueue[m]
        BY <1>0, <1>1, <2>1, <2>3 DEF TypeOK
      <4> QED BY <1>0, <1>1, <2>1, <4>1, <4>2, AwakeStays
    <3>2. CASE table[m] # "live"
      BY <3>2 DEF Awake
    <3> QED BY <3>1, <3>2
  <2> QED BY <2>2, <2>3
<1> QED BY <1>2 DEF NoLostWakeup, Awake

\* Releasing a semaphore wakes the head of its ring.
LEMMA AwakeRelease ==
  ASSUME TypeOK, NoLostWakeup, NEW s \in Semas, NEW n \in Nat, n > 0, Release(s, n),
         UNCHANGED <<table, ss_psWaitQueue>>
  PROVE  NoLostWakeup'
<1> DEFINE W == IF ss_lNestCount[s] + n > 0
                THEN wake_up_queue(ss_psWaitQueue[s], n > 1) ELSE {}
           q == ss_psWaitQueue[s]
<1>1. MakeReady(W, "queue")
  BY DEF Release
<1>2. NobodyBlocks
  BY <1>1, ReadyOnly
<1>3. \A m \in Mutexes \ {s} : ss_lNestCount'[m] = ss_lNestCount[m]
  BY DEF Release, TypeOK, Semas
<1>4. Awake(s)'
  <2> SUFFICES ASSUME ss_lNestCount'[s] > 0, q # <<>>
               PROVE  tr_nState'[Head(q)] \notin Blocked
    BY DEF Awake
  <2>1. ss_lNestCount[s] + n > 0
    BY DEF Release, TypeOK
  <2>2. Head(q) \in Threads /\ Head(q) \in Members(q)
    BY HeadMember
  <2>3. tr_nState[Head(q)] \in Blocked => Head(q) \in W
    BY <2>1, <2>2 DEF wake_up_queue
  <2> HIDE DEF W
  <2> QED BY <1>1, <2>2, <2>3 DEF MakeReady, Blocked
<1> QED BY <1>2, <1>3, <1>4, AwakeFrame

\* A thread that gives up wakes the new head of the ring.
LEMMA AwakeGiveUp ==
  ASSUME TypeOK, NoLostWakeup, NEW s \in Semas, NEW t \in Threads,
         NEW q \in Seq(Threads), ss_psWaitQueue' = [ss_psWaitQueue EXCEPT ![s] = q],
         MakeReadyAnd(wake_up_queue(q, FALSE), t, "TS_RUN"),
         UNCHANGED <<table, ss_lNestCount>>
  PROVE  NoLostWakeup'
<1>1. NobodyBlocks
  BY ReadyOnly
<1>2. ss_psWaitQueue'[s] = q /\ \A m \in Mutexes \ {s} : ss_psWaitQueue'[m] = ss_psWaitQueue[m]
  BY DEF TypeOK, Semas
<1>3. Awake(s)'
  <2> SUFFICES ASSUME q # <<>> PROVE tr_nState'[Head(q)] \notin Blocked
    BY <1>2 DEF Awake
  <2>1. Head(q) \in Threads
    OBVIOUS
  <2>2. tr_nState[Head(q)] \in Blocked => Head(q) \in wake_up_queue(q, FALSE)
    BY DEF wake_up_queue
  <2> QED BY <2>1, <2>2 DEF MakeReadyAnd, Blocked
<1> QED BY <1>1, <1>2, <1>3, AwakeFrame

\* A turn of a lock loop that ends the call leaves the mutex taken.
LEMMA AwakeTaken ==
  ASSUME TypeOK, NoLostWakeup, NEW s \in Semas, NEW t \in Threads, NEW q,
         ss_psWaitQueue' = [ss_psWaitQueue EXCEPT ![s] = q],
         MakeReadyAnd({}, t, "TS_RUN"), table' = table,
         s \in Mutexes => ss_lNestCount'[s] <= 0,
         \A m \in Mutexes \ {s} : ss_lNestCount'[m] = ss_lNestCount[m],
         s \in Mutexes => ss_lNestCount'[s] \in Int
  PROVE  NoLostWakeup'
<1>1. NobodyBlocks
  BY ReadyOnly
<1>2. \A m \in Mutexes \ {s} : ss_psWaitQueue'[m] = ss_psWaitQueue[m]
  BY DEF TypeOK, Semas
<1>3. s \in Mutexes => Awake(s)'
  BY DEF Awake
<1> QED BY <1>1, <1>2, <1>3, AwakeFrame

\* The counter of a live mutex is at most one.
LEMMA AtMostOne ==
  ASSUME Inv, NEW s \in Mutexes, table[s] = "live"
  PROVE  ss_lNestCount[s] \in Int /\ ss_lNestCount[s] <= 1
<1>1. ss_lNestCount[s] \in Int /\ \A t \in Threads : held[s][t] \in Nat
  BY DEF Inv, TypeOK, Semas
<1>2. \/ ss_lNestCount[s] = 1
      \/ \E t \in Threads : held[s][t] = 1 - ss_lNestCount[s] /\ held[s][t] > 0
  BY DEF Inv, MutexCount
<1> QED BY <1>1, <1>2

\* A turn of the loop of do_lock_semaphore_ex: a waiter sleeps or gives up only
\* when the mutex is taken, and a waiter that succeeds takes it.
LEMMA TryLockAwake ==
  ASSUME Inv, NoLostWakeup, NEW t \in Threads, NEW a, NEW d, NEW q, a.hSema \in Semas,
         a.nCount \in Nat, table[a.hSema] = "live", table' = table,
         a.hSema \in Mutexes => a.nCount = 1,
         pc[t] \in Waiting => arg[t].hSema = a.hSema,
         TryLock(t, a, d, q)
  PROVE  NoLostWakeup'
<1> DEFINE s == a.hSema
<1>0. TypeOK /\ ss_lNestCount[s] \in Int
  BY DEF Inv, TypeOK
<1>1. s \in Mutexes => ss_lNestCount[s] <= 1
  BY AtMostOne
<1>2. s \in Mutexes /\ ~Available(s, a.nCount, t) => ss_lNestCount[s] <= 0
  BY <1>0 DEF Available
<1>3. CASE /\ ss_lNestCount' = [ss_lNestCount EXCEPT ![s] = @ - a.nCount]
           /\ ss_psWaitQueue' = [ss_psWaitQueue EXCEPT ![s] = q]
           /\ MakeReadyAnd({}, t, "TS_RUN")
  <2>1. ss_lNestCount'[s] = ss_lNestCount[s] - a.nCount
    BY <1>0, <1>3 DEF TypeOK
  <2>2. \A m \in Mutexes \ {s} : ss_lNestCount'[m] = ss_lNestCount[m]
    BY <1>0, <1>3 DEF TypeOK, Semas
  <2>3. s \in Mutexes => ss_lNestCount'[s] <= 0 /\ ss_lNestCount'[s] \in Int
    BY <1>0, <1>1, <2>1
  <2> QED BY <1>0, <1>3, <2>2, <2>3, AwakeTaken
<1>4. CASE /\ ~Available(s, a.nCount, t)
           /\ ss_psWaitQueue' = [ss_psWaitQueue EXCEPT ![s] = q]
           /\ MakeReadyAnd({}, t, "TS_RUN")
           /\ ss_lNestCount' = ss_lNestCount
  BY <1>0, <1>2, <1>4, AwakeTaken
<1>5. CASE /\ ~Available(s, a.nCount, t)
           /\ Block(t, "lock", a, d, q)
           /\ ss_lNestCount' = ss_lNestCount
  BY <1>2, <1>5, AwakeBlock
<1> QED BY <1>3, <1>4, <1>5 DEF TryLock

\* The same for a turn of the loop of lock_mutex.
LEMMA TryMutexAwake ==
  ASSUME Inv, NoLostWakeup, NEW t \in Threads, NEW a, NEW q, a.hSema \in Mutexes,
         table[a.hSema] = "live", table' = table,
         pc[t] \in Waiting => arg[t].hSema = a.hSema,
         TryMutex(t, a, q)
  PROVE  NoLostWakeup'
<1> DEFINE s == a.hSema
<1>0. TypeOK /\ s \in Semas /\ ss_lNestCount[s] \in Int
  BY DEF Inv, TypeOK, Semas
<1>1. ss_lNestCount[s] <= 1
  BY AtMostOne
<1>2. CASE /\ ss_lNestCount' = [ss_lNestCount EXCEPT ![s] = @ - 1]
           /\ ss_psWaitQueue' = [ss_psWaitQueue EXCEPT ![s] = q]
           /\ MakeReadyAnd({}, t, "TS_RUN")
  <2>1. ss_lNestCount'[s] = ss_lNestCount[s] - 1
    BY <1>0, <1>2 DEF TypeOK
  <2>2. \A m \in Mutexes \ {s} : ss_lNestCount'[m] = ss_lNestCount[m]
    BY <1>0, <1>2 DEF TypeOK, Semas
  <2>3. ss_lNestCount'[s] <= 0 /\ ss_lNestCount'[s] \in Int
    BY <1>0, <1>1, <2>1
  <2> QED BY <1>0, <1>2, <2>2, <2>3, AwakeTaken
<1>3. CASE /\ ss_lNestCount[s] <= 0
           /\ Block(t, "lock_mutex", a, "ahead", q)
           /\ ss_lNestCount' = ss_lNestCount
  BY <1>0, <1>3, AwakeBlock
<1> QED BY <1>2, <1>3 DEF TryMutex

\* A step that leaves counters, handles and rings alone and puts nobody to sleep.
LEMMA AwakeQuiet ==
  ASSUME TypeOK, NoLostWakeup, NobodyBlocks, UNCHANGED <<table, ss_lNestCount, ss_psWaitQueue>>
  PROVE  NoLostWakeup'
<1>1. \A m \in Mutexes : Awake(m)
  BY DEF NoLostWakeup, Awake
<1>2. \A m \in Mutexes : m \in Semas /\ Members(ss_psWaitQueue[m]) \subseteq Threads
  BY DEF Semas, TypeOK, Members
<1>3. ASSUME NEW m \in Mutexes PROVE Awake(m)'
  BY <1>1, <1>2, AwakeStays DEF NobodyBlocks
<1> QED BY <1>3 DEF NoLostWakeup, Awake

\* A step that rearranges the ring of a wait queue only.
LEMMA AwakeOther ==
  ASSUME TypeOK, NoLostWakeup, NobodyBlocks, NEW s, s \notin Mutexes, NEW q,
         ss_psWaitQueue' = [ss_psWaitQueue EXCEPT ![s] = q],
         UNCHANGED <<table, ss_lNestCount>>
  PROVE  NoLostWakeup'
<1>1. \A m \in Mutexes : ss_psWaitQueue'[m] = ss_psWaitQueue[m]
  BY DEF TypeOK, Semas
<1> QED BY <1>1, AwakeFrame

\* Every step of the lock functions keeps the first waiter of a free mutex awake.
LEMMA LockWakeStep ==
  ASSUME "none" \notin MutexFlags, Inv, NoLostWakeup, NEW t \in Threads,
         \/ \E s \in Semas, n \in Counts \cup {1}, f \in LockFlags, o \in Timeouts :
              lock_semaphore_ex(t, s, n, f, o)
         \/ lock_semaphore_resume(t)
         \/ \E s \in Semas, f \in MutexFlags : lock_mutex(t, s, f)
         \/ lock_mutex_resume(t)
  PROVE  NoLostWakeup'
<1>0. TypeOK /\ CallArgs /\ "idle" \notin Waiting
  BY DEF Inv, Waiting
<1>1. ASSUME NEW s \in Semas, NEW n \in Counts \cup {1}, NEW f \in LockFlags,
             NEW o \in Timeouts, lock_semaphore_ex(t, s, n, f, o)
      PROVE  NoLostWakeup'
  <2> DEFINE a == [NoArg EXCEPT !.hSema = s, !.nCount = n, !.nFlags = f, !.nTimeOut = o]
  <2>1. n \in Nat /\ f \in FlagKinds /\ o \in TimeoutKinds
    BY ConstantTypes
  <2>2. a.hSema = s /\ a.nCount = n
    BY <2>1, NoArgType DEF Args
  <2>3. pc[t] = "idle" /\ (s \in Mutexes => n = 1)
    BY <1>1, KindsDisjoint DEF lock_semaphore_ex, Caller, MayLock
  <2> HIDE DEF a
  <2>4. CASE InvalidHandle(t, s)
    BY <1>0, <2>4, ReadyOnly, AwakeQuiet DEF InvalidHandle, semVars
  <2>5. ASSUME NEW d, table[s] = "live", TryLock(t, a, d, ss_psWaitQueue[s]), table' = table
        PROVE  NoLostWakeup'
    BY <1>0, <2>1, <2>2, <2>3, <2>5, TryLockAwake
  <2> QED BY <1>1, <2>4, <2>5 DEF lock_semaphore_ex, a
<1>2. CASE lock_semaphore_resume(t)
  <2>0. PICK a \in Args : a = arg[t]
    BY <1>0 DEF TypeOK
  <2> DEFINE q == remove_from_waitlist(ss_psWaitQueue[a.hSema], t)
  <2>1. /\ a.hSema \in Semas /\ a.nCount \in Nat
        /\ a.hSema \in Mutexes => a.nCount = 1
    BY <1>0, <1>2, <2>0 DEF lock_semaphore_resume, Resumed, CallArgs, Waiting, Args
  <2>2. q \in Seq(Threads)
    BY <1>0, <2>1, RemoveType DEF TypeOK
  <2> HIDE DEF q
  <2>3. CASE DeletedWhileBlocked(t)
    BY <1>0, <2>3, ReadyOnly, AwakeQuiet DEF DeletedWhileBlocked, semVars
  <2>4. CASE /\ ss_psWaitQueue' = [ss_psWaitQueue EXCEPT ![a.hSema] = q]
             /\ MakeReadyAnd(wake_up_queue(q, FALSE), t, "TS_RUN")
             /\ UNCHANGED <<table, ss_lNestCount>>
    BY <1>0, <2>1, <2>2, <2>4, AwakeGiveUp
  <2>5. CASE /\ table[a.hSema] = "live" /\ table' = table
             /\ TryLock(t, a, deadline[t], q)
    BY <2>0, <2>1, <2>5, TryLockAwake
  <2> QED BY <1>2, <2>0, <2>3, <2>4, <2>5 DEF lock_semaphore_resume, q
<1>3. ASSUME NEW s \in Semas, NEW f \in MutexFlags, lock_mutex(t, s, f)
      PROVE  NoLostWakeup'
  <2> DEFINE a == [NoArg EXCEPT !.hSema = s, !.nCount = 1, !.nFlags = f,
                                !.nTimeOut = "INFINITE_TIMEOUT"]
  <2>1. s \in Mutexes /\ f \in FlagKinds /\ pc[t] = "idle"
    BY <1>3, ConstantTypes DEF lock_mutex, Caller
  <2>2. a.hSema = s
    BY <2>1, NoArgType DEF Args
  <2> HIDE DEF a
  <2>3. CASE UNCHANGED <<semVars, tr_nState>>
    <3>1. NobodyBlocks
      BY <2>3 DEF NobodyBlocks
    <3> QED BY <1>0, <2>3, <3>1, AwakeQuiet DEF semVars
  <2>4. CASE table[s] = "live" /\ table' = table /\ TryMutex(t, a, ss_psWaitQueue[s])
    BY <1>0, <2>1, <2>2, <2>4, TryMutexAwake
  <2> QED BY <1>3, <2>3, <2>4 DEF lock_mutex, a
<1>4. CASE lock_mutex_resume(t)
  <2> DEFINE a == arg[t]
             q == remove_from_waitlist(ss_psWaitQueue[a.hSema], t)
  <2>1. a.hSema \in Mutexes /\ a.nFlags # "none"
    BY <1>0, <1>4 DEF lock_mutex_resume, Resumed, CallArgs
  <2>2. CASE DeletedWhileBlocked(t)
    BY <1>0, <2>2, ReadyOnly, AwakeQuiet DEF DeletedWhileBlocked, semVars
  <2>3. CASE table[a.hSema] = "live" /\ table' = table /\ TryMutex(t, a, q)
    BY <2>1, <2>3, TryMutexAwake
  <2> QED BY <1>4, <2>1, <2>2, <2>3 DEF lock_mutex_resume
<1> QED BY <1>1, <1>2, <1>3, <1>4

\* So does every step of the functions that sleep on wait queues.
LEMMA WaitWakeStep ==
  ASSUME Inv, NoLostWakeup, NEW t \in Threads,
         \/ \E s \in Semas, o \in Timeouts :
              sleep_on_sem(t, s, o) \/ spinunlock_and_suspend(t, s, o)
         \/ sleep_on_sem_resume(t)
         \/ spinunlock_and_suspend_resume(t)
         \/ \E s \in Semas, b \in BOOLEAN : wakeup_sem(t, s, b)
         \/ \E s \in Semas, h \in WaitQueues : unlock_and_suspend(t, h, s)
         \/ unlock_and_suspend_unlocks(t)
         \/ unlock_and_suspend_resume(t)
  PROVE  NoLostWakeup'
<1>0. TypeOK /\ CallArgs /\ "idle" \notin Waiting
  BY DEF Inv, Waiting
<1>1. ASSUME NEW s \in Semas, NEW o \in Timeouts,
             sleep_on_sem(t, s, o) \/ spinunlock_and_suspend(t, s, o)
      PROVE  NoLostWakeup'
  <2> DEFINE a == [NoArg EXCEPT !.hSema = s, !.nTimeOut = o]
  <2>1. a.hSema = s /\ pc[t] = "idle" /\ s \in WaitQueues
    BY <1>1, NoArgType, ConstantTypes DEF Args, sleep_on_sem, spinunlock_and_suspend, Caller
  <2> HIDE DEF a
  <2>2. CASE InvalidHandle(t, s)
    BY <1>0, <2>2, ReadyOnly, AwakeQuiet DEF InvalidHandle, semVars
  <2>3. CASE UNCHANGED <<table, ss_lNestCount, ss_psWaitQueue, tr_nState>>
    <3>1. NobodyBlocks
      BY <2>3 DEF NobodyBlocks
    <3> QED BY <1>0, <2>3, <3>1, AwakeQuiet
  <2>4. ASSUME NEW d, NEW place, UNCHANGED <<table, ss_lNestCount>>,
               Block(t, place, a, d, ss_psWaitQueue[s])
        PROVE  NoLostWakeup'
    BY <1>0, <2>1, <2>4, AwakeBlock, KindsDisjoint
  <2>5. CASE sleep_on_sem(t, s, o)
    BY <2>2, <2>3, <2>4, <2>5 DEF sleep_on_sem, a
  <2>6. CASE spinunlock_and_suspend(t, s, o)
    BY <2>2, <2>3, <2>4, <2>6 DEF spinunlock_and_suspend, a
  <2> QED BY <1>1, <2>5, <2>6
<1>2. CASE \/ sleep_on_sem_resume(t) \/ spinunlock_and_suspend_resume(t)
           \/ unlock_and_suspend_resume(t)
  <2>0. PICK s : s = arg[t].hSema
    OBVIOUS
  <2>1. s \notin Mutexes
    BY <1>0, <1>2, <2>0, KindsDisjoint
       DEF sleep_on_sem_resume, spinunlock_and_suspend_resume, unlock_and_suspend_resume,
           Resumed, CallArgs
  <2>2. /\ UNCHANGED <<table, ss_lNestCount>>
        /\ MakeReadyAnd({}, t, "TS_RUN")
        /\ \/ ss_psWaitQueue' = ss_psWaitQueue
           \/ ss_psWaitQueue' = [ss_psWaitQueue EXCEPT
                                   ![s] = remove_from_waitlist(ss_psWaitQueue[s], t)]
    BY <1>2, <2>0 DEF sleep_on_sem_resume, spinunlock_and_suspend_resume,
                      unlock_and_suspend_resume, DeletedWhileBlocked, semVars
  <2>3. NobodyBlocks
    BY <1>0, <2>2, ReadyOnly
  <2> QED BY <1>0, <2>1, <2>2, <2>3, AwakeQuiet, AwakeOther
<1>3. ASSUME NEW s \in Semas, NEW b \in BOOLEAN, wakeup_sem(t, s, b)
      PROVE  NoLostWakeup'
  BY <1>0, <1>3, ReadyOnly, AwakeQuiet DEF wakeup_sem, InvalidHandle, semVars
<1>4. ASSUME NEW s \in Semas, NEW h \in WaitQueues, unlock_and_suspend(t, h, s)
      PROVE  NoLostWakeup'
  <2> DEFINE a == [NoArg EXCEPT !.hSema = h, !.hUnlock = s, !.nTimeOut = "INFINITE_TIMEOUT"]
  <2>1. h \in Semas /\ h \notin Mutexes /\ pc[t] = "idle"
    BY <1>4, KindsDisjoint DEF Semas, unlock_and_suspend, Caller
  <2>2. a.hSema = h
    BY NoArgType DEF Args
  <2> HIDE DEF a
  <2>3. CASE InvalidHandle(t, h)
    BY <1>0, <2>3, ReadyOnly, AwakeQuiet DEF InvalidHandle, semVars
  <2>4. CASE /\ UNCHANGED <<table, ss_lNestCount>>
             /\ Block(t, "uas_unlock", a, "ahead", ss_psWaitQueue[h])
    BY <1>0, <2>1, <2>2, <2>4, AwakeBlock
  <2> QED BY <1>4, <2>3, <2>4 DEF unlock_and_suspend, a
<1>5. CASE unlock_and_suspend_unlocks(t)
  <2>0. PICK s \in Mutexes : s = arg[t].hUnlock
    BY <1>0, <1>5 DEF unlock_and_suspend_unlocks, CallArgs
  <2>1. CASE Release(s, 1)
    BY <1>0, <1>5, <2>0, <2>1, AwakeRelease DEF unlock_and_suspend_unlocks, Semas
  <2>2. CASE UNCHANGED <<ss_lNestCount, tr_nState>>
    <3>1. NobodyBlocks
      BY <2>2 DEF NobodyBlocks
    <3> QED BY <1>0, <1>5, <2>2, <3>1, AwakeQuiet DEF unlock_and_suspend_unlocks
  <2> QED BY <1>5, <2>0, <2>1, <2>2 DEF unlock_and_suspend_unlocks
<1> QED BY <1>1, <1>2, <1>3, <1>4, <1>5

\* Every step keeps the first waiter of a free mutex awake, provided lock_mutex
\* is called with bIgnoreSignals.
LEMMA WakeStep ==
  ASSUME "none" \notin MutexFlags, Inv, NoLostWakeup, [Next]_vars
  PROVE  NoLostWakeup'
<1>0. TypeOK /\ CallArgs /\ FreeUnused
  BY DEF Inv
<1>1. ASSUME NEW t \in Threads, NEW s \in Semas, create_semaphore(t, s) PROVE NoLostWakeup'
  <2>1. /\ ss_psWaitQueue' = ss_psWaitQueue /\ ss_psWaitQueue[s] = <<>>
        /\ tr_nState' = tr_nState
    BY <1>0, <1>1 DEF create_semaphore, FreeUnused, threadVars
  <2>2. \A m \in Mutexes \ {s} : table'[m] = table[m] /\ ss_lNestCount'[m] = ss_lNestCount[m]
    BY <1>0, <1>1 DEF create_semaphore, TypeOK, Semas
  <2>3. NobodyBlocks /\ Awake(s)'
    BY <2>1 DEF NobodyBlocks, Awake
  <2> QED BY <1>0, <2>1, <2>2, <2>3, AwakeFrame
<1>2. ASSUME NEW t \in Threads, NEW s \in Semas, delete_semaphore(t, s) PROVE NoLostWakeup'
  <2>a. CASE InvalidHandle(t, s)
    BY <1>0, <2>a, ReadyOnly, AwakeQuiet DEF InvalidHandle, semVars
  <2>b. SUFFICES ASSUME unlink_semaphore(t, s) PROVE NoLostWakeup'
    BY <1>2, <2>a DEF delete_semaphore
  <2>1. /\ UNCHANGED <<ss_psWaitQueue, ss_lNestCount, tr_nState>>
        /\ table' = [table EXCEPT ![s] = "unlinked"]
    BY <2>b DEF unlink_semaphore
  <2>2. \A m \in Mutexes \ {s} : table'[m] = table[m]
    BY <1>0, <2>1 DEF TypeOK, Semas
  <2>3. NobodyBlocks /\ Awake(s)'
    BY <1>0, <2>1 DEF NobodyBlocks, Awake, TypeOK
  <2> QED BY <1>0, <2>1, <2>2, <2>3, AwakeFrame
<1>3. ASSUME NEW t \in Threads, delete_wakes(t) PROVE NoLostWakeup'
  <2>0. PICK s \in Semas : s = arg[t].hSema
    BY <1>0, <1>3 DEF delete_wakes, CallArgs
  <2>1. /\ table' = [table EXCEPT ![s] = "freed"]
        /\ ss_psWaitQueue' = [ss_psWaitQueue EXCEPT ![s] = <<>>]
        /\ ss_lNestCount' = ss_lNestCount
        /\ \E W : MakeReady(W, "queue")
    BY <1>3, <2>0 DEF delete_wakes
  <2>2. \A m \in Mutexes \ {s} : table'[m] = table[m] /\ ss_psWaitQueue'[m] = ss_psWaitQueue[m]
    BY <1>0, <2>1 DEF TypeOK, Semas
  <2>3. NobodyBlocks
    BY <1>0, <2>1, ReadyOnly
  <2>4. Awake(s)'
    BY <1>0, <2>1 DEF Awake, TypeOK
  <2> QED BY <1>0, <2>1, <2>2, <2>3, <2>4, AwakeFrame
<1>4. ASSUME NEW t \in Threads, NEW s \in Semas,
             unlock_mutex(t, s) \/ \E n \in Counts \cup {1} : unlock_semaphore_ex(t, s, n)
      PROVE  NoLostWakeup'
  <2>1. CASE InvalidHandle(t, s)
    BY <1>0, <2>1, ReadyOnly, AwakeQuiet DEF InvalidHandle, semVars
  <2>2. ASSUME NEW n \in Counts \cup {1}, Release(s, n), UNCHANGED <<table, ss_psWaitQueue>>
        PROVE  NoLostWakeup'
    <3>1. n \in Nat /\ n > 0
      BY ConstantTypes
    <3> QED BY <1>0, <2>2, <3>1, AwakeRelease
  <2> QED BY <1>4, <2>1, <2>2 DEF unlock_mutex, unlock_semaphore_ex
<1>5. ASSUME UNCHANGED <<table, ss_lNestCount, ss_psWaitQueue>>,
             tr_nState' = tr_nState \/ \E W, why : MakeReady(W, why)
      PROVE  NoLostWakeup'
  <2>1. NobodyBlocks
    BY <1>0, <1>5, ReadyOnly DEF NobodyBlocks
  <2> QED BY <1>0, <1>5, <2>1, AwakeQuiet
<1>6. ASSUME NEW t \in Threads,
             LeaveCall(t) \/ handle_signals(t) \/ send_signal(t) \/ TimePasses(t)
      PROVE  NoLostWakeup'
  BY <1>5, <1>6 DEF LeaveCall, handle_signals, send_signal, TimePasses, semVars
<1>7. CASE wake_up_sleepers \/ UNCHANGED vars
  BY <1>5, <1>7 DEF wake_up_sleepers, vars, semVars, threadVars
<1>8. ASSUME NEW t \in Threads, Client(t) PROVE NoLostWakeup'
  BY <1>1, <1>2, <1>4, <1>6, <1>8, LockWakeStep, WaitWakeStep DEF Client
<1>9. ASSUME NEW t \in Threads, Continue(t) PROVE NoLostWakeup'
  BY <1>3, <1>9, LockWakeStep, WaitWakeStep DEF Continue
<1> QED BY <1>6, <1>7, <1>8, <1>9 DEF Next

\* When every lock_mutex call ignores signals, a mutex that is free never has a
\* sleeping thread at the head of its ring: the wake-up of a release is not lost
\* to overtaking, timeouts, interrupted or deserting waiters.
THEOREM NoWakeupLost == "none" \notin MutexFlags => (Spec => []NoLostWakeup)
<1> SUFFICES ASSUME "none" \notin MutexFlags PROVE Spec => []NoLostWakeup
  OBVIOUS
<1>1. Init => NoLostWakeup
  BY DEF Init, NoLostWakeup, Semas
<1>2. Inv /\ NoLostWakeup /\ [Next]_vars => NoLostWakeup'
  BY WakeStep
<1> QED BY <1>1, <1>2, Invariance, PTL DEF Spec

-----------------------------------------------------------------------------
(* The sleep list.                                                         *)

\* What SleepListMatchesCallers says of one thread.
Listed(u) ==
  /\ u \in sleepers => pc[u] \in {"lock", "sleep", "spin"} /\ arg[u].nTimeOut = "finite"
  /\ tr_nState[u] = "TS_SLEEP" => u \in sleepers

\* SleepListMatchesCallers, one thread at a time.
LEMMA ListedDef ==
  ASSUME TypeOK
  PROVE  SleepListMatchesCallers <=> \A u \in Threads : Listed(u)
BY DEF SleepListMatchesCallers, Listed, TypeOK

\* No thread but t starts a timed sleep.
OthersStayUp(t) == \A u \in Threads \ {t} : tr_nState'[u] = "TS_SLEEP" => tr_nState[u] = "TS_SLEEP"

\* A step that moves only the call and the sleep node of t.
LEMMA ListedFrame ==
  ASSUME TypeOK, TypeOK', SleepListMatchesCallers, NEW t \in Threads, Others(t), OthersStayUp(t),
         sleepers' \ {t} = sleepers \ {t}, Listed(t)'
  PROVE  SleepListMatchesCallers'
<1>1. \A u \in Threads : Listed(u)
  BY ListedDef
<1>2. ASSUME NEW u \in Threads \ {t} PROVE Listed(u)'
  <2>1. u \in sleepers' <=> u \in sleepers
    OBVIOUS
  <2> QED BY <1>1, <2>1 DEF Listed, Others, OthersStayUp
<1>3. \A u \in Threads : Listed(u)'
  BY <1>2
<1> QED BY <1>3, ListedDef DEF TypeOK, SleepListMatchesCallers, Listed

\* Making threads ready starts no sleep.
LEMMA ReadyStaysUp ==
  ASSUME NEW W, NEW why, NEW t,
         MakeReady(W, why) \/ MakeReadyAnd(W, t, "TS_RUN") \/ tr_nState' = tr_nState
  PROVE  \A u \in Threads : tr_nState'[u] = "TS_SLEEP" => tr_nState[u] = "TS_SLEEP"
BY DEF MakeReady, MakeReadyAnd

\* A call that returns unlinks its sleep node, and its thread is not asleep:
\* it runs, or it never had a node.
LEMMA ListedReturn ==
  ASSUME TypeOK, TypeOK', SleepListMatchesCallers, NEW t \in Threads, NEW e, Return(t, e), NEW W,
         \/ MakeReadyAnd(W, t, "TS_RUN")
         \/ /\ pc[t] \notin {"lock", "sleep", "spin"}
            /\ MakeReady(W, "queue") \/ tr_nState' = tr_nState
  PROVE  SleepListMatchesCallers'
<1>1. Others(t)
  BY ReturnFrame
<1>2. \A u \in Threads : tr_nState'[u] = "TS_SLEEP" => tr_nState[u] = "TS_SLEEP"
  BY ReadyStaysUp
<1>3. tr_nState'[t] # "TS_SLEEP"
  <2>1. CASE MakeReadyAnd(W, t, "TS_RUN")
    BY <2>1 DEF MakeReadyAnd
  <2>2. CASE pc[t] \notin {"lock", "sleep", "spin"}
    BY <1>2, <2>2 DEF SleepListMatchesCallers
  <2> QED BY <2>1, <2>2
<1>4. t \notin sleepers' /\ sleepers' \ {t} = sleepers \ {t}
  BY DEF Return
<1> QED BY <1>1, <1>2, <1>3, <1>4, ListedFrame DEF OthersStayUp, Listed

\* A call that blocks has a sleep node exactly when it has a timeout.
LEMMA ListedBlock ==
  ASSUME TypeOK, TypeOK', SleepListMatchesCallers, NEW t \in Threads, NEW place, NEW a, NEW d, NEW q,
         Block(t, place, a, d, q),
         a.nTimeOut # "INFINITE_TIMEOUT" => a.nTimeOut = "finite" /\ place \in {"lock", "sleep", "spin"}
  PROVE  SleepListMatchesCallers'
<1>1. /\ Others(t) /\ pc'[t] = place /\ arg'[t] = a
      /\ \A u \in Threads \ {t} : tr_nState'[u] = tr_nState[u]
  BY BlockFrame
<1>2. tr_nState'[t] = IF a.nTimeOut = "INFINITE_TIMEOUT" THEN "TS_WAIT" ELSE "TS_SLEEP"
  BY DEF Block, MakeReadyAnd
<1>3. sleepers' = IF a.nTimeOut = "INFINITE_TIMEOUT" THEN sleepers \ {t} ELSE sleepers \cup {t}
  BY DEF Block
<1>4. Listed(t)'
  BY <1>1, <1>2, <1>3 DEF Listed
<1>5. sleepers' \ {t} = sleepers \ {t}
  BY <1>3
<1> QED BY <1>1, <1>4, <1>5, ListedFrame DEF OthersStayUp

\* A step that leaves the calls alone and wakes threads at most.
LEMMA ListedQuiet ==
  ASSUME SleepListMatchesCallers, UNCHANGED <<sleepers, pc, arg>>,
         \A u \in Threads : tr_nState'[u] = "TS_SLEEP" => tr_nState[u] = "TS_SLEEP"
  PROVE  SleepListMatchesCallers'
BY DEF SleepListMatchesCallers

\* A turn of do_lock_semaphore_ex or of lock_mutex.
LEMMA TryLockListed ==
  ASSUME TypeOK, TypeOK', SleepListMatchesCallers, NEW t \in Threads, NEW a, NEW d, NEW q,
         a.nTimeOut \in TimeoutKinds, TryLock(t, a, d, q)
  PROVE  SleepListMatchesCallers'
<1>1. CASE \E e : Return(t, e) /\ MakeReadyAnd({}, t, "TS_RUN")
  BY <1>1, ListedReturn
<1>2. CASE /\ Block(t, "lock", a, d, q)
           /\ a.nTimeOut \in {"finite", "INFINITE_TIMEOUT"}
  BY <1>2, ListedBlock
<1> QED BY <1>1, <1>2 DEF TryLock

\* A try of the mutex keeps the sleep list right.
LEMMA TryMutexListed ==
  ASSUME TypeOK, TypeOK', SleepListMatchesCallers, NEW t \in Threads, NEW a, NEW q,
         a.nTimeOut = "INFINITE_TIMEOUT", TryMutex(t, a, q)
  PROVE  SleepListMatchesCallers'
<1>1. CASE \E e : Return(t, e) /\ MakeReadyAnd({}, t, "TS_RUN")
  BY <1>1, ListedReturn
<1>2. CASE Block(t, "lock_mutex", a, "ahead", q)
  BY <1>2, ListedBlock
<1> QED BY <1>1, <1>2 DEF TryMutex

\* Every step keeps the sleep list and the calls in step.
LEMMA SleepStep ==
  ASSUME Inv, Inv', SleepListMatchesCallers, [Next]_vars
  PROVE  SleepListMatchesCallers'
<1>0. TypeOK /\ TypeOK' /\ CallArgs
  BY DEF Inv
<1>1. ASSUME NEW t \in Threads, NEW s, InvalidHandle(t, s) \/ DeletedWhileBlocked(t)
      PROVE  SleepListMatchesCallers'
  BY <1>0, <1>1, ListedReturn DEF InvalidHandle, DeletedWhileBlocked
<1>2. ASSUME UNCHANGED <<sleepers, pc, arg>>,
             tr_nState' = tr_nState \/ \E W, why : MakeReady(W, why)
      PROVE  SleepListMatchesCallers'
  <2>1. \A u \in Threads : tr_nState'[u] = "TS_SLEEP" => tr_nState[u] = "TS_SLEEP"
    BY <1>2, ReadyStaysUp
  <2> QED BY <1>2, <2>1, ListedQuiet
<1>3. ASSUME NEW t \in Threads, NEW s \in Semas, create_semaphore(t, s)
      PROVE  SleepListMatchesCallers'
  BY <1>2, <1>3 DEF create_semaphore, threadVars
<1>4. ASSUME NEW t \in Threads, UNCHANGED <<sleepers, tr_nState>>, Others(t),
             pc[t] \in {"idle", "return"}, pc'[t] \in {"idle", "delete"}
      PROVE  SleepListMatchesCallers'
  BY <1>0, <1>4, ListedFrame DEF Listed, OthersStayUp, SleepListMatchesCallers
<1>5. ASSUME NEW t \in Threads, NEW s \in Semas, delete_semaphore(t, s)
      PROVE  SleepListMatchesCallers'
  BY <1>0, <1>1, <1>4, <1>5 DEF delete_semaphore, unlink_semaphore, Caller, TypeOK, Others
<1>6. ASSUME NEW t \in Threads, LeaveCall(t)
      PROVE  SleepListMatchesCallers'
  BY <1>0, <1>4, <1>6 DEF LeaveCall, TypeOK, Others
<1>7. ASSUME NEW t \in Threads, NEW s \in Semas, NEW n \in Counts \cup {1}, NEW f \in LockFlags,
             NEW o \in Timeouts, lock_semaphore_ex(t, s, n, f, o)
      PROVE  SleepListMatchesCallers'
  <2> DEFINE a == [NoArg EXCEPT !.hSema = s, !.nCount = n, !.nFlags = f, !.nTimeOut = o]
  <2>1. n \in Nat /\ f \in FlagKinds /\ o \in TimeoutKinds
    BY ConstantTypes
  <2>2. a.nTimeOut \in TimeoutKinds
    BY <2>1, NoArgType DEF Args
  <2> HIDE DEF a
  <2>3. ASSUME NEW d, TryLock(t, a, d, ss_psWaitQueue[s]) PROVE SleepListMatchesCallers'
    BY <1>0, <2>2, <2>3, TryLockListed
  <2> QED BY <1>1, <1>7, <2>3 DEF lock_semaphore_ex, a
<1>8. ASSUME NEW t \in Threads, lock_semaphore_resume(t)
      PROVE  SleepListMatchesCallers'
  <2>1. arg[t].nTimeOut \in TimeoutKinds
    BY <1>0 DEF TypeOK, Args
  <2>2. ASSUME NEW d, NEW q, TryLock(t, arg[t], d, q) PROVE SleepListMatchesCallers'
    BY <1>0, <2>1, <2>2, TryLockListed
  <2>3. ASSUME NEW W, NEW e, Return(t, e), MakeReadyAnd(W, t, "TS_RUN")
        PROVE  SleepListMatchesCallers'
    BY <1>0, <2>3, ListedReturn
  <2> QED BY <1>1, <1>8, <2>2, <2>3 DEF lock_semaphore_resume
<1>9. ASSUME NEW t \in Threads, NEW s \in Semas,
             unlock_mutex(t, s) \/ \E n \in Counts \cup {1} : unlock_semaphore_ex(t, s, n)
      PROVE  SleepListMatchesCallers'
  <2>1. ASSUME NEW W, Return(t, "0"), MakeReady(W, "queue"), pc[t] = "idle"
        PROVE  SleepListMatchesCallers'
    BY <1>0, <2>1, ListedReturn
  <2> QED BY <1>1, <1>9, <2>1 DEF unlock_mutex, unlock_semaphore_ex, Release, Caller
<1>10. ASSUME NEW t \in Threads, NEW s \in Semas, NEW f \in MutexFlags, lock_mutex(t, s, f)
       PROVE  SleepListMatchesCallers'
  <2> DEFINE a == [NoArg EXCEPT !.hSema = s, !.nCount = 1, !.nFlags = f,
                                !.nTimeOut = "INFINITE_TIMEOUT"]
  <2>1. a.nTimeOut = "INFINITE_TIMEOUT"
    BY NoArgType DEF Args
  <2> HIDE DEF a
  <2>2. CASE pc[t] = "idle" /\ Return(t, "EINVAL") /\ tr_nState' = tr_nState
    BY <1>0, <2>2, ListedReturn
  <2>3. CASE TryMutex(t, a, ss_psWaitQueue[s])
    BY <1>0, <2>1, <2>3, TryMutexListed
  <2> QED BY <1>10, <2>2, <2>3 DEF lock_mutex, Caller, a
<1>11. ASSUME NEW t \in Threads, lock_mutex_resume(t)
       PROVE  SleepListMatchesCallers'
  <2>1. arg[t].nTimeOut = "INFINITE_TIMEOUT"
    BY <1>0, <1>11 DEF lock_mutex_resume, Resumed, CallArgs
  <2>2. ASSUME NEW q, TryMutex(t, arg[t], q) PROVE SleepListMatchesCallers'
    BY <1>0, <2>1, <2>2, TryMutexListed
  <2>3. ASSUME NEW W, NEW e, Return(t, e), MakeReadyAnd(W, t, "TS_RUN")
        PROVE  SleepListMatchesCallers'
    BY <1>0, <2>3, ListedReturn
  <2> QED BY <1>1, <1>11, <2>2, <2>3 DEF lock_mutex_resume
<1>12. ASSUME NEW t \in Threads, NEW s \in Semas, NEW o \in Timeouts,
              sleep_on_sem(t, s, o) \/ spinunlock_and_suspend(t, s, o)
       PROVE  SleepListMatchesCallers'
  <2> DEFINE a == [NoArg EXCEPT !.hSema = s, !.nTimeOut = o]
  <2>1. a.nTimeOut = o /\ o \in {"zero", "finite", "INFINITE_TIMEOUT"}
    BY NoArgType, ConstantTypes DEF Args, TimeoutKinds
  <2> HIDE DEF a
  <2>2. CASE pc[t] = "idle" /\ Return(t, "ETIME") /\ tr_nState' = tr_nState
    BY <1>0, <2>2, ListedReturn
  <2>3. ASSUME o # "zero", NEW d, NEW place \in {"sleep", "spin"}, NEW q, Block(t, place, a, d, q)
        PROVE  SleepListMatchesCallers'
    BY <1>0, <2>1, <2>3, ListedBlock
  <2>4. CASE sleep_on_sem(t, s, o)
    BY <1>1, <2>2, <2>3, <2>4 DEF sleep_on_sem, Caller, a
  <2>5. CASE spinunlock_and_suspend(t, s, o)
    BY <1>1, <2>2, <2>3, <2>5 DEF spinunlock_and_suspend, Caller, a
  <2> QED BY <1>12, <2>4, <2>5
<1>13. ASSUME NEW t \in Threads,
              \/ sleep_on_sem_resume(t) \/ spinunlock_and_suspend_resume(t)
              \/ unlock_and_suspend_resume(t)
       PROVE  SleepListMatchesCallers'
  <2>1. \E e : Return(t, e) /\ MakeReadyAnd({}, t, "TS_RUN")
    BY <1>13 DEF sleep_on_sem_resume, spinunlock_and_suspend_resume,
                 unlock_and_suspend_resume, DeletedWhileBlocked
  <2> QED BY <1>0, <2>1, ListedReturn
<1>14. ASSUME NEW t \in Threads, NEW s \in Semas, NEW b \in BOOLEAN, wakeup_sem(t, s, b)
       PROVE  SleepListMatchesCallers'
  <2>1. ASSUME NEW W, Return(t, "0"), MakeReady(W, "queue"), pc[t] = "idle"
        PROVE  SleepListMatchesCallers'
    BY <1>0, <2>1, ListedReturn
  <2> QED BY <1>1, <1>14, <2>1 DEF wakeup_sem, Caller
<1>15. ASSUME NEW t \in Threads, NEW s \in Semas, NEW h \in WaitQueues, unlock_and_suspend(t, h, s)
       PROVE  SleepListMatchesCallers'
  <2> DEFINE a == [NoArg EXCEPT !.hSema = h, !.hUnlock = s, !.nTimeOut = "INFINITE_TIMEOUT"]
  <2>1. a.nTimeOut = "INFINITE_TIMEOUT"
    BY NoArgType DEF Args
  <2> HIDE DEF a
  <2>2. CASE Block(t, "uas_unlock", a, "ahead", ss_psWaitQueue[h])
    BY <1>0, <2>1, <2>2, ListedBlock
  <2> QED BY <1>1, <1>15, <2>2 DEF unlock_and_suspend, a
<1>16. ASSUME NEW t \in Threads, unlock_and_suspend_unlocks(t)
       PROVE  SleepListMatchesCallers'
  <2>1. tr_nState' = tr_nState \/ \E W : MakeReady(W, "queue")
    BY <1>16 DEF unlock_and_suspend_unlocks, Release
  <2>2. \A u \in Threads : tr_nState'[u] = "TS_SLEEP" => tr_nState[u] = "TS_SLEEP"
    BY <2>1, ReadyStaysUp
  <2>3. Others(t) /\ sleepers' = sleepers /\ pc[t] = "uas_unlock"
    BY <1>0, <1>16 DEF unlock_and_suspend_unlocks, TypeOK, Others
  <2>4. Listed(t)'
    BY <2>2, <2>3 DEF Listed, SleepListMatchesCallers
  <2> QED BY <1>0, <2>2, <2>3, <2>4, ListedFrame DEF OthersStayUp
<1>17. ASSUME NEW t \in Threads, delete_wakes(t)
       PROVE  SleepListMatchesCallers'
  <2>1. \E W : Return(t, "0") /\ MakeReady(W, "queue")
    BY <1>17 DEF delete_wakes
  <2>2. pc[t] = "delete"
    BY <1>17 DEF delete_wakes
  <2> QED BY <1>0, <2>1, <2>2, ListedReturn
<1>18. ASSUME NEW t \in Threads, handle_signals(t) \/ send_signal(t) \/ TimePasses(t)
       PROVE  SleepListMatchesCallers'
  BY <1>2, <1>18 DEF handle_signals, send_signal, TimePasses
<1>19. CASE wake_up_sleepers
  <2> DEFINE Due == {t \in sleepers : deadline[t] # "ahead"}
  <2>1. /\ sleepers' = sleepers \ Due /\ pc' = pc /\ arg' = arg
        /\ \A u \in Threads : tr_nState'[u] =
             IF u \in {t \in Due : tr_nState[t] = "TS_SLEEP"} THEN "TS_READY" ELSE tr_nState[u]
    BY <1>19 DEF wake_up_sleepers, MakeReady
  <2> HIDE DEF Due
  <2> QED BY <2>1 DEF SleepListMatchesCallers
<1>20. CASE UNCHANGED vars
  BY <1>2, <1>20 DEF vars, threadVars
<1>21. ASSUME NEW t \in Threads, Client(t) PROVE SleepListMatchesCallers'
  BY <1>3, <1>5, <1>6, <1>7, <1>9, <1>10, <1>12, <1>14, <1>15, <1>18, <1>21 DEF Client
<1>22. ASSUME NEW t \in Threads, Continue(t) PROVE SleepListMatchesCallers'
  BY <1>8, <1>11, <1>13, <1>16, <1>17, <1>22 DEF Continue
<1> QED BY <1>18, <1>19, <1>20, <1>21, <1>22 DEF Next

\* A node of the sleep list belongs to a call with a timeout that has not
\* returned, and every thread in TS_SLEEP has one, for any number of threads:
\* wake_up_sleepers never touches a dead stack frame and no timed wait of
\* do_lock_semaphore_ex, sleep_on_sem or spinunlock_and_suspend loses its timeout.
THEOREM SleepListMatches == Spec => []SleepListMatchesCallers
<1>1. Init => SleepListMatchesCallers
  BY DEF Init, SleepListMatchesCallers
<1>2. Inv /\ Inv' /\ SleepListMatchesCallers /\ [Next]_vars => SleepListMatchesCallers'
  BY SleepStep
<1> QED BY <1>1, <1>2, Invariance, PTL DEF Spec

-----------------------------------------------------------------------------
(* The result of a lock call.                                              *)

\* Only its own resumption ends a lock call.
LEMMA LockReturns ==
  ASSUME TypeOK, NEW t \in Threads, pc[t] = "lock", pc'[t] = "return", [Next]_vars
  PROVE  lock_semaphore_resume(t)
<1>1. ASSUME NEW u \in Threads, Client(u) PROVE FALSE
  <2>1. pc[u] \in {"idle", "return"}
    BY <1>1 DEF Client, create_semaphore, delete_semaphore, lock_semaphore_ex, unlock_semaphore_ex,
                lock_mutex, unlock_mutex, sleep_on_sem, spinunlock_and_suspend, wakeup_sem,
                unlock_and_suspend, LeaveCall, handle_signals, Caller
  <2>2. u # t
    BY <2>1
  <2>3. ASSUME NEW e, Return(u, e) PROVE FALSE
    BY <2>2, <2>3 DEF Return, TypeOK
  <2>4. ASSUME NEW place, NEW a, NEW d, NEW q, Block(u, place, a, d, q) PROVE FALSE
    BY <2>2, <2>4 DEF Block, TypeOK
  <2>5. ASSUME pc' = pc \/ pc' = [pc EXCEPT ![u] = "idle"] \/ pc' = [pc EXCEPT ![u] = "delete"]
        PROVE  FALSE
    BY <2>2, <2>5 DEF TypeOK
  <2>6. ASSUME NEW s \in Semas, \/ create_semaphore(u, s) \/ delete_semaphore(u, s)
                               \/ unlock_mutex(u, s)
                               \/ \E n \in Counts \cup {1} : unlock_semaphore_ex(u, s, n)
                               \/ \E b \in BOOLEAN : wakeup_sem(u, s, b)
        PROVE  FALSE
    BY <2>3, <2>5, <2>6 DEF create_semaphore, delete_semaphore, unlink_semaphore, unlock_mutex,
                            unlock_semaphore_ex, wakeup_sem, InvalidHandle, threadVars
  <2>7. ASSUME NEW s \in Semas, NEW n \in Counts \cup {1}, NEW f \in LockFlags, NEW o \in Timeouts,
               lock_semaphore_ex(u, s, n, f, o)
        PROVE  FALSE
    BY <2>3, <2>4, <2>7 DEF lock_semaphore_ex, TryLock, InvalidHandle
  <2>8. ASSUME NEW s \in Semas, NEW f \in MutexFlags, lock_mutex(u, s, f) PROVE FALSE
    BY <2>3, <2>4, <2>8 DEF lock_mutex, TryMutex
  <2>9. ASSUME NEW s \in Semas, NEW o \in Timeouts, sleep_on_sem(u, s, o) \/ spinunlock_and_suspend(u, s, o)
        PROVE  FALSE
    BY <2>3, <2>4, <2>9 DEF sleep_on_sem, spinunlock_and_suspend, InvalidHandle
  <2>10. ASSUME NEW s \in Semas, NEW h \in WaitQueues, unlock_and_suspend(u, h, s) PROVE FALSE
    BY <2>3, <2>4, <2>10 DEF unlock_and_suspend, InvalidHandle
  <2>11. CASE LeaveCall(u) \/ handle_signals(u)
    BY <2>5, <2>11 DEF LeaveCall, handle_signals
  <2> QED BY <1>1, <2>6, <2>7, <2>8, <2>9, <2>10, <2>11 DEF Client
<1>2. ASSUME NEW u \in Threads, Continue(u), ~lock_semaphore_resume(t) PROVE FALSE
  <2>1. u # t
    BY <1>2 DEF Continue, lock_mutex_resume, sleep_on_sem_resume, spinunlock_and_suspend_resume,
                unlock_and_suspend_unlocks, unlock_and_suspend_resume, delete_wakes, Resumed
  <2>2. \E p : pc' = [pc EXCEPT ![u] = p]
    BY <1>2 DEF Continue, lock_semaphore_resume, lock_mutex_resume, sleep_on_sem_resume,
                spinunlock_and_suspend_resume, unlock_and_suspend_unlocks,
                unlock_and_suspend_resume, delete_wakes,
                DeletedWhileBlocked, TryLock, TryMutex, Return, Block
  <2> QED BY <2>1, <2>2 DEF TypeOK
<1>3. ASSUME NEW u \in Threads, send_signal(u) \/ TimePasses(u) PROVE FALSE
  BY <1>3 DEF send_signal, TimePasses
<1>4. CASE wake_up_sleepers
  BY <1>4 DEF wake_up_sleepers
<1>5. CASE UNCHANGED vars
  BY <1>5 DEF vars, threadVars
<1> QED BY <1>1, <1>2, <1>3, <1>4, <1>5 DEF Next

\* A lock call that returns 0 has taken the mutex once more and one that returns
\* an error has left it alone, whatever woke it: a release, a timeout, a signal
\* or the deletion of the semaphore (do_lock_semaphore_ex).
THEOREM LockResults == Spec => LockResultIsTrue
<1>1. ASSUME Inv, [Next]_vars, NEW t \in Threads, NEW s \in Mutexes,
             pc[t] = "lock", pc'[t] = "return", arg[t].hSema = s
      PROVE  arg'[t].nError = "0" <=> held'[s][t] = held[s][t] + 1
  <2>0. TypeOK /\ CallArgs
    BY <1>1 DEF Inv
  <2>1. lock_semaphore_resume(t)
    BY <1>1, <2>0, LockReturns
  <2>2. arg[t].nCount = 1 /\ held[s][t] \in Nat /\ s \in Semas
    BY <1>1, <2>0 DEF CallArgs, TypeOK, Semas
  <2>3. ASSUME NEW e \in Errors, Return(t, e) PROVE arg'[t].nError = e
    BY <2>0, <2>3, NoArgType DEF Return, TypeOK, Args
  <2>4. CASE \E e \in Errors \ {"0"} : Return(t, e) /\ held' = held
    BY <2>2, <2>3, <2>4
  <2>5. CASE Return(t, "0") /\ held' = [held EXCEPT ![s][t] = @ + 1]
    <3>1. "0" \in Errors
      BY DEF Errors
    <3> QED BY <2>0, <2>3, <2>5, <3>1 DEF TypeOK
  <2>6. CASE DeletedWhileBlocked(t)
    BY <2>4, <2>6 DEF DeletedWhileBlocked, Errors
  <2>7. CASE TryLock(t, arg[t], deadline[t],
                     remove_from_waitlist(ss_psWaitQueue[arg[t].hSema], t))
    <3>1. ~ \E a, d, q : Block(t, "lock", a, d, q)
      BY <1>1, <2>0 DEF Block, TypeOK
    <3> QED BY <1>1, <2>4, <2>5, <2>7, <3>1 DEF TryLock, Errors
  <2> QED BY <2>1, <2>4, <2>6, <2>7 DEF lock_semaphore_resume, Errors, histVars
<1>2. ASSUME Inv, [Next]_vars
      PROVE  [\A t \in Threads, s \in Mutexes :
                pc[t] = "lock" /\ pc'[t] = "return" /\ arg[t].hSema = s
                  => (arg'[t].nError = "0" <=> held'[s][t] = held[s][t] + 1)]_vars
  BY <1>1, <1>2
<1> QED BY <1>2, Invariance, PTL DEF Spec, LockResultIsTrue

-----------------------------------------------------------------------------
(* Deletion.                                                               *)

\* Between the removal of its handle and its being freed, the ring of a
\* semaphore holds one node for each thread still in a call on it, and the nodes
\* that returned callers left behind; then it is gone.
DeletedRing(s) ==
  LET q == ss_psWaitQueue[s] IN
  /\ table[s] = "unlinked" => /\ \A u \in Threads : On(u, s) => u \in Members(q)
                              /\ \A u \in Members(q) : On(u, s) \/ u \in stale[s]
                              /\ OneNodeEach(q)
  /\ table[s] = "freed" => q = <<>>
  /\ table[s] # "unlinked" => stale[s] = {}

\* Nobody is blocked on s once it is freed.
NobodyOn(s) == table[s] = "freed" => \A u \in Threads : On(u, s) => tr_nState[u] \notin Blocked

DeletedOK ==
  \A s \in Semas : DeletedRing(s) /\ ("dangling_node" \notin faults => NobodyOn(s))

\* A step that does nothing to deleted semaphores and the threads in calls on
\* them, except that it may wake these.
SparesDeleted ==
  /\ faults \subseteq faults' /\ stale' = stale
  /\ \A s \in Semas :
       /\ table[s] = "unlinked" => table'[s] = "unlinked"
       /\ table'[s] \in {"unlinked", "freed"} =>
            /\ table[s] = table'[s] /\ ss_psWaitQueue'[s] = ss_psWaitQueue[s]
            /\ \A u \in Threads : /\ On(u, s)' <=> On(u, s)
                                  /\ On(u, s) /\ tr_nState'[u] \in Blocked => tr_nState[u] \in Blocked

\* A step that spares deleted semaphores and their threads keeps DeletedOK.
LEMMA DeletedSpared ==
  ASSUME TypeOK, DeletedOK, SparesDeleted
  PROVE  DeletedOK'
<1>1. ASSUME NEW s \in Semas PROVE DeletedRing(s)'
  <2>1. DeletedRing(s)
    BY DEF DeletedOK
  <2>2. CASE table'[s] \in {"unlinked", "freed"}
    <3>1. Members(ss_psWaitQueue[s]) \subseteq Threads
      BY DEF TypeOK, Members
    <3> QED BY <2>1, <2>2, <3>1 DEF DeletedRing, SparesDeleted
  <2>3. CASE table'[s] \notin {"unlinked", "freed"}
    BY <2>1, <2>3 DEF DeletedRing, SparesDeleted
  <2> QED BY <2>2, <2>3
<1>2. ASSUME NEW s \in Semas, "dangling_node" \notin faults' PROVE NobodyOn(s)'
  <2>1. NobodyOn(s)
    BY <1>2 DEF DeletedOK, SparesDeleted
  <2> QED BY <2>1 DEF NobodyOn, SparesDeleted
<1> QED BY <1>1, <1>2 DEF DeletedOK

\* The call of t, if it waits, is on a live semaphore.
OnLive(t) == pc[t] \in Waiting => table[arg[t].hSema] = "live"

\* A call on a live semaphore ends, and rearranges at most the ring of a live one.
LEMMA SparesReturn ==
  ASSUME TypeOK, NEW t \in Threads, OnLive(t), NEW e, Return(t, e), NobodyBlocks,
         table' = table, stale' = stale, faults \subseteq faults',
         \/ ss_psWaitQueue' = ss_psWaitQueue
         \/ \E s \in Semas : table[s] = "live" /\ \E q : ss_psWaitQueue' = [ss_psWaitQueue EXCEPT ![s] = q]
  PROVE  SparesDeleted
<1>1. Others(t) /\ pc'[t] \notin Waiting
  BY ReturnFrame
<1>2. ASSUME NEW s \in Semas, table[s] # "live" PROVE ss_psWaitQueue'[s] = ss_psWaitQueue[s]
  BY <1>2 DEF TypeOK
<1>3. ASSUME NEW s \in Semas, table[s] # "live", NEW u \in Threads
      PROVE  /\ On(u, s)' <=> On(u, s)
             /\ tr_nState'[u] \in Blocked => tr_nState[u] \in Blocked
  BY <1>1, <1>3 DEF On, Others, OnLive, NobodyBlocks
<1> QED BY <1>2, <1>3 DEF SparesDeleted

\* A call blocks on a live semaphore.
LEMMA SparesBlock ==
  ASSUME TypeOK, NEW t \in Threads, OnLive(t), NEW place, NEW a, NEW d, NEW q,
         Block(t, place, a, d, q), a.hSema \in Semas, table[a.hSema] = "live",
         table' = table, stale' = stale, faults \subseteq faults'
  PROVE  SparesDeleted
<1>1. /\ Others(t) /\ pc'[t] = place /\ arg'[t] = a
      /\ ss_psWaitQueue' = [ss_psWaitQueue EXCEPT ![a.hSema] = add_to_waitlist(q, t)]
      /\ \A u \in Threads \ {t} : tr_nState'[u] = tr_nState[u]
  BY BlockFrame
<1>2. ASSUME NEW s \in Semas, table[s] # "live" PROVE ss_psWaitQueue'[s] = ss_psWaitQueue[s]
  BY <1>1, <1>2 DEF TypeOK
<1>3. ASSUME NEW s \in Semas, table[s] # "live", NEW u \in Threads
      PROVE  /\ On(u, s)' <=> On(u, s)
             /\ On(u, s) /\ tr_nState'[u] \in Blocked => tr_nState[u] \in Blocked
  BY <1>1, <1>3 DEF On, Others, OnLive
<1> QED BY <1>2, <1>3 DEF SparesDeleted

\* A step outside every call on a semaphore.
LEMMA SparesQuiet ==
  ASSUME TypeOK, UNCHANGED <<table, ss_psWaitQueue, stale, faults>>, NobodyBlocks,
         \A u \in Threads : \/ pc'[u] = pc[u] /\ arg'[u] = arg[u]
                            \/ pc[u] \notin Waiting /\ pc'[u] \notin Waiting
  PROVE  SparesDeleted
<1>1. \A u \in Threads, s \in Semas : On(u, s)' <=> On(u, s)
  BY DEF On
<1> QED BY <1>1 DEF SparesDeleted, NobodyBlocks

\* A turn of do_lock_semaphore_ex or lock_mutex.
LEMMA TrySpares ==
  ASSUME TypeOK, NEW t \in Threads, OnLive(t), NEW a, NEW d, NEW q, a.hSema \in Semas,
         table[a.hSema] = "live", table' = table, stale' = stale, faults' = faults,
         TryLock(t, a, d, q) \/ TryMutex(t, a, q)
  PROVE  SparesDeleted
<1>1. CASE /\ \E e : Return(t, e)
           /\ MakeReadyAnd({}, t, "TS_RUN")
           /\ ss_psWaitQueue' = [ss_psWaitQueue EXCEPT ![a.hSema] = q]
  BY <1>1, ReadyOnly, SparesReturn
<1>2. ASSUME NEW place, NEW e, Block(t, place, a, e, q) PROVE SparesDeleted
  BY <1>2, SparesBlock
<1>3. CASE TryLock(t, a, d, q)
  BY <1>1, <1>2, <1>3 DEF TryLock
<1>4. CASE TryMutex(t, a, q)
  BY <1>1, <1>2, <1>4 DEF TryMutex
<1> QED BY <1>3, <1>4

\* An unknown handle.
LEMMA SparesInvalid ==
  ASSUME TypeOK, NEW t \in Threads, pc[t] = "idle", NEW s, InvalidHandle(t, s)
  PROVE  SparesDeleted
<1>1. OnLive(t)
  BY DEF OnLive, Waiting
<1> QED BY <1>1, ReadyOnly, SparesReturn DEF InvalidHandle, semVars, histVars

\* The step in which a call notices that its semaphore is gone leaves a node
\* behind if the ring is still there.
LEMMA DeletedNoticed ==
  ASSUME TypeOK, CallArgs, DeletedOK, NEW t \in Threads, pc[t] \in Waiting, DeletedWhileBlocked(t)
  PROVE  DeletedOK'
<1> DEFINE r == arg[t].hSema
<1>1. r \in Semas /\ table[r] \in {"unlinked", "freed"}
  BY DEF CallArgs, DeletedWhileBlocked, TypeOK, TableStates
<1>2. /\ table' = table /\ ss_psWaitQueue' = ss_psWaitQueue /\ faults' = faults
      /\ stale' = [stale EXCEPT ![r] = IF table[r] = "unlinked" THEN stale[r] \cup {t} ELSE stale[r]]
      /\ Others(t) /\ pc'[t] \notin Waiting /\ NobodyBlocks
  BY ReturnFrame, ReadyOnly DEF DeletedWhileBlocked, semVars
<1> HIDE DEF r
<1>3. /\ \A s \in Semas \ {r} : stale'[s] = stale[s]
      /\ stale'[r] = IF table[r] = "unlinked" THEN stale[r] \cup {t} ELSE stale[r]
  BY <1>1, <1>2 DEF TypeOK
<1>4. /\ \A s \in Semas, u \in Threads \ {t} : On(u, s)' <=> On(u, s)
      /\ \A s \in Semas : ~ On(t, s)'
  BY <1>2 DEF On, Others
<1>5. \A s \in Semas \ {r} : ~ On(t, s)
  BY DEF On, r
<1>6. ASSUME NEW s \in Semas PROVE DeletedRing(s)'
  <2>1. DeletedRing(s) /\ Members(ss_psWaitQueue[s]) \subseteq Threads
    BY DEF DeletedOK, TypeOK, Members
  <2>2. CASE s # r
    BY <1>2, <1>3, <1>4, <1>5, <2>1, <2>2 DEF DeletedRing
  <2>3. CASE s = r
    BY <1>2, <1>3, <1>4, <2>1, <2>3 DEF DeletedRing
  <2> QED BY <2>2, <2>3
<1>7. ASSUME NEW s \in Semas, "dangling_node" \notin faults' PROVE NobodyOn(s)'
  BY <1>2, <1>4, <1>7 DEF DeletedOK, NobodyOn, NobodyBlocks
<1> QED BY <1>6, <1>7 DEF DeletedOK

\* unlink_semaphore takes over the ring of a live semaphore.
LEMMA DeletedUnlinked ==
  ASSUME Inv, DeletedOK, NEW t \in Threads, NEW r \in Semas, pc[t] = "idle", unlink_semaphore(t, r)
  PROVE  DeletedOK'
<1>0. TypeOK /\ RingMatchesCallers
  BY DEF Inv
<1>1. /\ table[r] = "live" /\ table' = [table EXCEPT ![r] = "unlinked"]
      /\ UNCHANGED <<ss_psWaitQueue, tr_nState, stale, faults>>
      /\ Others(t) /\ pc[t] \notin Waiting /\ pc'[t] \notin Waiting
  BY <1>0 DEF unlink_semaphore, TypeOK, Others, Waiting
<1>2. \A s \in Semas, u \in Threads : On(u, s)' <=> On(u, s)
  BY <1>1 DEF On, Others
<1>3. \A s \in Semas \ {r} : table'[s] = table[s]
  BY <1>0, <1>1 DEF TypeOK
<1>4. ASSUME NEW s \in Semas PROVE DeletedRing(s)'
  <2>1. DeletedRing(s) /\ Members(ss_psWaitQueue[s]) \subseteq Threads
    BY <1>0 DEF DeletedOK, TypeOK, Members
  <2>2. CASE s # r
    BY <1>1, <1>2, <1>3, <2>1, <2>2 DEF DeletedRing
  <2>3. CASE s = r
    <3>1. table'[r] = "unlinked"
      BY <1>0, <1>1 DEF TypeOK
    <3>2. /\ Members(ss_psWaitQueue[r]) = {u \in Threads : On(u, r)}
          /\ OneNodeEach(ss_psWaitQueue[r])
      BY <1>0, <1>1 DEF RingMatchesCallers, OneNodeEach, On
    <3> QED BY <1>1, <1>2, <2>1, <2>3, <3>1, <3>2 DEF DeletedRing
  <2> QED BY <2>2, <2>3
<1>5. ASSUME NEW s \in Semas, "dangling_node" \notin faults' PROVE NobodyOn(s)'
  <2>1. NobodyOn(s)
    BY <1>1, <1>5 DEF DeletedOK
  <2>2. table'[s] = "freed" => table[s] = "freed"
    BY <1>0, <1>1, <1>3 DEF TypeOK
  <2> QED BY <1>1, <1>2, <2>1, <2>2 DEF NobodyOn
<1> QED BY <1>4, <1>5 DEF DeletedOK

\* The walk over the ring wakes everybody in it, unless it meets a stale node.
LEMMA DeletedFreed ==
  ASSUME Inv, DeletedOK, NEW t \in Threads, delete_wakes(t)
  PROVE  DeletedOK'
<1>0. TypeOK /\ CallArgs
  BY DEF Inv
<1>1. PICK r \in Semas : r = arg[t].hSema /\ table[r] \in {"unlinked", "freed"}
  BY <1>0 DEF delete_wakes, CallArgs
<1> DEFINE q == ss_psWaitQueue[r]
<1>2. PICK W \in SUBSET wake_up_queue(q, TRUE) :
        (stale[r] = {} => W = wake_up_queue(q, TRUE)) /\ MakeReady(W, "queue")
  BY <1>1 DEF delete_wakes
<1>3. /\ table' = [table EXCEPT ![r] = "freed"]
      /\ ss_psWaitQueue' = [ss_psWaitQueue EXCEPT ![r] = <<>>]
      /\ stale' = [stale EXCEPT ![r] = {}]
      /\ faults' = IF stale[r] = {} THEN faults ELSE faults \cup {"dangling_node"}
      /\ Others(t) /\ pc[t] \notin Waiting /\ pc'[t] \notin Waiting
  BY <1>0, <1>1, ReturnFrame DEF delete_wakes, Waiting
<1>4. NobodyBlocks
  BY <1>0, <1>2, ReadyOnly
<1>5. \A s \in Semas, u \in Threads : On(u, s)' <=> On(u, s)
  BY <1>3 DEF On, Others
<1>6. \A s \in Semas \ {r} : /\ table'[s] = table[s] /\ stale'[s] = stale[s]
                             /\ ss_psWaitQueue'[s] = ss_psWaitQueue[s]
  BY <1>0, <1>3 DEF TypeOK
<1>7. table'[r] = "freed" /\ stale'[r] = {} /\ ss_psWaitQueue'[r] = <<>>
  BY <1>0, <1>3 DEF TypeOK
<1>8. ASSUME NEW s \in Semas PROVE DeletedRing(s)'
  <2>1. DeletedRing(s) /\ Members(ss_psWaitQueue[s]) \subseteq Threads
    BY <1>0 DEF DeletedOK, TypeOK, Members
  <2>2. CASE s # r
    BY <1>5, <1>6, <2>1, <2>2 DEF DeletedRing
  <2>3. CASE s = r
    BY <1>7, <2>3 DEF DeletedRing
  <2> QED BY <2>2, <2>3
<1>9. ASSUME NEW s \in Semas, "dangling_node" \notin faults' PROVE NobodyOn(s)'
  <2>1. stale[r] = {} /\ "dangling_node" \notin faults
    BY <1>3, <1>9
  <2>2. NobodyOn(s) /\ DeletedRing(s)
    BY <2>1 DEF DeletedOK
  <2>3. CASE s # r
    BY <1>4, <1>5, <1>6, <2>2, <2>3 DEF NobodyOn, NobodyBlocks
  <2>4. CASE s = r
    <3>1. ASSUME NEW u \in Threads, On(u, r), tr_nState'[u] \in Blocked PROVE FALSE
      <4>1. tr_nState[u] \in Blocked
        BY <1>4, <3>1 DEF NobodyBlocks
      <4>2. u \in Members(q)
        BY <1>1, <2>2, <2>4, <3>1, <4>1 DEF DeletedRing, NobodyOn
      <4>3. u \in W
        BY <1>2, <2>1, <4>1, <4>2 DEF wake_up_queue
      <4> QED BY <1>2, <3>1, <4>3 DEF MakeReady, Blocked
    <3> QED BY <1>5, <2>4, <3>1 DEF NobodyOn
  <2> QED BY <2>3, <2>4
<1> QED BY <1>8, <1>9 DEF DeletedOK

\* unlock_and_suspend unlinks its node from whatever ring it was in.
LEMMA DeletedSuspended ==
  ASSUME Inv, DeletedOK, NEW t \in Threads, unlock_and_suspend_resume(t)
  PROVE  DeletedOK'
<1>0. TypeOK /\ CallArgs
  BY DEF Inv
<1>1. PICK r \in Semas : r = arg[t].hSema /\ On(t, r)
  BY <1>0 DEF unlock_and_suspend_resume, Resumed, CallArgs, Waiting, On
<1> DEFINE q == ss_psWaitQueue[r]
           p == remove_from_waitlist(q, t)
<1>2. /\ table' = table /\ stale' = stale /\ faults \subseteq faults'
      /\ Others(t) /\ pc'[t] \notin Waiting /\ NobodyBlocks
      /\ \/ table[r] \in {"live", "unlinked"} /\ ss_psWaitQueue' = [ss_psWaitQueue EXCEPT ![r] = p]
         \/ table[r] = "freed" /\ ss_psWaitQueue' = ss_psWaitQueue
  BY <1>0, <1>1, ReturnFrame, ReadyOnly DEF unlock_and_suspend_resume
<1>3. /\ \A s \in Semas, u \in Threads \ {t} : On(u, s)' <=> On(u, s)
      /\ \A s \in Semas : ~ On(t, s)'
      /\ \A s \in Semas \ {r} : ~ On(t, s)
  BY <1>1, <1>2 DEF On, Others
<1>4. ASSUME NEW s \in Semas, s # r PROVE ss_psWaitQueue'[s] = ss_psWaitQueue[s]
  BY <1>0, <1>2, <1>4 DEF TypeOK
<1>5. ASSUME NEW s \in Semas PROVE DeletedRing(s)'
  <2>1. DeletedRing(s) /\ Members(ss_psWaitQueue[s]) \subseteq Threads
    BY <1>0 DEF DeletedOK, TypeOK, Members
  <2>2. CASE s # r
    BY <1>2, <1>3, <1>4, <2>1, <2>2 DEF DeletedRing
  <2>3. CASE s = r /\ table[r] = "unlinked"
    <3>1. q \in Seq(Threads) /\ t \in Members(q) /\ OneNodeEach(q)
      BY <1>0, <1>1, <2>1, <2>3 DEF TypeOK, DeletedRing
    <3>2. Members(p) = Members(q) \ {t} /\ OneNodeEach(p)
      BY <3>1, RemoveMembers DEF OneNodeEach
    <3> HIDE DEF p
    <3>3. ss_psWaitQueue'[r] = p
      BY <1>0, <1>2, <2>3 DEF TypeOK
    <3> QED BY <1>2, <1>3, <2>1, <2>3, <3>2, <3>3 DEF DeletedRing
  <2>4. CASE s = r /\ table[r] # "unlinked"
    BY <1>2, <2>1, <2>4 DEF DeletedRing
  <2> QED BY <2>2, <2>3, <2>4
<1>6. ASSUME NEW s \in Semas, "dangling_node" \notin faults' PROVE NobodyOn(s)'
  <2>1. NobodyOn(s)
    BY <1>2, <1>6 DEF DeletedOK
  <2> QED BY <1>2, <1>3, <2>1 DEF NobodyOn, NobodyBlocks
<1> QED BY <1>5, <1>6 DEF DeletedOK

\* Every step keeps what is known about deleted semaphores.
LEMMA DeletedStep ==
  ASSUME Inv, DeletedOK, [Next]_vars
  PROVE  DeletedOK'
<1>0. TypeOK /\ CallArgs /\ {"idle", "return", "delete"} \cap Waiting = {}
  BY DEF Inv, Waiting
<1> SUFFICES ASSUME ~SparesDeleted PROVE DeletedOK'
  BY <1>0, DeletedSpared
<1>1. ASSUME NEW t \in Threads, NEW s \in Semas, create_semaphore(t, s) PROVE FALSE
  <2>1. /\ table[s] = "free" /\ table' = [table EXCEPT ![s] = "live"]
        /\ UNCHANGED <<ss_psWaitQueue, stale, faults, pc, arg, tr_nState>>
    BY <1>1 DEF create_semaphore, threadVars, histVars
  <2>2. \A r \in Semas : r # s => table'[r] = table[r]
    BY <1>0, <2>1 DEF TypeOK
  <2>3. table'[s] = "live"
    BY <1>0, <2>1 DEF TypeOK
  <2>4. \A u \in Threads, r \in Semas : On(u, r)' <=> On(u, r)
    BY <2>1 DEF On
  <2> QED BY <2>1, <2>2, <2>3, <2>4 DEF SparesDeleted
<1>2. ASSUME NEW t \in Threads, pc[t] \notin Waiting, NEW e, Return(t, e), NobodyBlocks,
             UNCHANGED <<table, ss_psWaitQueue, stale>>, faults \subseteq faults'
      PROVE  FALSE
  BY <1>0, <1>2, SparesReturn DEF OnLive
<1>3. ASSUME NEW t \in Threads, NEW s \in Semas,
             \/ \E n \in Counts \cup {1}, f \in LockFlags, o \in Timeouts : lock_semaphore_ex(t, s, n, f, o)
             \/ \E f \in MutexFlags : lock_mutex(t, s, f)
      PROVE  FALSE
  <2>1. pc[t] = "idle" /\ OnLive(t)
    BY <1>0, <1>3 DEF lock_semaphore_ex, lock_mutex, Caller, OnLive
  <2>2. ASSUME NEW n \in Counts \cup {1}, NEW f \in LockFlags, NEW o \in Timeouts,
               lock_semaphore_ex(t, s, n, f, o)
        PROVE  FALSE
    <3> DEFINE a == [NoArg EXCEPT !.hSema = s, !.nCount = n, !.nFlags = f, !.nTimeOut = o]
    <3>1. a.hSema = s
      BY NoArgType DEF Args
    <3> HIDE DEF a
    <3>2. ASSUME NEW d, TryLock(t, a, d, ss_psWaitQueue[s]), table[s] = "live",
                 UNCHANGED <<table, stale, faults>>
          PROVE  FALSE
      BY <1>0, <2>1, <3>1, <3>2, TrySpares
    <3> QED BY <1>0, <2>1, <2>2, <3>2, SparesInvalid DEF lock_semaphore_ex, a
  <2>3. ASSUME NEW f \in MutexFlags, lock_mutex(t, s, f) PROVE FALSE
    <3> DEFINE a == [NoArg EXCEPT !.hSema = s, !.nCount = 1, !.nFlags = f,
                                  !.nTimeOut = "INFINITE_TIMEOUT"]
    <3>1. a.hSema = s
      BY NoArgType DEF Args
    <3> HIDE DEF a
    <3>2. CASE TryMutex(t, a, ss_psWaitQueue[s]) /\ table[s] = "live" /\ UNCHANGED <<table, stale, faults>>
      BY <1>0, <2>1, <3>1, <3>2, TrySpares
    <3>3. CASE Return(t, "EINVAL") /\ UNCHANGED <<semVars, tr_nState, histVars>>
      BY <1>0, <1>2, <2>1, <3>3 DEF semVars, histVars, NobodyBlocks
    <3> QED BY <2>3, <3>2, <3>3 DEF lock_mutex, a
  <2> QED BY <1>3, <2>2, <2>3
<1>4. ASSUME NEW t \in Threads, lock_semaphore_resume(t) \/ lock_mutex_resume(t) PROVE DeletedOK'
  <2>0. pc[t] \in Waiting /\ arg[t].hSema \in Semas
    BY <1>0, <1>4 DEF lock_semaphore_resume, lock_mutex_resume, Resumed, Waiting, CallArgs
  <2> DEFINE a == arg[t]
             q == remove_from_waitlist(ss_psWaitQueue[a.hSema], t)
  <2>1. CASE DeletedWhileBlocked(t)
    BY <1>0, <2>0, <2>1, DeletedNoticed
  <2>2. ASSUME table[a.hSema] = "live", NEW W, Return(t, "EINTR"), MakeReadyAnd(W, t, "TS_RUN"),
               ss_psWaitQueue' = [ss_psWaitQueue EXCEPT ![a.hSema] = q],
               UNCHANGED <<table, histVars>>
        PROVE  FALSE
    BY <1>0, <2>0, <2>2, ReadyOnly, SparesReturn DEF OnLive, histVars
  <2>3. ASSUME NEW d, TryLock(t, a, d, q) \/ TryMutex(t, a, q), table[a.hSema] = "live",
               UNCHANGED <<table, stale, faults>>
        PROVE  FALSE
    BY <1>0, <2>0, <2>3, TrySpares DEF OnLive
  <2>4. CASE lock_semaphore_resume(t)
    BY <2>1, <2>2, <2>3, <2>4 DEF lock_semaphore_resume
  <2>5. CASE lock_mutex_resume(t)
    BY <2>1, <2>2, <2>3, <2>5 DEF lock_mutex_resume
  <2> QED BY <1>4, <2>4, <2>5
<1>5. ASSUME NEW t \in Threads, NEW s \in Semas,
             \/ unlock_mutex(t, s)
             \/ \E n \in Counts \cup {1} : unlock_semaphore_ex(t, s, n)
             \/ \E b \in BOOLEAN : wakeup_sem(t, s, b)
      PROVE  FALSE
  <2>1. pc[t] = "idle"
    BY <1>5 DEF unlock_mutex, unlock_semaphore_ex, wakeup_sem, Caller
  <2>2. ASSUME NEW W, MakeReady(W, "queue"), Return(t, "0"),
               UNCHANGED <<table, ss_psWaitQueue, stale, faults>>
        PROVE  FALSE
    BY <1>0, <1>2, <2>1, <2>2, ReadyOnly
  <2> QED BY <1>0, <1>5, <2>1, <2>2, SparesInvalid
          DEF unlock_mutex, unlock_semaphore_ex, wakeup_sem, Release, semVars, histVars
<1>6. ASSUME NEW t \in Threads, NEW s \in Semas, NEW o \in Timeouts,
             sleep_on_sem(t, s, o) \/ spinunlock_and_suspend(t, s, o)
      PROVE  FALSE
  <2> DEFINE a == [NoArg EXCEPT !.hSema = s, !.nTimeOut = o]
  <2>1. pc[t] = "idle" /\ OnLive(t) /\ a.hSema = s
    BY <1>0, <1>6, NoArgType DEF sleep_on_sem, spinunlock_and_suspend, Caller, OnLive, Args
  <2> HIDE DEF a
  <2>2. CASE Return(t, "ETIME") /\ UNCHANGED <<table, ss_psWaitQueue, tr_nState, histVars>>
    BY <1>0, <1>2, <2>1, <2>2 DEF NobodyBlocks, histVars
  <2>3. ASSUME NEW place, NEW d, Block(t, place, a, d, ss_psWaitQueue[s]), table[s] = "live",
               UNCHANGED <<table, histVars>>
        PROVE  FALSE
    BY <1>0, <2>1, <2>3, SparesBlock DEF histVars
  <2>4. CASE sleep_on_sem(t, s, o)
    BY <1>0, <2>1, <2>2, <2>3, <2>4, SparesInvalid DEF sleep_on_sem, a
  <2>5. CASE spinunlock_and_suspend(t, s, o)
    BY <1>0, <2>1, <2>2, <2>3, <2>5, SparesInvalid DEF spinunlock_and_suspend, a
  <2> QED BY <1>6, <2>4, <2>5
<1>7. ASSUME NEW t \in Threads, sleep_on_sem_resume(t) \/ spinunlock_and_suspend_resume(t)
      PROVE  DeletedOK'
  <2>0. PICK s \in Semas : s = arg[t].hSema /\ pc[t] \in Waiting
    BY <1>0, <1>7 DEF sleep_on_sem_resume, spinunlock_and_suspend_resume, Resumed, Waiting, CallArgs
  <2>1. CASE DeletedWhileBlocked(t)
    BY <1>0, <2>0, <2>1, DeletedNoticed
  <2>2. ASSUME table[s] = "live", NEW e, Return(t, e), MakeReadyAnd({}, t, "TS_RUN"),
               ss_psWaitQueue' = [ss_psWaitQueue EXCEPT ![s] = remove_from_waitlist(ss_psWaitQueue[s], t)],
               UNCHANGED <<table, histVars>>
        PROVE  FALSE
    BY <1>0, <2>0, <2>2, ReadyOnly, SparesReturn DEF OnLive, histVars
  <2> QED BY <1>7, <2>0, <2>1, <2>2 DEF sleep_on_sem_resume, spinunlock_and_suspend_resume
<1>8. ASSUME NEW t \in Threads, NEW s \in Semas, NEW h \in WaitQueues, unlock_and_suspend(t, h, s)
      PROVE  FALSE
  <2> DEFINE a == [NoArg EXCEPT !.hSema = h, !.hUnlock = s, !.nTimeOut = "INFINITE_TIMEOUT"]
  <2>1. pc[t] = "idle" /\ OnLive(t) /\ a.hSema = h /\ h \in Semas
    BY <1>0, <1>8, NoArgType DEF unlock_and_suspend, Caller, OnLive, Args, Semas
  <2> HIDE DEF a
  <2>2. CASE Block(t, "uas_unlock", a, "ahead", ss_psWaitQueue[h]) /\ table[h] = "live"
               /\ UNCHANGED <<table, histVars>>
    BY <1>0, <2>1, <2>2, SparesBlock DEF histVars
  <2> QED BY <1>0, <1>8, <2>1, <2>2, SparesInvalid DEF unlock_and_suspend, a
<1>9. ASSUME NEW t \in Threads, unlock_and_suspend_unlocks(t) PROVE FALSE
  <2>1. UNCHANGED <<table, ss_psWaitQueue, stale, faults>> /\ pc[t] = "uas_unlock" /\ pc'[t] = "uas"
    BY <1>0, <1>9 DEF unlock_and_suspend_unlocks, TypeOK
  <2>2. tr_nState' = tr_nState \/ \E W : MakeReady(W, "queue")
    BY <1>9 DEF unlock_and_suspend_unlocks, Release
  <2>3. NobodyBlocks
    BY <1>0, <2>2, ReadyOnly DEF NobodyBlocks
  <2>4. Others(t) /\ arg'[t].hSema = arg[t].hSema
    BY <1>0, <1>9 DEF unlock_and_suspend_unlocks, TypeOK, Others, Args
  <2>5. \A u \in Threads, s \in Semas : On(u, s)' <=> On(u, s)
    BY <2>1, <2>4 DEF On, Others, Waiting
  <2> QED BY <2>1, <2>3, <2>5 DEF SparesDeleted, NobodyBlocks
<1>10. ASSUME NEW t \in Threads, LeaveCall(t) PROVE FALSE
  <2>1. /\ UNCHANGED <<table, ss_psWaitQueue, stale, faults, tr_nState>>
        /\ Others(t) /\ pc[t] \notin Waiting /\ pc'[t] \notin Waiting
    BY <1>0, <1>10 DEF LeaveCall, semVars, histVars, TypeOK, Others
  <2> QED BY <1>0, <2>1, SparesQuiet DEF NobodyBlocks, Others
<1>11. ASSUME UNCHANGED <<semVars, pc, arg, histVars>>,
              tr_nState' = tr_nState \/ \E W, why : MakeReady(W, why)
       PROVE  FALSE
  <2>1. NobodyBlocks
    BY <1>0, <1>11, ReadyOnly DEF NobodyBlocks
  <2> QED BY <1>0, <1>11, <2>1, SparesQuiet DEF semVars, histVars
<1>12. ASSUME NEW t \in Threads, handle_signals(t) \/ send_signal(t) \/ TimePasses(t) PROVE FALSE
  BY <1>11, <1>12 DEF handle_signals, send_signal, TimePasses
<1>13. CASE wake_up_sleepers
  BY <1>11, <1>13 DEF wake_up_sleepers
<1>14. CASE UNCHANGED vars
  BY <1>11, <1>14 DEF vars, threadVars
<1>17. ASSUME NEW t \in Threads, NEW s \in Semas, delete_semaphore(t, s) PROVE DeletedOK'
  <2>1. pc[t] = "idle"
    BY <1>17 DEF delete_semaphore, Caller
  <2> QED BY <1>0, <1>17, <2>1, SparesInvalid, DeletedUnlinked DEF delete_semaphore
<1>15. ASSUME NEW t \in Threads, Client(t) PROVE DeletedOK'
  BY <1>1, <1>3, <1>5, <1>6, <1>8, <1>10, <1>12, <1>15, <1>17 DEF Client
<1>16. ASSUME NEW t \in Threads, Continue(t) PROVE DeletedOK'
  BY <1>4, <1>7, <1>9, <1>16, DeletedSuspended, DeletedFreed DEF Continue
<1> QED BY <1>12, <1>13, <1>14, <1>15, <1>16 DEF Next

\* What deletion leaves behind holds in every state.
LEMMA DeletedAlways == Spec => []DeletedOK
<1>1. Init => DeletedOK
  BY DEF Init, DeletedOK, DeletedRing, NobodyOn
<1>2. Inv /\ DeletedOK /\ [Next]_vars => DeletedOK'
  BY DeletedStep
<1> QED BY <1>1, <1>2, Invariance, PTL DEF Spec

\* Whatever else goes on, nobody is blocked on a semaphore that delete_semaphore
\* has freed, unless the walk over its ring met the node of a caller that had
\* returned in the window between the two parts of do_delete_semaphore.
THEOREM DeletionWakes == Spec => []DeleteWakesAll
<1>1. Inv /\ DeletedOK => DeleteWakesAll
  BY DEF Inv, CallArgs, DeletedOK, NobodyOn, On, DeleteWakesAll
<1> QED BY <1>1, Invariance, DeletedAlways, PTL

-----------------------------------------------------------------------------
(* Counting semaphores with one consumer.                                  *)

\* A thread in a lock call on a counting semaphore is a consumer, and it sleeps
\* only while the counter is too small for it.
Fed(u) ==
  pc[u] = "lock" /\ arg[u].hSema \in Counters =>
    /\ u \in Lockers /\ arg[u].nCount \in Counts
    /\ table[arg[u].hSema] = "live" /\ tr_nState[u] \in Blocked
         => ss_lNestCount[arg[u].hSema] < arg[u].nCount

AllFed == \A u \in Threads : Fed(u)

\* The counters grow in no semaphore, and none becomes live.
NothingPosted ==
  \A s \in Counters : table'[s] = "live" =>
    table[s] = "live" /\ ss_lNestCount'[s] <= ss_lNestCount[s]

\* A step that posts nothing and moves only the call of t.
LEMMA FedFrame ==
  ASSUME TypeOK, TypeOK', AllFed, NothingPosted, NEW t \in Threads, Others(t),
         \A u \in Threads \ {t} : tr_nState'[u] \in Blocked => tr_nState[u] \in Blocked, Fed(t)'
  PROVE  AllFed'
<1>1. ASSUME NEW u \in Threads \ {t} PROVE Fed(u)'
  <2> SUFFICES ASSUME pc'[u] = "lock", arg'[u].hSema \in Counters
               PROVE  /\ u \in Lockers /\ arg'[u].nCount \in Counts
                      /\ table'[arg'[u].hSema] = "live" /\ tr_nState'[u] \in Blocked
                           => ss_lNestCount'[arg'[u].hSema] < arg'[u].nCount
    BY DEF Fed
  <2>1. pc[u] = "lock" /\ arg'[u] = arg[u] /\ Fed(u)
    BY DEF Others, AllFed
  <2>2. PICK s \in Counters : s = arg[u].hSema
    BY <2>1
  <2>3. ss_lNestCount[s] \in Int /\ ss_lNestCount'[s] \in Int /\ arg[u].nCount \in Nat
    BY DEF TypeOK, Semas, Args
  <2> QED BY <2>1, <2>2, <2>3 DEF Fed, NothingPosted
<1> QED BY <1>1 DEF AllFed

\* A call that returns and posts nothing leaves who blocks short of tokens.
LEMMA FedReturn ==
  ASSUME TypeOK, TypeOK', AllFed, NothingPosted, NEW t \in Threads, NEW e, Return(t, e), NobodyBlocks
  PROVE  AllFed'
<1>1. Others(t) /\ pc'[t] = "return"
  BY ReturnFrame
<1> QED BY <1>1, FedFrame DEF NobodyBlocks, Fed

\* A consumer blocks only when there are too few tokens.
LEMMA FedBlock ==
  ASSUME TypeOK, TypeOK', AllFed, NothingPosted, NEW t \in Threads, NEW place, NEW a, NEW d, NEW q,
         Block(t, place, a, d, q),
         place = "lock" /\ a.hSema \in Counters =>
           t \in Lockers /\ a.nCount \in Counts /\ ss_lNestCount'[a.hSema] < a.nCount
  PROVE  AllFed'
<1>1. /\ Others(t) /\ pc'[t] = place /\ arg'[t] = a
      /\ \A u \in Threads \ {t} : tr_nState'[u] = tr_nState[u]
  BY BlockFrame
<1> QED BY <1>1, FedFrame DEF Fed

\* A step that leaves calls and counters alone.
LEMMA FedQuiet ==
  ASSUME AllFed, UNCHANGED <<table, ss_lNestCount, pc, arg>>, NobodyBlocks
  PROVE  AllFed'
BY DEF AllFed, Fed, NobodyBlocks

\* A post that makes the counter positive wakes the one thread that may wait.
LEMMA FedRelease ==
  ASSUME \A t, u \in Lockers : t = u, Inv, TypeOK', AllFed, NEW s \in Semas, NEW n \in Nat, Release(s, n),
         UNCHANGED <<table, ss_psWaitQueue>>, NEW t \in Threads, Others(t), pc[t] # "lock", pc'[t] # "lock"
  PROVE  AllFed'
<1>0. TypeOK /\ RingMatchesCallers
  BY DEF Inv
<1>1. ss_lNestCount' = [ss_lNestCount EXCEPT ![s] = ss_lNestCount[s] + n]
  BY DEF Release
<1>2. PICK W : /\ MakeReady(W, "queue")
               /\ W = IF ss_lNestCount[s] + n > 0 THEN wake_up_queue(ss_psWaitQueue[s], n > 1) ELSE {}
  BY DEF Release
<1>3. NobodyBlocks
  BY <1>0, <1>2, ReadyOnly
<1>4. ASSUME NEW u \in Threads, pc'[u] = "lock", arg'[u].hSema \in Counters
      PROVE  /\ u \in Lockers /\ arg'[u].nCount \in Counts
             /\ table'[arg'[u].hSema] = "live" /\ tr_nState'[u] \in Blocked
                  => ss_lNestCount'[arg'[u].hSema] < arg'[u].nCount
  <2>1. pc[u] = "lock" /\ arg'[u] = arg[u] /\ Fed(u)
    BY <1>4 DEF Others, AllFed
  <2>2. PICK r \in Counters : r = arg[u].hSema
    BY <1>4, <2>1
  <2>3. u \in Lockers /\ arg[u].nCount \in Counts /\ arg[u].nCount \in Nat \ {0} /\ r \in Semas
    BY <2>1, <2>2, ConstantTypes DEF Fed, Semas
  <2>4. CASE r # s
    BY <1>0, <1>1, <1>3, <2>1, <2>2, <2>3, <2>4 DEF Fed, NobodyBlocks, TypeOK
  <2>5. ASSUME r = s, table[s] = "live", tr_nState'[u] \in Blocked
        PROVE  ss_lNestCount'[s] < arg[u].nCount
    <3>1. ss_lNestCount'[s] = ss_lNestCount[s] + n /\ ss_lNestCount[s] \in Int
      BY <1>0, <1>1 DEF TypeOK
    <3>2. CASE ss_lNestCount[s] + n > 0
      <4> DEFINE q == ss_psWaitQueue[s]
      <4>1. Members(q) = {v \in Threads : pc[v] \in Waiting /\ arg[v].hSema = s}
        BY <1>0, <2>5 DEF RingMatchesCallers
      <4>2. u \in Members(q)
        BY <2>1, <2>2, <2>5, <4>1 DEF Waiting
      <4>3. q # <<>> /\ Head(q) \in Members(q)
        BY <1>0, <4>2, HeadMember DEF Members
      <4>4. pc[Head(q)] = "lock" /\ arg[Head(q)].hSema = s /\ Head(q) \in Threads
        BY <2>2, <2>5, <4>1, <4>3, KindsDisjoint DEF Inv, CallArgs, Waiting
      <4>5. Head(q) \in Lockers
        BY <2>2, <2>5, <4>4 DEF AllFed, Fed
      <4>6. Head(q) = u
        BY <2>3, <4>5
      <4>7. tr_nState[u] \in Blocked
        BY <1>3, <2>5 DEF NobodyBlocks
      <4>8. u \in W
        BY <1>2, <3>2, <4>2, <4>3, <4>6, <4>7 DEF wake_up_queue
      <4> QED BY <1>2, <2>5, <4>8 DEF MakeReady, Blocked
    <3>3. CASE ~(ss_lNestCount[s] + n > 0)
      BY <2>3, <3>1, <3>3
    <3> QED BY <3>2, <3>3
  <2> QED BY <2>1, <2>2, <2>3, <2>4, <2>5
<1> QED BY <1>4 DEF AllFed, Fed

\* A turn of do_lock_semaphore_ex posts nothing.
LEMMA TryLockFed ==
  ASSUME TypeOK, TypeOK', AllFed, NEW t \in Threads, NEW a, NEW d, NEW q,
         a.hSema \in Semas, a.nCount \in Nat, table' = table, TryLock(t, a, d, q),
         a.hSema \in Counters => t \in Lockers /\ a.nCount \in Counts
  PROVE  AllFed'
<1> DEFINE s == a.hSema
<1>0. ss_lNestCount[s] \in Int
  BY DEF TypeOK
<1>1. CASE /\ ss_lNestCount' = [ss_lNestCount EXCEPT ![s] = @ - a.nCount]
           /\ Return(t, "0") /\ MakeReadyAnd({}, t, "TS_RUN")
  <2>1. NothingPosted
    <3>1. ASSUME NEW c \in Counters PROVE ss_lNestCount'[c] <= ss_lNestCount[c]
      <4>1. ss_lNestCount[c] \in Int
        BY DEF TypeOK, Semas
      <4> QED BY <1>0, <1>1, <4>1 DEF TypeOK, Semas
    <3> QED BY <3>1 DEF NothingPosted
  <2> QED BY <1>1, <2>1, ReadyOnly, FedReturn
<1>2. ASSUME ss_lNestCount' = ss_lNestCount PROVE NothingPosted
  BY <1>2 DEF NothingPosted, TypeOK, Semas
<1>3. ASSUME ss_lNestCount' = ss_lNestCount, NEW e, Return(t, e), MakeReadyAnd({}, t, "TS_RUN")
      PROVE  AllFed'
  BY <1>2, <1>3, ReadyOnly, FedReturn
<1>4. CASE ~Available(s, a.nCount, t) /\ ss_lNestCount' = ss_lNestCount /\ Block(t, "lock", a, d, q)
  BY <1>0, <1>2, <1>4, FedBlock DEF Available
<1> QED BY <1>1, <1>3, <1>4 DEF TryLock

\* lock_mutex does not touch counting semaphores.
LEMMA TryMutexFed ==
  ASSUME TypeOK, TypeOK', AllFed, NEW t \in Threads, NEW a, NEW q,
         a.hSema \in Mutexes, table' = table, TryMutex(t, a, q)
  PROVE  AllFed'
<1>1. \A c \in Counters : ss_lNestCount'[c] = ss_lNestCount[c] /\ ss_lNestCount[c] \in Int
  BY KindsDisjoint DEF TryMutex, TypeOK, Semas
<1>2. NothingPosted
  BY <1>1 DEF NothingPosted
<1>3. CASE Return(t, "0") /\ MakeReadyAnd({}, t, "TS_RUN")
  BY <1>2, <1>3, ReadyOnly, FedReturn
<1>4. CASE Block(t, "lock_mutex", a, "ahead", q)
  BY <1>2, <1>4, FedBlock
<1> QED BY <1>3, <1>4 DEF TryMutex

\* Every step keeps a single consumer fed.
LEMMA FedStep ==
  ASSUME \A t, u \in Lockers : t = u, Inv, Inv', AllFed, [Next]_vars
  PROVE  AllFed'
<1>0. TypeOK /\ TypeOK' /\ CallArgs
  BY DEF Inv
<1>1. ASSUME UNCHANGED <<table, ss_lNestCount>> PROVE NothingPosted
  BY <1>0, <1>1 DEF NothingPosted, TypeOK, Semas
<1>2. ASSUME NEW t \in Threads, NEW e, Return(t, e), UNCHANGED <<table, ss_lNestCount>>,
             \/ \E W : MakeReadyAnd(W, t, "TS_RUN") \/ MakeReady(W, "queue")
             \/ tr_nState' = tr_nState
      PROVE  AllFed'
  <2>1. NobodyBlocks
    BY <1>0, <1>2, ReadyOnly DEF NobodyBlocks
  <2> QED BY <1>0, <1>1, <1>2, <2>1, FedReturn
<1>3. ASSUME NEW t \in Threads, NEW s, InvalidHandle(t, s) \/ DeletedWhileBlocked(t) PROVE AllFed'
  BY <1>2, <1>3 DEF InvalidHandle, DeletedWhileBlocked, semVars
<1>4. ASSUME NEW t \in Threads, NEW s \in Semas, create_semaphore(t, s) PROVE AllFed'
  <2>1. /\ table[s] = "free" /\ UNCHANGED <<pc, arg, tr_nState>>
        /\ \A r \in Semas \ {s} : table'[r] = table[r] /\ ss_lNestCount'[r] = ss_lNestCount[r]
    BY <1>0, <1>4 DEF create_semaphore, threadVars, TypeOK
  <2>2. ASSUME NEW u \in Threads, pc[u] = "lock" PROVE arg[u].hSema \in Semas \ {s}
    BY <1>0, <2>1, <2>2 DEF CallArgs, Waiting
  <2> QED BY <2>1, <2>2 DEF AllFed, Fed
<1>5. ASSUME NEW t \in Threads, NEW s \in Semas, delete_semaphore(t, s) PROVE AllFed'
  <2>a. SUFFICES ASSUME unlink_semaphore(t, s) PROVE AllFed'
    BY <1>3, <1>5 DEF delete_semaphore
  <2>1. /\ table' = [table EXCEPT ![s] = "unlinked"] /\ ss_lNestCount' = ss_lNestCount
        /\ tr_nState' = tr_nState /\ Others(t) /\ pc'[t] = "delete"
    BY <1>0, <2>a DEF unlink_semaphore, TypeOK, Others
  <2>2. NothingPosted
    BY <1>0, <2>1 DEF NothingPosted, TypeOK, Semas
  <2> QED BY <1>0, <2>1, <2>2, FedFrame DEF Fed
<1>6. ASSUME NEW t \in Threads, delete_wakes(t) PROVE AllFed'
  <2>1. PICK s : /\ table' = [table EXCEPT ![s] = "freed"] /\ ss_lNestCount' = ss_lNestCount
                 /\ \E W : MakeReady(W, "queue")
                 /\ Return(t, "0")
    BY <1>6 DEF delete_wakes
  <2>2. NothingPosted
    BY <1>0, <2>1 DEF NothingPosted, TypeOK, Semas
  <2> QED BY <1>0, <2>1, <2>2, ReadyOnly, FedReturn
<1>7. ASSUME NEW t \in Threads, NEW s \in Semas, NEW n \in Counts \cup {1}, NEW f \in LockFlags,
             NEW o \in Timeouts, lock_semaphore_ex(t, s, n, f, o)
      PROVE  AllFed'
  <2> DEFINE a == [NoArg EXCEPT !.hSema = s, !.nCount = n, !.nFlags = f, !.nTimeOut = o]
  <2>1. n \in Nat /\ (s \in Counters => t \in Lockers /\ n \in Counts)
    BY <1>7, ConstantTypes, KindsDisjoint DEF lock_semaphore_ex, MayLock
  <2>2. a.hSema = s /\ a.nCount = n
    BY NoArgType DEF Args
  <2> HIDE DEF a
  <2>3. ASSUME NEW d, TryLock(t, a, d, ss_psWaitQueue[s]), table' = table PROVE AllFed'
    BY <1>0, <2>1, <2>2, <2>3, TryLockFed
  <2> QED BY <1>3, <1>7, <2>3 DEF lock_semaphore_ex, a
<1>8. ASSUME NEW t \in Threads, lock_semaphore_resume(t) PROVE AllFed'
  <2>1. pc[t] = "lock" /\ arg[t].hSema \in Semas /\ arg[t].nCount \in Nat
    BY <1>0, <1>8 DEF lock_semaphore_resume, Resumed, CallArgs, Waiting, TypeOK, Args
  <2>2. arg[t].hSema \in Counters => t \in Lockers /\ arg[t].nCount \in Counts
    BY <2>1 DEF AllFed, Fed
  <2>3. ASSUME NEW d, NEW q, TryLock(t, arg[t], d, q), table' = table PROVE AllFed'
    BY <1>0, <2>1, <2>2, <2>3, TryLockFed
  <2> QED BY <1>2, <1>3, <1>8, <2>3 DEF lock_semaphore_resume
<1>9. ASSUME NEW t \in Threads, NEW s \in Semas,
             unlock_mutex(t, s) \/ \E n \in Counts \cup {1} : unlock_semaphore_ex(t, s, n)
      PROVE  AllFed'
  <2>1. pc[t] = "idle"
    BY <1>9 DEF unlock_mutex, unlock_semaphore_ex, Caller
  <2>2. ASSUME NEW n \in Counts \cup {1}, Release(s, n), UNCHANGED <<table, ss_psWaitQueue>>, Return(t, "0")
        PROVE  AllFed'
    <3>1. n \in Nat /\ Others(t) /\ pc'[t] = "return"
      BY <1>0, <2>2, ConstantTypes, ReturnFrame
    <3> QED BY <1>0, <2>1, <2>2, <3>1, FedRelease
  <2> QED BY <1>3, <1>9, <2>2 DEF unlock_mutex, unlock_semaphore_ex
<1>10. ASSUME NEW t \in Threads, NEW s \in Semas, NEW f \in MutexFlags, lock_mutex(t, s, f) PROVE AllFed'
  <2> DEFINE a == [NoArg EXCEPT !.hSema = s, !.nCount = 1, !.nFlags = f,
                                !.nTimeOut = "INFINITE_TIMEOUT"]
  <2>1. a.hSema = s /\ s \in Mutexes
    BY <1>10, NoArgType DEF Args, lock_mutex
  <2> HIDE DEF a
  <2>2. CASE TryMutex(t, a, ss_psWaitQueue[s]) /\ table' = table
    BY <1>0, <2>1, <2>2, TryMutexFed
  <2> QED BY <1>2, <1>10, <2>2 DEF lock_mutex, semVars, a
<1>11. ASSUME NEW t \in Threads, lock_mutex_resume(t) PROVE AllFed'
  <2>1. arg[t].hSema \in Mutexes
    BY <1>0, <1>11 DEF lock_mutex_resume, Resumed, CallArgs
  <2>2. ASSUME NEW q, TryMutex(t, arg[t], q), table' = table PROVE AllFed'
    BY <1>0, <2>1, <2>2, TryMutexFed
  <2> QED BY <1>2, <1>3, <1>11, <2>2 DEF lock_mutex_resume
<1>12. ASSUME NEW t \in Threads, NEW place, NEW a, NEW d, NEW q, Block(t, place, a, d, q), place # "lock",
              UNCHANGED <<table, ss_lNestCount>>
       PROVE  AllFed'
  BY <1>0, <1>1, <1>12, FedBlock
<1>13. ASSUME NEW t \in Threads, NEW s \in Semas,
              \/ \E o \in Timeouts : sleep_on_sem(t, s, o) \/ spinunlock_and_suspend(t, s, o)
              \/ \E h \in WaitQueues : unlock_and_suspend(t, h, s)
              \/ \E b \in BOOLEAN : wakeup_sem(t, s, b)
       PROVE  AllFed'
  BY <1>2, <1>3, <1>12, <1>13 DEF sleep_on_sem, spinunlock_and_suspend, unlock_and_suspend,
                                  wakeup_sem, semVars
<1>14. ASSUME NEW t \in Threads, \/ sleep_on_sem_resume(t) \/ spinunlock_and_suspend_resume(t)
                                \/ unlock_and_suspend_resume(t)
       PROVE  AllFed'
  BY <1>2, <1>3, <1>14 DEF sleep_on_sem_resume, spinunlock_and_suspend_resume, unlock_and_suspend_resume
<1>15. ASSUME NEW t \in Threads, unlock_and_suspend_unlocks(t) PROVE AllFed'
  <2>1. PICK s \in Mutexes : s = arg[t].hUnlock
    BY <1>0, <1>15 DEF unlock_and_suspend_unlocks, CallArgs
  <2>2. /\ Others(t) /\ pc[t] = "uas_unlock" /\ pc'[t] = "uas"
        /\ UNCHANGED <<table, ss_psWaitQueue>>
    BY <1>0, <1>15 DEF unlock_and_suspend_unlocks, TypeOK, Others
  <2>3. CASE Release(s, 1)
    BY <1>0, <2>1, <2>2, <2>3, FedRelease DEF Semas
  <2>4. CASE UNCHANGED <<ss_lNestCount, tr_nState>>
    BY <1>0, <1>1, <2>2, <2>4, FedFrame DEF Fed
  <2> QED BY <1>15, <2>1, <2>3, <2>4 DEF unlock_and_suspend_unlocks
<1>16. ASSUME NEW t \in Threads, LeaveCall(t) PROVE AllFed'
  <2>1. Others(t) /\ pc'[t] = "idle" /\ UNCHANGED <<table, ss_lNestCount, tr_nState>>
    BY <1>0, <1>16 DEF LeaveCall, semVars, TypeOK, Others
  <2> QED BY <1>0, <1>1, <2>1, FedFrame DEF Fed
<1>17. ASSUME UNCHANGED <<semVars, pc, arg>>, tr_nState' = tr_nState \/ \E W, why : MakeReady(W, why)
       PROVE  AllFed'
  <2>1. NobodyBlocks
    BY <1>0, <1>17, ReadyOnly DEF NobodyBlocks
  <2> QED BY <1>17, <2>1, FedQuiet DEF semVars
<1>18. ASSUME NEW t \in Threads, handle_signals(t) \/ send_signal(t) \/ TimePasses(t) PROVE AllFed'
  BY <1>17, <1>18 DEF handle_signals, send_signal, TimePasses
<1>19. CASE wake_up_sleepers \/ UNCHANGED vars
  BY <1>17, <1>19 DEF wake_up_sleepers, vars, threadVars
<1>20. ASSUME NEW t \in Threads, Client(t) PROVE AllFed'
  BY <1>4, <1>5, <1>7, <1>9, <1>10, <1>13, <1>16, <1>18, <1>20 DEF Client
<1>21. ASSUME NEW t \in Threads, Continue(t) PROVE AllFed'
  BY <1>6, <1>8, <1>11, <1>14, <1>15, <1>21 DEF Continue
<1> QED BY <1>18, <1>19, <1>20, <1>21 DEF Next

\* A counting semaphore with one consumer loses no wake-up, however many threads
\* post to it, with whatever counts, and whatever signals and timeouts the
\* consumer meets: it is never asleep while the counter covers its request.
\* (With several consumers wake_up_queue, which skips a ready thread at the head
\* of the ring, does lose posts.)
THEOREM ConsumerWoken == (\A t, u \in Lockers : t = u) => (Spec => []CounterNoLostWakeup)
<1> SUFFICES ASSUME \A t, u \in Lockers : t = u PROVE Spec => []CounterNoLostWakeup
  OBVIOUS
<1>1. Init => AllFed
  BY DEF Init, AllFed, Fed
<1>2. Inv /\ Inv' /\ AllFed /\ [Next]_vars => AllFed'
  BY FedStep
<1>3. Inv /\ AllFed => CounterNoLostWakeup
  <2> SUFFICES ASSUME Inv, AllFed, NEW s \in Counters, table[s] = "live",
                      NEW t \in Members(ss_psWaitQueue[s]), tr_nState[t] \in Blocked,
                      ss_lNestCount[s] >= arg[t].nCount
               PROVE  FALSE
    BY DEF CounterNoLostWakeup
  <2>1. t \in Threads /\ pc[t] \in Waiting /\ arg[t].hSema = s
    BY DEF Inv, RingMatchesCallers, Semas
  <2>2. pc[t] = "lock"
    BY <2>1, KindsDisjoint DEF Inv, CallArgs, Waiting
  <2>3. ss_lNestCount[s] \in Int /\ arg[t].nCount \in Nat
    BY <2>1 DEF Inv, TypeOK, Semas, Args
  <2> QED BY <2>1, <2>2, <2>3 DEF AllFed, Fed
<1> QED BY <1>1, <1>2, <1>3, Invariance, PTL DEF Spec
=============================================================================
