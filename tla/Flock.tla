-------------------------------- MODULE Flock --------------------------------
(***************************************************************************)
(* POSIX record locks: kernel/kernel/vfs/flock.c, called by sys_fcntl and  *)
(* by Thread_Delete.                                                       *)
(*                                                                         *)
(* g_hFileLockMutex is held from the moment a call looks at the lock lists *)
(* until it returns or sleeps, so each such stretch is one step.  A call   *)
(* that waits is three: the stretch that ends in unlock_and_suspend, the   *)
(* end of unlock_and_suspend, where a pending signal is looked at, and the *)
(* stretch after the mutex was taken again.  A new record is private to    *)
(* its thread until it is inserted, so allocating it is part of the first. *)
(*                                                                         *)
(* A lock is modelled as a value in the list of its file, with the ring of *)
(* records that wait for it as the set of their threads: a thread waits    *)
(* with one record for one lock.  The list of all locks of a thread, the   *)
(* list of all locks and the references to the file follow the lists of    *)
(* the files, except that the list of all locks may hold dead records.     *)
(***************************************************************************)
EXTENDS Integers, Sequences, FiniteSets

CONSTANTS
  Threads,      \* threads, the owners of locks
  NoThread,     \* not a thread
  Signalled,    \* those that get signals
  Inodes,       \* files
  MaxOffset,    \* MAX_FILE_OFFSET
  Requests,     \* the <<nStart, nEnd, l_type>> that lock_file and unlock_file
                \* compute for the calls of each thread
  UnlockEmpty   \* do programs unlock files on which there is no lock?

Offsets == 0..MaxOffset

ASSUME FlockTypes ==
  /\ NoThread \notin Threads
  /\ Signalled \subseteq Threads
  /\ MaxOffset \in Nat
  /\ Requests \in [Threads -> SUBSET (Offsets \X Offsets \X {"F_RDLCK", "F_WRLCK"})]
  /\ \A t \in Threads : \A q \in Requests[t] : q[1] <= q[2]   \* l_len is not negative
  /\ UnlockEmpty \in BOOLEAN

VARIABLES
  i_psFirstLock,  \* the list of locks of each file
  dead,           \* are there dead stack frames in g_psFirstFileLock's list?
  new,            \* psNewLock of a thread inside lock_inode_record, with its file
  tr_nSigPend,    \* threads with a pending signal
  pc,             \* where a thread is
  trimmed         \* history: threads whose blocker was cut while they slept

vars == <<i_psFirstLock, dead, new, tr_nSigPend, pc, trimmed>>

Lock    == [owner: Threads, mode: {"F_RDLCK", "F_WRLCK"}, start: Offsets, end: Offsets,
            waiters: SUBSET Threads]
Places  == {"idle", "asleep", "ready", "relock", "relock_EINTR", "zombie", "deleted"}
Members(L) == {L[k] : k \in 1..Len(L)}

\* The record n of a request of thread t.
IsRequest(t, n) == n.owner = t /\ n.waiters = {} /\ <<n.start, n.end, n.mode>> \in Requests[t]

Listed  == UNION {Members(i_psFirstLock[i]) : i \in Inodes}

Init ==
  /\ i_psFirstLock = [i \in Inodes |-> <<>>]
  /\ dead = FALSE
  /\ new = [t \in Threads |-> <<>>]
  /\ tr_nSigPend = {}
  /\ pc = [t \in Threads |-> "idle"]
  /\ trimmed = {}

-----------------------------------------------------------------------------
(* Conflicts.                                                              *)

locks_overlap(a, b) == a.end >= b.start /\ b.end >= a.start

\* Two locks of one thread conflict like those of two.
locks_conflict(a, b) ==
  locks_overlap(a, b) /\ (a.mode = "F_WRLCK" \/ b.mode = "F_WRLCK")

Conflicts(L, n) == {k \in 1..Len(L) : locks_conflict(L[k], n)}

\* The thread that t waits for, if any.
Holder(t) ==
  IF \E l \in Listed : t \in l.waiters
  THEN (CHOOSE l \in Listed : t \in l.waiters).owner ELSE NoThread

\* Mutant: only the owner of the lock itself is looked at.
detect_deadlock_direct(t, h) == h = t

\* Does the chain of h, the thread that h waits for, ... come to t (1) or end
\* before (0)?  It comes to t if every set that holds h, and with a thread the
\* one it waits for, holds t.
detect_deadlock(t, h) ==
  \A S \in SUBSET Threads :
    h \in S /\ (\A u \in S : Holder(u) \in S \cup {NoThread}) => t \in S

-----------------------------------------------------------------------------
(* insert_lock.  The list L of a file has the locks of one owner together,  *)
(* in the order of their ranges; n is the range to lock or to unlock.      *)

\* A lock of n's owner that shares bytes with n ...
Cut(l, n) == l.owner = n.owner /\ l.start <= n.end /\ l.end >= n.start

\* ... is deleted if n covers it, split if it covers n, and shortened otherwise.
Covered(l, n) == Cut(l, n) /\ l.start >= n.start /\ l.end <= n.end
Split(l, n)   == Cut(l, n) /\ l.start < n.start /\ l.end > n.end

\* How much of the list lies before the point of insertion: up to psLeft, the
\* last lock of the owner that starts before n, or else up to its first lock.
Before(L, n) ==
  LET Mine == {k \in 1..Len(L) : L[k].owner = n.owner}
      Left == {k \in Mine : L[k].start <= n.end /\ L[k].start < n.start}
  IN  IF Left # {} THEN CHOOSE k \in Left : \A j \in Left : j <= k
      ELSE IF Mine # {} THEN (CHOOSE k \in Mine : \A j \in Mine : k <= j) - 1
      ELSE Len(L)

\* The locks after it that n covers lie together; After is the last of them.
After(L, n) ==
  CHOOSE k \in Before(L, n)..Len(L) :
    /\ \A j \in (Before(L, n) + 1)..k : Covered(L[j], n)
    /\ k < Len(L) => ~Covered(L[k + 1], n)

\* What a lock that is not deleted becomes; of a split one, the lower part.
Shortened(l, n) ==
  IF ~Cut(l, n) THEN l
  ELSE IF l.start < n.start THEN [l EXCEPT !.end = n.start - 1] ELSE [l EXCEPT !.start = n.end + 1]

\* The list on both sides of the hole.
Below(L, n) == [k \in 1..Before(L, n) |-> Shortened(L[k], n)]
Beyond(L, n) == [k \in 1..(Len(L) - After(L, n)) |-> Shortened(L[k + After(L, n)], n)]

\* Mutant: the upper part of a split lock is forgotten.
Extra_lost(L, n) == <<>>

\* Mutant: the upper part of a split lock takes the ring of waiters along.
Extra_copies(L, n) ==
  LET p == Before(L, n) IN
  IF p > 0 /\ Split(L[p], n) THEN <<[L[p] EXCEPT !.start = n.end + 1]>> ELSE <<>>

\* psExtraLock, the upper part of a split lock, is a record of its own for which
\* nobody waits.
Extra(L, n) ==
  LET p == Before(L, n) IN
  IF p > 0 /\ Split(L[p], n)
  THEN <<[owner |-> n.owner, mode |-> L[p].mode, start |-> n.end + 1, end |-> L[p].end, waiters |-> {}]>>
  ELSE <<>>

Above(L, n) == Extra(L, n) \o Beyond(L, n)

\* May a and the lock b that follows it be joined?
Joins(a, b) == a.end + 1 = b.start /\ a.owner = b.owner /\ a.mode = b.mode

\* The list with n inserted in the hole and joined with its neighbours, and the
\* threads whose lock was joined away.
Joined(below, n, above) ==
  LET left  == below # <<>> /\ Joins(below[Len(below)], n)
      right == above # <<>> /\ Joins(n, above[1])
      low   == IF left THEN below[Len(below)] ELSE n
      whole == [low EXCEPT !.end = IF right THEN above[1].end ELSE n.end]
  IN  [list |-> (IF left THEN SubSeq(below, 1, Len(below) - 1) ELSE below)
                  \o <<whole>> \o (IF right THEN Tail(above) ELSE above),
       wake |-> IF right THEN above[1].waiters ELSE {}]

\* Thread t leaves the mutex at place; the locks of the waiters W were deleted
\* on the way (delete_file_lock) and those of them that sleep are woken.
Leave(t, place, W) ==
  pc' = [u \in Threads |-> IF u = t THEN place
                           ELSE IF u \in W /\ pc[u] = "asleep" THEN "ready" ELSE pc[u]]

\* The waiters of the locks of L that n covers.
CoveredWaiters(L, n) == UNION {l.waiters : l \in {m \in Members(L) : Covered(m, n)}}

\* The threads left asleep on a lock of L that n shortens; nobody wakes them.
NoteTrimmed(L, n) ==
  trimmed' = (trimmed \cup UNION {l.waiters : l \in {m \in Members(L) : Cut(m, n)}})
               \cap {u \in Threads : pc'[u] = "asleep"}

\* insert_lock( psInode, psLock, true ): L is the list of file i.
insert_lock(t, i, L, n) ==
  LET j == Joined(Below(L, n), n, Above(L, n)) IN
  /\ i_psFirstLock' = [i_psFirstLock EXCEPT ![i] = j.list]
  /\ Leave(t, "idle", CoveredWaiters(L, n) \cup j.wake)
  /\ NoteTrimmed(L, n)

\* From the label again of lock_inode_record, for the request n on file i with
\* list L.  kmalloc may fail if a lock must be split.
TryLock(t, i, L, n, bWait) ==
  LET K == Conflicts(L, n)
      k == CHOOSE k \in K : \A j \in K : k <= j
      h == L[k].owner
  IN
  \/ K = {} /\ insert_lock(t, i, L, n) /\ new' = [new EXCEPT ![t] = <<>>]
  \/ /\ \/ K = {} /\ \E l \in Members(L) : Split(l, n)
        \/ K # {} /\ (~bWait \/ detect_deadlock(t, h))
     /\ i_psFirstLock' = [i_psFirstLock EXCEPT ![i] = L]
     /\ Leave(t, "idle", {})
     /\ new' = [new EXCEPT ![t] = <<>>]
     /\ trimmed' = trimmed \ {t}
  \/ /\ K # {} /\ bWait /\ ~detect_deadlock(t, h)
     /\ i_psFirstLock' = [i_psFirstLock EXCEPT ![i] = [L EXCEPT ![k].waiters = @ \cup {t}]]
     /\ Leave(t, "asleep", {})
     /\ new' = [new EXCEPT ![t] = <<i, n>>]
     /\ trimmed' = trimmed \ {t}

-----------------------------------------------------------------------------
(* System calls.                                                           *)

\* F_SETLK (bWait = FALSE) and F_SETLKW.  Without memory for a record the call
\* returns -ENOMEM at once.
lock_inode_record(t, i, q, bWait) ==
  /\ pc[t] = "idle"
  /\ TryLock(t, i, i_psFirstLock[i],
             [owner |-> t, mode |-> q[3], start |-> q[1], end |-> q[2], waiters |-> {}],
             bWait)
  /\ UNCHANGED <<dead, tr_nSigPend>>

\* The end of unlock_and_suspend; its wait queue may be gone.
suspend_returns(t) ==
  /\ pc[t] = "ready"
  /\ pc' = [pc EXCEPT ![t] = IF t \in tr_nSigPend THEN "relock_EINTR" ELSE "relock"]
  /\ UNCHANGED <<i_psFirstLock, dead, new, tr_nSigPend, trimmed>>

\* rem_lock_waiter: t waits no more, whether its lock was deleted or not.
rem_lock_waiter(L, t) == [k \in 1..Len(L) |-> [L[k] EXCEPT !.waiters = @ \ {t}]]

\* The mutex is taken again and the record of t unlinked; the search starts
\* over unless a signal was pending.
lock_inode_record_resume(t) ==
  /\ pc[t] \in {"relock", "relock_EINTR"}
  /\ LET i == new[t][1]
         L == rem_lock_waiter(i_psFirstLock[i], t)
     IN  \/ pc[t] = "relock" /\ TryLock(t, i, L, new[t][2], TRUE)
         \/ /\ pc[t] = "relock_EINTR"
            /\ i_psFirstLock' = [i_psFirstLock EXCEPT ![i] = L]
            /\ Leave(t, "idle", {})
            /\ new' = [new EXCEPT ![t] = <<>>]
            /\ UNCHANGED trimmed
  /\ UNCHANGED <<dead, tr_nSigPend>>

\* F_UNLCK.  On a file without locks the record of the call, which is a local
\* variable, is linked into the list of all locks and stays there.
unlock_inode_record(t, i, q) ==
  /\ pc[t] = "idle"
  /\ UnlockEmpty \/ i_psFirstLock[i] # <<>>
  /\ LET L == i_psFirstLock[i]
         n == [owner |-> t, start |-> q[1], end |-> q[2]]
     IN  \/ /\ i_psFirstLock' = [i_psFirstLock EXCEPT ![i] = Below(L, n) \o Above(L, n)]
            /\ Leave(t, "idle", CoveredWaiters(L, n))
            /\ NoteTrimmed(L, n)
         \* -ENOMEM: nothing is unlocked
         \/ /\ \E l \in Members(L) : Split(l, n)
            /\ UNCHANGED <<i_psFirstLock, pc, trimmed>>
  /\ dead' = (dead \/ i_psFirstLock[i] = <<>>)
  /\ UNCHANGED <<new, tr_nSigPend>>

\* The thread exits; its record locks stay until it is collected.
exit_thread(t) ==
  /\ pc[t] = "idle"
  /\ pc' = [pc EXCEPT ![t] = "zombie"]
  /\ UNCHANGED <<i_psFirstLock, dead, new, tr_nSigPend, trimmed>>

\* Mutant: the locks of a collected thread stay.
flock_thread_died_not(t) ==
  /\ pc[t] = "zombie"
  /\ pc' = [pc EXCEPT ![t] = "deleted"]
  /\ UNCHANGED <<i_psFirstLock, dead, new, tr_nSigPend, trimmed>>

\* wait4 calls Thread_Delete, which unlocks all of every file on which the
\* thread has a lock until it has none.
flock_thread_died(t) ==
  /\ pc[t] = "zombie"
  /\ LET n == [owner |-> t, start |-> 0, end |-> MaxOffset] IN
     /\ i_psFirstLock' = [i \in Inodes |-> Below(i_psFirstLock[i], n) \o Above(i_psFirstLock[i], n)]
     /\ Leave(t, "deleted", UNION {CoveredWaiters(i_psFirstLock[i], n) : i \in Inodes})
  /\ trimmed' = {u \in trimmed : pc'[u] = "asleep"}
  /\ UNCHANGED <<dead, new, tr_nSigPend>>

\* send_signal wakes a sleeping thread, also for a signal that does not become
\* pending.
send_signal(t) ==
  /\ t \in Signalled
  /\ pc[t] \notin {"zombie", "deleted"}
  /\ tr_nSigPend' \in {tr_nSigPend, tr_nSigPend \cup {t}}
  /\ pc' = [pc EXCEPT ![t] = IF @ = "asleep" THEN "ready" ELSE @]
  /\ trimmed' = trimmed \ {t}
  /\ UNCHANGED <<i_psFirstLock, dead, new>>

handle_signals(t) ==
  /\ pc[t] = "idle" /\ t \in tr_nSigPend
  /\ tr_nSigPend' = tr_nSigPend \ {t}
  /\ UNCHANGED <<i_psFirstLock, dead, new, pc, trimmed>>

-----------------------------------------------------------------------------
Continue(t) == suspend_returns(t) \/ lock_inode_record_resume(t)

Call(t) ==
  \E i \in Inodes, q \in Requests[t] :
    \/ \E w \in BOOLEAN : lock_inode_record(t, i, q, w)
    \/ unlock_inode_record(t, i, q)

Next ==
  \E t \in Threads :
    \/ Call(t) \/ Continue(t)
    \/ exit_thread(t) \/ flock_thread_died(t)
    \/ send_signal(t) \/ handle_signals(t)

Spec == Init /\ [][Next]_vars

\* Every ready thread gets a CPU, programs end, and the threads that ended are
\* collected.
Fairness ==
  /\ \A t \in Threads : WF_vars(Continue(t))
  /\ SF_vars(\E t \in Threads : exit_thread(t))
  /\ WF_vars(\E t \in Threads : flock_thread_died(t))

FairSpec == Spec /\ Fairness

-----------------------------------------------------------------------------
(* Properties.                                                             *)

\* The variables have the types of flock.c's structures, and exactly the
\* threads inside lock_inode_record have a request.
TypeOK ==
  /\ i_psFirstLock \in [Inodes -> Seq(Lock)]
  /\ dead \in BOOLEAN
  /\ new \in [Threads -> {<<>>} \cup (Inodes \X Lock)]
  /\ tr_nSigPend \subseteq Threads
  /\ pc \in [Threads -> Places]
  /\ trimmed \subseteq Threads
  /\ \A t \in Threads : IF pc[t] \in {"idle", "zombie", "deleted"} THEN new[t] = <<>>
                       ELSE new[t] # <<>> /\ IsRequest(t, new[t][2])

\* The list of a file keeps the locks of one owner together, ordered and
\* disjoint, whatever sequence of locking, unlocking, splitting and joining led
\* to it (insert_lock: "Locks are sorted on owner firts and then range", and
\* the hole it cuts "assures no locks is overlapping").
Sorted(L) ==
  /\ \A k \in 1..Len(L) : L[k].start <= L[k].end
  /\ \A j, k \in 1..Len(L) : j < k /\ L[j].owner = L[k].owner =>
       /\ L[j].end < L[k].start
       /\ \A h \in j..k : L[h].owner = L[j].owner

SortedDisjoint == \A i \in Inodes : Sorted(i_psFirstLock[i])

\* Only locks are linked into the list that detect_deadlock searches
\* (insert_lock: "insert the new lock (unless we are in fact unlocking)").
NoDeadRecord == ~dead

\* No set of threads waits for one another: detect_deadlock, which follows one
\* chain at the moment a thread goes to sleep, is enough although locks are
\* split, joined and taken by others while it sleeps.  As threads that were woken
\* but are still linked count too, its search comes to an end.
NoDeadlock ==
  \A S \in (SUBSET Threads) \ {{}} : \E t \in S : Holder(t) \notin S

\* A sleeping thread is linked to a lock of its file that is in its way; only a
\* lock that was cut in the meantime (trimmed) may have ceased to be.  Whoever is
\* linked to a lock is inside lock_inode_record for its file and linked to no
\* other, and the lock is another thread's.
WaitsForConflict ==
  /\ \A t \in Threads : pc[t] = "asleep" =>
       LET L == i_psFirstLock[new[t][1]] IN
       \E k \in 1..Len(L) : /\ t \in L[k].waiters
                            /\ t \notin trimmed => locks_conflict(L[k], new[t][2])
  /\ \A i \in Inodes : \A k \in 1..Len(i_psFirstLock[i]) : \A t \in i_psFirstLock[i][k].waiters :
       /\ i_psFirstLock[i][k].owner # t
       /\ pc[t] \in {"asleep", "ready", "relock", "relock_EINTR"}
       /\ new[t][1] = i
       /\ \A j \in 1..Len(i_psFirstLock[i]) : t \in i_psFirstLock[i][j].waiters => j = k

\* The lists are in order, and so are the links of those who wait.
Inv == TypeOK /\ SortedDisjoint /\ WaitsForConflict

\* What the lists say about single bytes.
Mode(i, t, b) ==
  LET R == {l \in Members(i_psFirstLock[i]) : l.owner = t /\ b \in l.start..l.end}
  IN  IF R = {} THEN "F_UNLCK" ELSE (CHOOSE l \in R : TRUE).mode

Table == [i \in Inodes |-> [t \in Threads |-> [b \in Offsets |-> Mode(i, t, b)]]]

Bytes == INSTANCE ByteLocks WITH bytes <- Table

\* The lists implement a table of byte locks in which every call is one atomic
\* change of its own range and no byte is locked against a writer.
ImplementsByteLocks == Bytes!Spec

\* If programs end and are collected, every call of F_SETLKW returns: no waiter
\* is forgotten, not even one whose blocker was cut, and none waits in a circle.
LockCallEnds == \A t \in Threads : pc[t] = "asleep" ~> pc[t] \in {"idle", "zombie", "deleted"}

=============================================================================
