----------------------------- MODULE FifoProofs ------------------------------
(***************************************************************************)
(* Proofs about Fifo for any number of readers and writers and any size of *)
(* the buffer.                                                             *)
(*                                                                         *)
(* The invariant is proved in layers, each about a few variables: rings,   *)
(* run states and places (SchedStep), the two counts (CountsStep), the     *)
(* positions (RingStep), the arguments of blocked calls (DataStep) and the *)
(* rendezvous of openers (RendezvousStep).  NotForgotten follows from who  *)
(* is woken by whom, and the refinement from what one turn of pi_read and  *)
(* of pi_write does to the contents of the ring buffer.                    *)
(***************************************************************************)
EXTENDS Fifo, FiniteSetTheorems, SequenceTheorems, TLAPS

-----------------------------------------------------------------------------
(* Rings of wait nodes.                                                    *)

\* Unlinking a node leaves a ring of threads.
LEMMA RingRemoveType ==
  ASSUME NEW S, NEW q \in Seq(S), NEW t \in S
  PROVE  remove_from_waitlist(q, t) \in Seq(S)
<1> DEFINE i == CHOOSE i \in 1..Len(q) : q[i] = t
           r == [j \in 1..(Len(q) - 1) |-> IF j < i THEN q[j] ELSE q[j + 1]]
<1>1. CASE q = <<>>
  <2>1. 1..(Len(q) - 1) = 1..0
    BY <1>1
  <2>2. r \in [1..0 -> S]
    BY <2>1
  <2> QED BY <2>2, 0 \in Nat DEF remove_from_waitlist, Seq
<1>2. CASE q # <<>>
  <2>1. Len(q) - 1 \in Nat
    BY <1>2
  <2>2. \A j \in 1..(Len(q) - 1) : q[j] \in S /\ q[j + 1] \in S
    BY <2>1
  <2>3. r \in [1..(Len(q) - 1) -> S]
    BY <2>2
  <2> QED BY <2>1, <2>3 DEF remove_from_waitlist
<1> QED BY <1>1, <1>2

\* Unlinking a node takes exactly that thread out of a ring that holds each
\* thread once.
LEMMA RingRemoveMembers ==
  ASSUME NEW S, NEW q \in Seq(S), NEW t \in Members(q),
         \A i, j \in 1..Len(q) : q[i] = q[j] => i = j
  PROVE  LET r == remove_from_waitlist(q, t) IN
         /\ Members(r) = Members(q) \ {t}
         /\ \A i, j \in 1..Len(r) : r[i] = r[j] => i = j
<1> DEFINE k == CHOOSE i \in 1..Len(q) : q[i] = t
           r == [j \in 1..(Len(q) - 1) |-> IF j < k THEN q[j] ELSE q[j + 1]]
<1>1. k \in 1..Len(q) /\ q[k] = t
  BY DEF Members
<1> HIDE DEF k
<1>2. Len(q) \in Nat /\ Len(q) > 0
  BY <1>1
<1>3. Len(r) = Len(q) - 1
  BY <1>2
<1>4. ASSUME NEW i \in 1..Len(r) PROVE r[i] = (IF i < k THEN q[i] ELSE q[i + 1])
  BY <1>3
<1> HIDE DEF r
<1>5. Members(r) \subseteq Members(q) \ {t}
  <2> SUFFICES ASSUME NEW i \in 1..Len(r) PROVE r[i] \in Members(q) \ {t}
    BY DEF Members
  <2>1. i \in 1..Len(q) /\ i + 1 \in 1..Len(q)
    BY <1>2, <1>3
  <2> QED BY <2>1, <1>1, <1>4 DEF Members
<1>6. Members(q) \ {t} \subseteq Members(r)
  <2> SUFFICES ASSUME NEW i \in 1..Len(q), q[i] # t PROVE q[i] \in Members(r)
    BY DEF Members
  <2>1. CASE i < k
    <3>1. i \in 1..Len(r)
      BY <1>1, <1>2, <1>3, <2>1
    <3> QED BY <3>1, <1>4, <2>1 DEF Members
  <2>2. CASE i > k
    <3>1. i - 1 \in 1..Len(r) /\ ~(i - 1 < k) /\ (i - 1) + 1 = i
      BY <1>1, <1>2, <1>3, <2>2
    <3>2. r[i - 1] = q[i]
      BY <3>1, <1>4
    <3> QED BY <3>1, <3>2 DEF Members
  <2> QED BY <1>1, <1>2, <2>1, <2>2
<1>7. \A i, j \in 1..Len(r) : r[i] = r[j] => i = j
  <2> SUFFICES ASSUME NEW i \in 1..Len(r), NEW j \in 1..Len(r), r[i] = r[j] PROVE i = j
    OBVIOUS
  <2>1. /\ i \in 1..Len(q) /\ i + 1 \in 1..Len(q)
        /\ j \in 1..Len(q) /\ j + 1 \in 1..Len(q)
    BY <1>2, <1>3
  <2> QED BY <2>1, <1>1, <1>2, <1>4
<1>8. r = remove_from_waitlist(q, t)
  BY DEF r, k, remove_from_waitlist
<1> QED BY <1>5, <1>6, <1>7, <1>8

\* The members of a ring of threads are threads, its head too.
LEMMA RingMembers ==
  ASSUME NEW S, NEW q \in Seq(S)
  PROVE  /\ Members(q) \subseteq S
         /\ q # <<>> => Head(q) \in Members(q)
<1>1. \A i \in 1..Len(q) : q[i] \in S
  OBVIOUS
<1>2. q # <<>> => 1 \in 1..Len(q) /\ Head(q) = q[1]
  OBVIOUS
<1> QED BY <1>1, <1>2 DEF Members

\* Linking a node in at the tail adds exactly that thread.
LEMMA RingAppendMembers ==
  ASSUME NEW S, NEW q \in Seq(S), NEW t \in S, t \notin Members(q),
         \A i, j \in 1..Len(q) : q[i] = q[j] => i = j
  PROVE  LET r == add_to_waitlist(q, t) IN
         /\ r \in Seq(S)
         /\ Members(r) = Members(q) \cup {t}
         /\ \A i, j \in 1..Len(r) : r[i] = r[j] => i = j
<1> DEFINE r == Append(q, t)
<1>1. r \in Seq(S) /\ Len(r) = Len(q) + 1 /\ Len(q) \in Nat
  OBVIOUS
<1>2. \A i \in 1..Len(r) : r[i] = IF i <= Len(q) THEN q[i] ELSE t
  BY <1>1
<1>3. Members(r) \subseteq Members(q) \cup {t}
  BY <1>1, <1>2 DEF Members
<1>4. Members(q) \cup {t} \subseteq Members(r)
  <2>1. \A i \in 1..Len(q) : i \in 1..Len(r) /\ r[i] = q[i]
    BY <1>1, <1>2
  <2>2. Len(r) \in 1..Len(r) /\ r[Len(r)] = t
    BY <1>1, <1>2
  <2> QED BY <2>1, <2>2 DEF Members
<1>5. \A i, j \in 1..Len(r) : r[i] = r[j] => i = j
  <2>1. \A i \in 1..Len(q) : q[i] # t
    BY DEF Members
  <2> QED BY <1>1, <1>2, <2>1
<1> QED BY <1>1, <1>3, <1>4, <1>5 DEF add_to_waitlist

-----------------------------------------------------------------------------
(* The rings, the states of the threads and the calls they are in.         *)

SchedOK ==
  /\ queue \in [Queues -> Seq(Threads)]
  /\ \A s \in Queues : OneNodeEach(queue[s])
  /\ tr_nState \in [Threads -> {"run", "asleep", "ready"}]
  /\ \A t \in Threads : tr_nState[t] # "run" <=> \E s \in Queues : t \in Members(queue[s])
  /\ tr_nSigPend \subseteq {t \in Threads : pc[t] \in Interrupted}
  /\ pc \in [Threads -> Calls \cup {"closed", "open", "select"}]
  /\ \A t \in Threads, s \in Queues :
       t \in Members(queue[s]) => pc[t] \in Calls /\ s = CallQueue(t)

Sleepers == {u \in Threads : tr_nState[u] = "asleep"}

\* Inv has what the rings and states need.
LEMMA InvSched == Inv => SchedOK
BY DEF Inv, TypeOK, InPlace, SchedOK

\* A thread that runs has no node in any ring, and one outside the three calls
\* runs.
LEMMA RunsHasNoNode ==
  ASSUME SchedOK, NEW t \in Threads
  PROVE  /\ tr_nState[t] = "run" => \A s \in Queues : t \notin Members(queue[s])
         /\ pc[t] \notin Calls => tr_nState[t] = "run" /\ t \notin tr_nSigPend
BY FifoTypes DEF SchedOK

\* wakeup_sem makes sleepers ready and nobody else.
LEMMA WokenSleep ==
  ASSUME SchedOK, NEW s \in Queues, NEW b \in BOOLEAN
  PROVE  Woken(s, b) \subseteq Sleepers
<1>1. queue[s] \in Seq(Threads)
  BY DEF SchedOK
<1>2. Members(queue[s]) \subseteq Threads /\ (queue[s] # <<>> => Head(queue[s]) \in Members(queue[s]))
  BY <1>1, RingMembers
<1> QED BY <1>2 DEF Woken, Sleepers

\* A call that returns, or goes on without sleeping, leaves the rings alone.
LEMMA WalkSched ==
  ASSUME SchedOK, NEW t \in Threads, tr_nState[t] = "run",
         NEW place \in {"closed", "open", "pi_write", "select"},
         NEW W \in SUBSET Sleepers,
         queue' = queue,
         pc' = [pc EXCEPT ![t] = place],
         tr_nState' = [u \in Threads |-> IF u \in W THEN "ready" ELSE tr_nState[u]],
         tr_nSigPend' \subseteq tr_nSigPend,
         t \in tr_nSigPend' => place = pc[t]
  PROVE  SchedOK'
<1>1. \A s \in Queues : t \notin Members(queue[s])
  BY RunsHasNoNode
<1>2. \A u \in Threads : u # t => pc'[u] = pc[u]
  BY DEF SchedOK
<1>3. pc' \in [Threads -> Calls \cup {"closed", "open", "select"}]
  BY DEF SchedOK, Calls
<1>4. tr_nState' \in [Threads -> {"run", "asleep", "ready"}]
  BY DEF SchedOK
<1>5. \A u \in Threads : tr_nState'[u] = "run" <=> tr_nState[u] = "run"
  BY DEF SchedOK, Sleepers
<1>6. tr_nSigPend' \subseteq {u \in Threads : pc'[u] \in Interrupted}
  BY <1>2 DEF SchedOK
<1>7. \A u \in Threads, s \in Queues :
        u \in Members(queue[s]) => pc'[u] \in Calls /\ s = CallQueue(u)'
  <2> SUFFICES ASSUME NEW u \in Threads, NEW s \in Queues, u \in Members(queue[s])
               PROVE  pc'[u] \in Calls /\ s = CallQueue(u)'
    OBVIOUS
  <2>1. pc'[u] = pc[u]
    BY <1>1, <1>2
  <2> QED BY <2>1 DEF SchedOK, CallQueue, OpenQueue
<1> QED BY <1>3, <1>4, <1>5, <1>6, <1>7 DEF SchedOK

\* unlock_and_suspend links the thread into the ring of its call.
LEMMA SleepsSched ==
  ASSUME SchedOK, NEW t \in Threads, tr_nState[t] = "run",
         NEW place \in Calls, NEW s \in Queues, s = CallQueue(t)',
         NEW W \in SUBSET Sleepers,
         t \in tr_nSigPend => place = pc[t],
         Sleeps(t, place, s, W)
  PROVE  SchedOK'
<1> USE DEF Sleeps
<1>1. \A r \in Queues : t \notin Members(queue[r])
  BY RunsHasNoNode
<1>2. \A u \in Threads : u # t => pc'[u] = pc[u]
  BY DEF SchedOK
<1>3. pc' \in [Threads -> Calls \cup {"closed", "open", "select"}] /\ pc'[t] = place
  BY DEF SchedOK, Calls
<1>4. tr_nState' \in [Threads -> {"run", "asleep", "ready"}]
  BY DEF SchedOK
<1>5. LET r == add_to_waitlist(queue[s], t) IN
      /\ r \in Seq(Threads)
      /\ Members(r) = Members(queue[s]) \cup {t}
      /\ OneNodeEach(r)
  <2>1. queue[s] \in Seq(Threads) /\ OneNodeEach(queue[s])
    BY DEF SchedOK
  <2> QED BY <2>1, <1>1, RingAppendMembers DEF OneNodeEach
<1>6. queue' \in [Queues -> Seq(Threads)] /\ \A r \in Queues : OneNodeEach(queue'[r])
  BY <1>5 DEF SchedOK
<1>7. /\ \A u \in Threads \ {t}, r \in Queues : u \in Members(queue'[r]) <=> u \in Members(queue[r])
      /\ \A r \in Queues : t \in Members(queue'[r]) <=> r = s
  BY <1>1, <1>5 DEF SchedOK
<1>8. \A u \in Threads : tr_nState'[u] # "run" <=> \E r \in Queues : u \in Members(queue'[r])
  BY <1>7 DEF SchedOK, Sleepers
<1>9. tr_nSigPend' \subseteq {u \in Threads : pc'[u] \in Interrupted}
  BY <1>2, <1>3 DEF SchedOK
<1>10. \A u \in Threads, r \in Queues :
         u \in Members(queue'[r]) => pc'[u] \in Calls /\ r = CallQueue(u)'
  <2> SUFFICES ASSUME NEW u \in Threads, NEW r \in Queues, u \in Members(queue'[r])
               PROVE  pc'[u] \in Calls /\ r = CallQueue(u)'
    OBVIOUS
  <2>1. CASE u = t
    BY <1>3, <1>7, <2>1
  <2>2. CASE u # t
    <3>1. pc'[u] = pc[u] /\ u \in Members(queue[r])
      BY <1>2, <1>7, <2>2
    <3> QED BY <3>1 DEF SchedOK, CallQueue, OpenQueue
  <2> QED BY <2>1, <2>2
<1> QED BY <1>3, <1>4, <1>6, <1>8, <1>9, <1>10 DEF SchedOK

\* The end of unlock_and_suspend takes the thread out of the one ring it is in.
LEMMA SuspendSched ==
  ASSUME SchedOK, NEW t \in Threads, suspend_returns(t)
  PROVE  SchedOK'
<1> USE DEF suspend_returns
<1>1. \A s \in Queues : /\ queue'[s] \in Seq(Threads)
                        /\ OneNodeEach(queue'[s])
                        /\ Members(queue'[s]) = Members(queue[s]) \ {t}
  <2> SUFFICES ASSUME NEW s \in Queues
               PROVE  /\ queue'[s] \in Seq(Threads)
                      /\ OneNodeEach(queue'[s])
                      /\ Members(queue'[s]) = Members(queue[s]) \ {t}
    OBVIOUS
  <2>1. queue[s] \in Seq(Threads) /\ OneNodeEach(queue[s])
    BY DEF SchedOK
  <2>2. CASE t \in Members(queue[s])
    <3> DEFINE r == remove_from_waitlist(queue[s], t)
    <3>1. queue'[s] = r
      BY <2>2
    <3>2. r \in Seq(Threads)
      BY <2>1, RingRemoveType
    <3>3. Members(r) = Members(queue[s]) \ {t} /\ OneNodeEach(r)
      BY <2>1, <2>2, RingRemoveMembers DEF OneNodeEach
    <3> QED BY <3>1, <3>2, <3>3
  <2>3. CASE t \notin Members(queue[s])
    BY <2>1, <2>3
  <2> QED BY <2>2, <2>3
<1>2. queue' \in [Queues -> Seq(Threads)]
  BY <1>1
<1>3. tr_nState' \in [Threads -> {"run", "asleep", "ready"}]
  BY DEF SchedOK
<1>4. \A u \in Threads : tr_nState'[u] # "run" <=> \E r \in Queues : u \in Members(queue'[r])
  BY <1>1 DEF SchedOK
<1>5. /\ pc' \in [Threads -> Calls \cup {"closed", "open", "select"}]
      /\ \A u \in Threads : u # t => pc'[u] = pc[u]
      /\ t \notin tr_nSigPend' \/ pc'[t] = pc[t]
      /\ tr_nSigPend' \subseteq tr_nSigPend
  BY DEF SchedOK, Calls
<1>6. tr_nSigPend' \subseteq {u \in Threads : pc'[u] \in Interrupted}
  BY <1>5 DEF SchedOK
<1>7. \A u \in Threads, r \in Queues :
         u \in Members(queue'[r]) => pc'[u] \in Calls /\ r = CallQueue(u)'
  <2> SUFFICES ASSUME NEW u \in Threads, NEW r \in Queues, u \in Members(queue'[r])
               PROVE  pc'[u] \in Calls /\ r = CallQueue(u)'
    OBVIOUS
  <2> HIDE DEF suspend_returns
  <2>0. u \in Members(queue[r]) /\ u # t
    BY <1>1
  <2>1. pc'[u] = pc[u] /\ u \in Members(queue[r])
    BY <1>5, <2>0
  <2> QED BY <2>1 DEF SchedOK, CallQueue, OpenQueue
<1> QED BY <1>1, <1>2, <1>3, <1>4, <1>5, <1>6, <1>7 DEF SchedOK

\* The loops of the three calls.
LEMMA OpenLoopSched ==
  ASSUME SchedOK, NEW t \in Threads, tr_nState[t] = "run", pc[t] \in {"closed", "pi_open"},
         NEW b, NEW seq, NEW W \in SUBSET Sleepers, OpenLoop(t, b, seq, W)
  PROVE  SchedOK'
<1>1. CASE Returns(t, "open", W)
  BY <1>1, WalkSched DEF Returns
<1>2. CASE Sleeps(t, "pi_open", OpenQueue(t), W)
  <2>1. pc'[t] = "pi_open" /\ OpenQueue(t) \in Queues /\ "pi_open" \in Calls
    BY <1>2 DEF Sleeps, SchedOK, OpenQueue, Queues, Calls
  <2>2. OpenQueue(t) = CallQueue(t)'
    BY <2>1 DEF CallQueue, OpenQueue
  <2>3. t \in tr_nSigPend => pc[t] = "pi_open"
    BY RunsHasNoNode DEF Calls
  <2> QED BY <1>2, <2>1, <2>2, <2>3, SleepsSched
<1> QED BY <1>1, <1>2 DEF OpenLoop

\* A turn of the read loop keeps rings and states in agreement.
LEMMA ReadLoopSched ==
  ASSUME SchedOK, NEW t \in Readers, tr_nState[t] = "run", pc[t] \in {"open", "pi_read"},
         NEW n, ReadLoop(t, n)
  PROVE  SchedOK'
<1>1. ReadWakes \subseteq Sleepers /\ t \in Threads
  BY WokenSleep DEF ReadWakes, Queues, Threads
<1>2. ASSUME NEW V \in SUBSET Sleepers, Returns(t, "open", V) PROVE SchedOK'
  BY <1>1, <1>2, WalkSched DEF Returns
<1>3. CASE Sleeps(t, "pi_read", "pn_hReadSema", {})
  <2>1. pc'[t] = "pi_read" /\ "pn_hReadSema" \in Queues /\ "pi_read" \in Calls
    BY <1>1, <1>3 DEF Sleeps, SchedOK, Queues, Calls
  <2>2. "pn_hReadSema" = CallQueue(t)'
    BY <2>1 DEF CallQueue
  <2>3. t \in tr_nSigPend => pc[t] = "pi_read"
    BY <1>1, RunsHasNoNode DEF Calls
  <2> QED BY <1>1, <1>3, <2>1, <2>2, <2>3, SleepsSched
<1> QED BY <1>1, <1>2, <1>3 DEF ReadLoop

\* So does a turn of the write loop.
LEMMA WriteLoopSched ==
  ASSUME SchedOK, NEW t \in Writers, tr_nState[t] = "run", pc[t] \in {"open", "pi_write"},
         NEW d, WriteLoop(t, d)
  PROVE  SchedOK'
<1> DEFINE W == Woken("pn_hReadSema", FALSE)
<1>1. W \subseteq Sleepers /\ t \in Threads
  BY WokenSleep DEF Queues, Threads
<1>2. ASSUME NEW V \in SUBSET Sleepers, Returns(t, "open", V) PROVE SchedOK'
  BY <1>1, <1>2, WalkSched DEF Returns
<1>3. CASE Goes(t, "pi_write", W)
  <2>1. t \in tr_nSigPend => pc[t] = "pi_write"
    BY <1>1, RunsHasNoNode DEF Calls
  <2> QED BY <1>1, <1>3, <2>1, WalkSched DEF Goes
<1>4. CASE Sleeps(t, "pi_write", "pn_hWriteSema", {})
  <2>1. pc'[t] = "pi_write" /\ "pn_hWriteSema" \in Queues /\ "pi_write" \in Calls
    BY <1>1, <1>4 DEF Sleeps, SchedOK, Queues, Calls
  <2>2. "pn_hWriteSema" = CallQueue(t)'
    BY <2>1 DEF CallQueue
  <2>3. t \in tr_nSigPend => pc[t] = "pi_write"
    BY <1>1, RunsHasNoNode DEF Calls
  <2> QED BY <1>1, <1>4, <2>1, <2>2, <2>3, SleepsSched
<1>5. \/ Returns(t, "open", W) \/ Returns(t, "open", {})
      \/ Goes(t, "pi_write", W) \/ Sleeps(t, "pi_write", "pn_hWriteSema", {})
  BY DEF WriteLoop, WriteReturns
<1> HIDE DEF W
<1> QED BY <1>1, <1>2, <1>3, <1>4, <1>5

\* What a thread does when it calls or goes on: nobody reads but a reader, nobody
\* writes but a writer, and the thread runs.
LEMMA CallersRun ==
  ASSUME Inv, NEW t \in Threads
  PROVE  /\ pc[t] \notin Calls => tr_nState[t] = "run"
         /\ pc[t] = "pi_read" => t \in Readers /\ nLen[t] \in ReadLens
         /\ pc[t] = "pi_write" => t \in Writers
BY InvSched, RunsHasNoNode DEF Inv, InPlace, Threads

\* Every step keeps the rings, the states and the calls in order.
LEMMA SchedStep ==
  ASSUME Inv, [Next]_vars
  PROVE  SchedOK'
<1> SchedOK
  BY InvSched
<1>1. ASSUME NEW t \in Threads, pi_open(t) PROVE SchedOK'
  <2>1. OpenWakes(t) \subseteq Sleepers
    BY WokenSleep DEF OpenWakes, OtherQueue, Queues
  <2>2. pc[t] = "closed" /\ tr_nState[t] = "run"
    BY <1>1, CallersRun DEF pi_open, Calls
  <2>3. PICK b : OpenLoop(t, b, OtherSeq(t), OpenWakes(t))
    BY <1>1 DEF pi_open
  <2> QED BY <2>1, <2>2, <2>3, OpenLoopSched
<1>2. ASSUME NEW t \in Threads, pi_close(t) PROVE SchedOK'
  <2>1. CloseWakes(t) \subseteq Sleepers
    BY WokenSleep DEF CloseWakes, Queues
  <2>2. tr_nState[t] = "run"
    BY <1>2, CallersRun DEF pi_close, Calls
  <2> QED BY <1>2, <2>1, <2>2, WalkSched DEF pi_close, Returns
<1>3. ASSUME NEW t \in Threads, pi_read(t) PROVE SchedOK'
  <2>1. tr_nState[t] = "run"
    BY <1>3, CallersRun DEF pi_read, Calls
  <2> QED BY <1>3, <2>1, ReadLoopSched DEF pi_read
<1>4. ASSUME NEW t \in Threads, pi_write(t) PROVE SchedOK'
  <2>1. tr_nState[t] = "run"
    BY <1>4, CallersRun DEF pi_write, Calls
  <2> QED BY <1>4, <2>1, WriteLoopSched DEF pi_write
<1>5. ASSUME NEW t \in Threads, suspend_returns(t) PROVE SchedOK'
  BY <1>5, SuspendSched
<1>6. ASSUME NEW t \in Threads, pi_open_resume(t) PROVE SchedOK'
  <2>1. {} \in SUBSET Sleepers
    OBVIOUS
  <2> QED BY <1>6, <2>1, OpenLoopSched DEF pi_open_resume
<1>7. ASSUME NEW t \in Threads, pi_read_resume(t) PROVE SchedOK'
  BY <1>7, CallersRun, ReadLoopSched DEF pi_read_resume
<1>8. ASSUME NEW t \in Threads, pi_write_resume(t) PROVE SchedOK'
  BY <1>8, CallersRun, WriteLoopSched DEF pi_write_resume
<1>9. ASSUME NEW t \in Threads, pi_setflags(t) PROVE SchedOK'
  BY <1>9 DEF pi_setflags, sched, SchedOK, CallQueue, OpenQueue
<1>10. ASSUME NEW t \in Threads, pi_add_select_req(t) \/ pi_rem_select_req(t) PROVE SchedOK'
  <2>1. tr_nState[t] = "run" /\ t \notin tr_nSigPend
    BY <1>10, RunsHasNoNode DEF pi_add_select_req, pi_rem_select_req, Calls
  <2>2. tr_nState = [u \in Threads |-> IF u \in {} THEN "ready" ELSE tr_nState[u]]
    BY DEF SchedOK
  <2>3. PICK place \in {"open", "select"} : pc' = [pc EXCEPT ![t] = place]
    BY <1>10 DEF pi_add_select_req, pi_rem_select_req
  <2>4. UNCHANGED <<queue, tr_nState, tr_nSigPend>> /\ {} \in SUBSET Sleepers
    BY <1>10 DEF pi_add_select_req, pi_rem_select_req
  <2> QED BY <2>1, <2>2, <2>3, <2>4, WalkSched
<1>11. ASSUME NEW t \in Threads, send_signal(t) PROVE SchedOK'
  BY <1>11 DEF send_signal, SchedOK, CallQueue, OpenQueue
<1>12. CASE UNCHANGED vars
  BY <1>12 DEF vars, sched, SchedOK, CallQueue, OpenQueue
<1> QED BY <1>1, <1>2, <1>3, <1>4, <1>5, <1>6, <1>7, <1>8, <1>9, <1>10, <1>11, <1>12
        DEF Next, Continue

-----------------------------------------------------------------------------
(* The counts of files.                                                    *)

Files(S) == {t \in S : pc[t] # "closed"}

CountsOK ==
  /\ pn_nReaders = Cardinality(Files(Readers))
  /\ pn_nWriters = Cardinality(Files(Writers))
  /\ pn_nReadOpenSeq \in 0..MaxOpens /\ pn_nWriteOpenSeq \in 0..MaxOpens

\* Inv has what the counts need.
LEMMA InvCounts == Inv => CountsOK
BY DEF Inv, TypeOK, CountsOK, Files

\* What a step does to the files of the node: one is opened, one is given back
\* (by pi_close or by an interrupted pi_open), or none is touched.
Opened(t) ==
  /\ pc[t] = "closed" /\ pc'[t] \in {"open", "pi_open"} /\ Attach(t)
  /\ pn_nReadOpenSeq'  = pn_nReadOpenSeq  + (IF t \in Readers THEN 1 ELSE 0)
  /\ pn_nWriteOpenSeq' = pn_nWriteOpenSeq + (IF t \in Writers THEN 1 ELSE 0)
  /\ OwnSeq(t) < MaxOpens
  /\ \A u \in Threads \ {t} : pc'[u] = pc[u]

GivenBack(t) ==
  /\ pc[t] # "closed" /\ pc'[t] = "closed" /\ Detach(t)
  /\ UNCHANGED <<pn_nReadOpenSeq, pn_nWriteOpenSeq>>
  /\ \A u \in Threads \ {t} : pc'[u] = pc[u]

FilesKept ==
  /\ UNCHANGED counts
  /\ \A u \in Threads : pc'[u] = "closed" <=> pc[u] = "closed"

\* The loops of pi_read and pi_write touch no file.
LEMMA LoopsKeepFiles ==
  ASSUME Inv, NEW t \in Threads, pc[t] # "closed",
         (\E n : ReadLoop(t, n)) \/ (\E d : WriteLoop(t, d))
  PROVE  FilesKept
<1>1. UNCHANGED counts
  BY DEF ReadLoop, WriteLoop
<1>2. \E place \in {"open", "pi_read", "pi_write"} : pc' = [pc EXCEPT ![t] = place]
  BY DEF ReadLoop, WriteLoop, WriteReturns, Returns, Goes, Sleeps
<1> QED BY <1>1, <1>2 DEF FilesKept, Inv, TypeOK

\* A step opens a file, closes one, gives one back after a signal, or leaves
\* the files alone.
LEMMA FileStep ==
  ASSUME Inv, [Next]_vars
  PROVE  \/ \E t \in Threads : pi_open(t) /\ Opened(t)
         \/ \E t \in Threads : pi_close(t) /\ GivenBack(t)
         \/ \E t \in Threads : suspend_returns(t) /\ pc[t] = "pi_open" /\ t \in tr_nSigPend /\ GivenBack(t)
         \/ FilesKept
<1>0. pc \in [Threads -> Calls \cup {"closed", "open", "select"}]
  BY DEF Inv, TypeOK
<1>1. ASSUME NEW t \in Threads, pi_open(t) PROVE Opened(t)
  <2>1. PICK place \in {"open", "pi_open"} : pc' = [pc EXCEPT ![t] = place]
    BY <1>1 DEF pi_open, OpenLoop, Returns, Sleeps
  <2> QED BY <1>0, <1>1, <2>1 DEF pi_open, Opened
<1>2. ASSUME NEW t \in Threads, pi_close(t) PROVE GivenBack(t)
  BY <1>0, <1>2 DEF pi_close, Returns, GivenBack
<1>3. ASSUME NEW t \in Threads, pi_read(t) \/ pi_read_resume(t) PROVE FilesKept
  BY <1>3, LoopsKeepFiles DEF pi_read, pi_read_resume
<1>4. ASSUME NEW t \in Threads, pi_write(t) \/ pi_write_resume(t) PROVE FilesKept
  BY <1>4, LoopsKeepFiles DEF pi_write, pi_write_resume
<1>5. ASSUME NEW t \in Threads, suspend_returns(t)
      PROVE  FilesKept \/ (pc[t] = "pi_open" /\ t \in tr_nSigPend /\ GivenBack(t))
  <2>1. tr_nState[t] = "ready"
    BY <1>5 DEF suspend_returns
  <2>2. pc[t] \in Calls
    BY <2>1, CallersRun
  <2> QED BY <1>0, <1>5, <2>2 DEF suspend_returns, FilesKept, GivenBack, counts, Calls
<1>6. ASSUME NEW t \in Threads, pi_open_resume(t) PROVE FilesKept
  <2>1. PICK place \in {"open", "pi_open"} : pc' = [pc EXCEPT ![t] = place]
    BY <1>6 DEF pi_open_resume, OpenLoop, Returns, Sleeps
  <2> QED BY <1>0, <1>6, <2>1 DEF pi_open_resume, FilesKept
<1>7. ASSUME NEW t \in Threads, pi_setflags(t) \/ send_signal(t) PROVE FilesKept
  BY <1>7 DEF pi_setflags, send_signal, FilesKept, sched
<1>8. ASSUME NEW t \in Threads, pi_add_select_req(t) \/ pi_rem_select_req(t) PROVE FilesKept
  BY <1>0, <1>8 DEF pi_add_select_req, pi_rem_select_req, FilesKept
<1>9. CASE UNCHANGED vars
  BY <1>9 DEF vars, sched, FilesKept
<1> QED BY <1>1, <1>2, <1>3, <1>4, <1>5, <1>6, <1>7, <1>8, <1>9 DEF Next, Continue

\* One file more, one file less.
LEMMA FileMore ==
  ASSUME NEW S, IsFiniteSet(S), NEW t \in S, pc[t] = "closed", pc'[t] # "closed",
         \A u \in S \ {t} : pc'[u] = pc[u]
  PROVE  Cardinality(Files(S)') = Cardinality(Files(S)) + 1
<1>1. IsFiniteSet(Files(S)) /\ t \notin Files(S) /\ Files(S)' = Files(S) \cup {t}
  BY FS_Subset DEF Files
<1> QED BY <1>1, FS_AddElement

\* A file that is closed lowers the count by one.
LEMMA FileLess ==
  ASSUME NEW S, IsFiniteSet(S), NEW t \in S, pc[t] # "closed", pc'[t] = "closed",
         \A u \in S \ {t} : pc'[u] = pc[u]
  PROVE  /\ Cardinality(Files(S)') = Cardinality(Files(S)) - 1
         /\ Cardinality(Files(S)) \in Nat \ {0}
<1>1. IsFiniteSet(Files(S)) /\ t \in Files(S) /\ Files(S)' = Files(S) \ {t}
  BY FS_Subset DEF Files
<1>2. Cardinality(Files(S)) \in Nat /\ Cardinality(Files(S)) # 0
  BY <1>1, FS_CardinalityType, FS_EmptySet
<1> QED BY <1>1, <1>2, FS_RemoveElement

\* Steps that neither open nor close keep the files.
LEMMA FilesSame ==
  ASSUME NEW S, \A u \in S : pc'[u] = "closed" <=> pc[u] = "closed"
  PROVE  Files(S)' = Files(S)
BY DEF Files

\* Every step keeps the counts equal to the files.
LEMMA CountsStep ==
  ASSUME Inv, [Next]_vars
  PROVE  CountsOK'
<1> CountsOK
  BY InvCounts
<1> USE DEF Threads
<1>0. /\ IsFiniteSet(Readers) /\ IsFiniteSet(Writers) /\ Readers \cap Writers = {}
      /\ MaxOpens \in Nat
  BY FifoTypes
<1>1. ASSUME NEW t \in Threads, Opened(t) PROVE CountsOK'
  <2>1. CASE t \in Readers
    <3>1. Files(Writers)' = Files(Writers)
      BY <1>0, <1>1, <2>1, FilesSame DEF Opened
    <3>2. Cardinality(Files(Readers)') = Cardinality(Files(Readers)) + 1
      BY <1>0, <1>1, <2>1, FileMore DEF Opened
    <3> QED BY <1>0, <1>1, <2>1, <3>1, <3>2 DEF Opened, Attach, CountsOK, OwnSeq
  <2>2. CASE t \in Writers
    <3>1. Files(Readers)' = Files(Readers) /\ t \notin Readers
      BY <1>0, <1>1, <2>2, FilesSame DEF Opened
    <3>2. Cardinality(Files(Writers)') = Cardinality(Files(Writers)) + 1
      BY <1>0, <1>1, <2>2, FileMore DEF Opened
    <3> QED BY <1>0, <1>1, <2>2, <3>1, <3>2 DEF Opened, Attach, CountsOK, OwnSeq
  <2> QED BY <2>1, <2>2
<1>2. ASSUME NEW t \in Threads, GivenBack(t) PROVE CountsOK'
  <2>1. CASE t \in Readers
    <3>1. Files(Writers)' = Files(Writers)
      BY <1>0, <1>2, <2>1, FilesSame DEF GivenBack
    <3>2. Cardinality(Files(Readers)') = Cardinality(Files(Readers)) - 1
      BY <1>0, <1>2, <2>1, FileLess DEF GivenBack
    <3> QED BY <1>2, <2>1, <3>1, <3>2 DEF GivenBack, Detach, CountsOK
  <2>2. CASE t \in Writers
    <3>1. Files(Readers)' = Files(Readers) /\ t \notin Readers
      BY <1>0, <1>2, <2>2, FilesSame DEF GivenBack
    <3>2. Cardinality(Files(Writers)') = Cardinality(Files(Writers)) - 1
      BY <1>0, <1>2, <2>2, FileLess DEF GivenBack
    <3> QED BY <1>2, <2>2, <3>1, <3>2 DEF GivenBack, Detach, CountsOK
  <2> QED BY <2>1, <2>2
<1>3. CASE FilesKept
  BY <1>3, FilesSame DEF FilesKept, CountsOK, counts
<1> QED BY <1>1, <1>2, <1>3, FileStep

\* A count is zero exactly when nobody has a file on that side.
LEMMA CountZero ==
  ASSUME CountsOK
  PROVE  /\ pn_nReaders \in Nat /\ pn_nWriters \in Nat
         /\ pn_nReaders = 0 <=> \A t \in Readers : pc[t] = "closed"
         /\ pn_nWriters = 0 <=> \A t \in Writers : pc[t] = "closed"
<1>1. ASSUME NEW S, IsFiniteSet(S)
      PROVE  /\ Cardinality(Files(S)) \in Nat
             /\ Cardinality(Files(S)) = 0 <=> \A t \in S : pc[t] = "closed"
  <2>1. IsFiniteSet(Files(S))
    BY <1>1, FS_Subset DEF Files
  <2>2. Cardinality(Files(S)) \in Nat /\ (Cardinality(Files(S)) = 0 <=> Files(S) = {})
    BY <2>1, FS_CardinalityType, FS_EmptySet
  <2>3. Files(S) = {} <=> \A t \in S : pc[t] = "closed"
    BY DEF Files
  <2> QED BY <2>2, <2>3
<1> QED BY <1>1, FifoTypes DEF CountsOK

-----------------------------------------------------------------------------
(* The ring buffer.                                                        *)

RingOK ==
  /\ pn_nBytesInBuffer \in 0..PIPE_BUF
  /\ pn_nOutPos \in 0..(PIPE_BUF - 1)
  /\ pn_nInPos = (pn_nOutPos + pn_nBytesInBuffer) % PIPE_BUF
  /\ pn_anBuffer \in [0..(PIPE_BUF - 1) -> Nat]

\* Inv has what the buffer needs.
LEMMA InvRing == Inv => RingOK
BY DEF Inv, TypeOK, RingOK

\* Positions of the ring buffer are taken modulo its size.
LEMMA ModRange ==
  ASSUME NEW N \in Nat \ {0}, NEW a \in Int
  PROVE  a % N \in 0..(N - 1)
OBVIOUS

\* The remainder of a number below twice the divisor ...
LEMMA ModOf ==
  ASSUME NEW N \in Nat \ {0}, NEW a \in 0..(2 * N - 1)
  PROVE  a % N = IF a < N THEN a ELSE a - N
<1>1. CASE a < N
  <2>1. a \in 0..(N - 1)
    BY <1>1
  <2> QED BY <2>1, <1>1
<1>2. CASE ~(a < N)
  <2>1. a - N \in 0..(N - 1)
    BY <1>2
  <2> QED BY <2>1, <1>2
<1> QED BY <1>1, <1>2

\* ... and of one that is negative by less than the divisor.
LEMMA ModOfNegative ==
  ASSUME NEW N \in Nat \ {0}, NEW a \in (-N)..(N - 1)
  PROVE  a % N = IF a < 0 THEN a + N ELSE a
<1>1. CASE a < 0
  <2>1. a + N \in 0..(N - 1)
    BY <1>1
  <2> QED BY <2>1, <1>1
<1>2. CASE ~(a < 0)
  <2>1. a \in 0..(N - 1)
    BY <1>2
  <2> QED BY <2>1, <1>2
<1> QED BY <1>1, <1>2

\* Going on by a and then by b is going on by a + b, for parts of one turn.
LEMMA ModSum ==
  ASSUME NEW N \in Nat \ {0}, NEW p \in 0..(N - 1), NEW a \in 0..N, NEW b \in 0..N, a + b <= N
  PROVE  (((p + a) % N) + b) % N = (p + (a + b)) % N
<1> DEFINE x == p + a
           z == p + (a + b)
           m == x % N
           y == m + b
<1>1. x \in 0..(2 * N - 1) /\ z \in 0..(2 * N - 1) /\ z = x + b
  OBVIOUS
<1> HIDE DEF x, z
<1>2. m = IF x < N THEN x ELSE x - N
  BY <1>1, ModOf
<1>3. z % N = IF z < N THEN z ELSE z - N
  BY <1>1, ModOf
<1> HIDE DEF m
<1>4. y \in 0..(2 * N - 1)
  BY <1>1, <1>2
<1>5. y % N = IF y < N THEN y ELSE y - N
  <2> HIDE DEF y
  <2> QED BY <1>4, ModOf
<1>6. y % N = z % N
  <2>1. CASE x < N
    BY <1>1, <1>2, <2>1
  <2>2. CASE ~(x < N)
    <3>1. y < N /\ ~(z < N) /\ y = z - N
      BY <1>1, <1>2, <2>2 DEF x, z
    <3> HIDE DEF y
    <3> QED BY <1>3, <1>5, <3>1
  <2> QED BY <2>1, <2>2
<1> QED BY <1>6 DEF x, z, m

\* The lesser of two numbers is at most each.
LEMMA LesserIs ==
  ASSUME NEW a \in Nat, NEW b \in Nat
  PROVE  Lesser(a, b) \in 0..a /\ Lesser(a, b) \in 0..b
BY DEF Lesser

\* What a read and a write leave of the ring buffer.
LEMMA ReadRing ==
  ASSUME RingOK, NEW k \in 0..pn_nBytesInBuffer,
         pn_nBytesInBuffer' = pn_nBytesInBuffer - k,
         pn_nOutPos' = (pn_nOutPos + k) % PIPE_BUF,
         UNCHANGED <<pn_nInPos, pn_anBuffer>>
  PROVE  RingOK'
<1>0. PIPE_BUF \in Nat \ {0} /\ pn_nBytesInBuffer \in 0..PIPE_BUF /\ pn_nOutPos \in 0..(PIPE_BUF - 1)
  BY FifoTypes DEF RingOK
<1>1. pn_nBytesInBuffer' \in 0..PIPE_BUF /\ k \in 0..PIPE_BUF
  BY <1>0
<1>2. pn_nOutPos' \in 0..(PIPE_BUF - 1)
  BY <1>0, ModRange
<1>3. k + pn_nBytesInBuffer' = pn_nBytesInBuffer /\ k + pn_nBytesInBuffer' <= PIPE_BUF
  BY <1>0
<1>4. (pn_nOutPos' + pn_nBytesInBuffer') % PIPE_BUF = (pn_nOutPos + (k + pn_nBytesInBuffer')) % PIPE_BUF
  BY <1>0, <1>1, <1>3, ModSum
<1> QED BY <1>1, <1>2, <1>3, <1>4 DEF RingOK

\* Writing k bytes at the input position keeps the buffer a ring.
LEMMA WriteRing ==
  ASSUME RingOK, NEW d \in Seq(Nat), NEW k \in 0..Len(d), k <= PIPE_BUF - pn_nBytesInBuffer,
         pn_nBytesInBuffer' = pn_nBytesInBuffer + k,
         pn_anBuffer' = [p \in DOMAIN pn_anBuffer |->
           LET j == (p - pn_nInPos) % PIPE_BUF IN IF j < k THEN d[j + 1] ELSE pn_anBuffer[p]],
         pn_nInPos' = (pn_nInPos + k) % PIPE_BUF,
         UNCHANGED pn_nOutPos
  PROVE  RingOK'
<1>0. PIPE_BUF \in Nat \ {0} /\ pn_nBytesInBuffer \in 0..PIPE_BUF /\ pn_nOutPos \in 0..(PIPE_BUF - 1)
  BY FifoTypes DEF RingOK
<1>1. k \in Nat /\ k \in 0..PIPE_BUF /\ pn_nBytesInBuffer' \in 0..PIPE_BUF
  BY <1>0
<1>2. pn_nInPos' = (pn_nOutPos + (pn_nBytesInBuffer + k)) % PIPE_BUF
  <2>1. pn_nBytesInBuffer + k <= PIPE_BUF
    BY <1>0
  <2>2. (((pn_nOutPos + pn_nBytesInBuffer) % PIPE_BUF) + k) % PIPE_BUF
          = (pn_nOutPos + (pn_nBytesInBuffer + k)) % PIPE_BUF
    BY <1>0, <1>1, <2>1, ModSum
  <2> QED BY <2>2 DEF RingOK
<1>3. pn_nInPos \in 0..(PIPE_BUF - 1)
  BY <1>0, ModRange DEF RingOK
<1>4. ASSUME NEW p \in 0..(PIPE_BUF - 1) PROVE pn_anBuffer'[p] \in Nat
  <2> DEFINE j == (p - pn_nInPos) % PIPE_BUF
  <2>1. j \in 0..(PIPE_BUF - 1)
    BY <1>0, <1>3, ModRange
  <2>2. pn_anBuffer'[p] = IF j < k THEN d[j + 1] ELSE pn_anBuffer[p]
    BY DEF RingOK
  <2> HIDE DEF j
  <2>3. j < k => d[j + 1] \in Nat
    BY <1>1, <2>1
  <2> QED BY <2>2, <2>3 DEF RingOK
<1>5. pn_anBuffer' \in [0..(PIPE_BUF - 1) -> Nat]
  BY <1>4 DEF RingOK
<1> QED BY <1>0, <1>1, <1>2, <1>5 DEF RingOK

\* The loops of pi_read and pi_write.
LEMMA ReadLoopRing ==
  ASSUME RingOK, NEW t, NEW n \in ReadLens, ReadLoop(t, n)
  PROVE  RingOK'
<1>1. CASE UNCHANGED ring
  BY <1>1 DEF ring, RingOK
<1>2. CASE /\ pn_nBytesInBuffer' = pn_nBytesInBuffer - Lesser(n, pn_nBytesInBuffer)
           /\ pn_nOutPos' = (pn_nOutPos + Lesser(n, pn_nBytesInBuffer)) % PIPE_BUF
           /\ UNCHANGED <<pn_nInPos, pn_anBuffer>>
  <2>1. n \in Nat /\ pn_nBytesInBuffer \in Nat
    BY FifoTypes DEF RingOK
  <2>2. Lesser(n, pn_nBytesInBuffer) \in 0..pn_nBytesInBuffer
    BY <2>1, LesserIs
  <2> QED BY <1>2, <2>2, ReadRing
<1> QED BY <1>1, <1>2 DEF ReadLoop, ring

\* A turn of the write loop keeps the buffer a ring.
LEMMA WriteLoopRing ==
  ASSUME RingOK, NEW t, NEW d \in Seq(Nat), WriteLoop(t, d)
  PROVE  RingOK'
<1> DEFINE k == Lesser(Len(d), PIPE_BUF - pn_nBytesInBuffer)
<1>1. CASE UNCHANGED ring
  BY <1>1 DEF ring, RingOK
<1>2. CASE /\ pn_nBytesInBuffer' = pn_nBytesInBuffer + k
           /\ pn_anBuffer' = [p \in DOMAIN pn_anBuffer |->
                LET j == (p - pn_nInPos) % PIPE_BUF IN IF j < k THEN d[j + 1] ELSE pn_anBuffer[p]]
           /\ pn_nInPos' = (pn_nInPos + k) % PIPE_BUF
           /\ UNCHANGED pn_nOutPos
  <2>1. Len(d) \in Nat /\ PIPE_BUF - pn_nBytesInBuffer \in Nat
    BY FifoTypes DEF RingOK
  <2>2. k \in 0..Len(d) /\ k \in 0..(PIPE_BUF - pn_nBytesInBuffer)
    BY <2>1, LesserIs
  <2> HIDE DEF k
  <2>3. k <= PIPE_BUF - pn_nBytesInBuffer
    BY <2>1, <2>2
  <2> QED BY <1>2, <2>2, <2>3, WriteRing
<1>3. PICK rest, W : \/ UNCHANGED ring
                     \/ /\ pn_nBytesInBuffer' = pn_nBytesInBuffer + k
                        /\ pn_anBuffer' = [p \in DOMAIN pn_anBuffer |->
                             LET j == (p - pn_nInPos) % PIPE_BUF IN
                             IF j < k THEN d[j + 1] ELSE pn_anBuffer[p]]
                        /\ pn_nInPos' = (pn_nInPos + k) % PIPE_BUF
                        /\ UNCHANGED pn_nOutPos
  BY DEF WriteLoop, ring
<1> QED BY <1>1, <1>2, <1>3

\* What the writer has left to write is a sequence of bytes.
LEMMA WriteInput ==
  ASSUME Inv, NEW t \in Threads
  PROVE  /\ t \in Writers => Payloads[t] \subseteq Seq(Nat)
         /\ pc[t] = "pi_write" => pBuffer[t] \in Seq(Nat)
BY FifoTypes, CallersRun DEF Inv, TypeOK

\* Every step keeps the positions and the number of bytes in agreement.
LEMMA RingStep ==
  ASSUME Inv, [Next]_vars
  PROVE  RingOK'
<1> RingOK
  BY InvRing
<1>1. CASE UNCHANGED ring
  BY <1>1 DEF ring, RingOK
<1>2. ASSUME NEW t \in Threads, pi_close(t) PROVE RingOK'
  <2>1. CASE UNCHANGED <<pn_nOutPos, pn_nInPos, pn_nBytesInBuffer>>
    BY <1>1, <1>2, <2>1 DEF pi_close, ring
  <2>2. CASE Reset
    <3>1. PIPE_BUF \in Nat \ {0} /\ (0 + 0) % PIPE_BUF = 0
      BY FifoTypes
    <3> QED BY <1>2, <2>2, <3>1 DEF pi_close, Reset, RingOK
  <2> QED BY <1>2, <2>1, <2>2 DEF pi_close
<1>3. ASSUME NEW t \in Threads, pi_read(t) \/ pi_read_resume(t) PROVE RingOK'
  BY <1>3, ReadLoopRing, CallersRun DEF pi_read, pi_read_resume
<1>4. ASSUME NEW t \in Threads, pi_write(t) \/ pi_write_resume(t) PROVE RingOK'
  BY <1>4, WriteLoopRing, WriteInput DEF pi_write, pi_write_resume
<1>5. ASSUME NEW t \in Threads,
             \/ pi_open(t) \/ suspend_returns(t) \/ pi_open_resume(t) \/ pi_setflags(t)
             \/ pi_add_select_req(t) \/ pi_rem_select_req(t) \/ send_signal(t)
      PROVE  UNCHANGED ring
  BY <1>5 DEF pi_open, suspend_returns, pi_open_resume, pi_setflags, pi_add_select_req,
              pi_rem_select_req, send_signal
<1>6. CASE UNCHANGED vars
  BY <1>1, <1>6 DEF vars
<1> QED BY <1>1, <1>2, <1>3, <1>4, <1>5, <1>6 DEF Next, Continue

-----------------------------------------------------------------------------
(* What the calls and the files remember.                                  *)

DataOK ==
  /\ nSeq \in [Threads -> 0..MaxOpens] /\ nLen \in [Readers -> ReadLens \cup {0}]
  /\ pBuffer \in [Writers -> Seq(Nat)]
  /\ nonblock \subseteq {t \in Threads : pc[t] # "closed"}
  /\ sr_bReady \subseteq {t \in Threads : pc[t] = "select"}
  /\ \A t \in Threads : pc[t] = "pi_open" => t \notin nonblock
  /\ \A t \in Readers : pc[t] # "pi_write" /\ (pc[t] = "pi_read" => nLen[t] \in ReadLens)
  /\ \A t \in Writers : pc[t] # "pi_read" /\ IF pc[t] = "pi_write"
                                             THEN pBuffer[t] # <<>> \/ <<>> \in Payloads[t]
                                             ELSE pBuffer[t] = <<>>

\* Inv is the parts proved here.
LEMMA InvParts == Inv <=> SchedOK /\ CountsOK /\ RingOK /\ DataOK /\ OpenRendezvous
BY DEF Inv, TypeOK, InPlace, SchedOK, CountsOK, RingOK, DataOK, Files

\* What is left to write is a sequence of bytes, and pi_write goes on only if
\* there is something left.
LEMMA RestIs ==
  ASSUME NEW d \in Seq(Nat), NEW k \in 0..Len(d)
  PROVE  Rest(d, k) \in Seq(Nat)
BY DEF Rest

\* A turn of the open loop keeps what is known of the data.
LEMMA OpenLoopData ==
  ASSUME Inv, NEW t \in Threads, pc[t] \in {"closed", "pi_open"},
         NEW b, NEW seq \in 0..MaxOpens, NEW W, OpenLoop(t, b, seq, W),
         nonblock' = (IF b THEN nonblock \cup {t} ELSE nonblock),
         UNCHANGED <<nLen, pBuffer, sr_bReady>>
  PROVE  DataOK'
<1>0. DataOK /\ SchedOK /\ 0 \in 0..MaxOpens
  BY InvParts, FifoTypes
<1>1. /\ nSeq' \in [Threads -> 0..MaxOpens]
      /\ pc' = [pc EXCEPT ![t] = "open"] \/ (pc' = [pc EXCEPT ![t] = "pi_open"] /\ ~b)
  BY <1>0 DEF OpenLoop, Returns, Sleeps, DataOK
<1>2. \A u \in Threads : u # t => pc'[u] = pc[u]
  BY <1>0, <1>1 DEF SchedOK
<1>3. pc'[t] \in {"open", "pi_open"} /\ (b => pc'[t] = "open")
  BY <1>0, <1>1 DEF SchedOK
<1>4. t \notin nonblock /\ t \notin sr_bReady
  BY <1>0 DEF DataOK
<1>5. nonblock' \subseteq {u \in Threads : pc'[u] # "closed"}
  BY <1>0, <1>2, <1>3 DEF DataOK
<1>6. sr_bReady' \subseteq {u \in Threads : pc'[u] = "select"}
  BY <1>0, <1>2, <1>4 DEF DataOK
<1>7. \A u \in Threads : pc'[u] = "pi_open" => u \notin nonblock'
  BY <1>0, <1>2, <1>3, <1>4 DEF DataOK
<1>8. \A u \in Readers : pc'[u] # "pi_write" /\ (pc'[u] = "pi_read" => nLen'[u] \in ReadLens)
  BY <1>0, <1>2, <1>3 DEF DataOK, Threads
<1>9. \A u \in Writers : pc'[u] # "pi_read" /\ IF pc'[u] = "pi_write"
                                               THEN pBuffer'[u] # <<>> \/ <<>> \in Payloads[u]
                                               ELSE pBuffer'[u] = <<>>
  BY <1>0, <1>2, <1>3 DEF DataOK, Threads
<1> QED BY <1>0, <1>1, <1>5, <1>6, <1>7, <1>8, <1>9 DEF DataOK

\* A turn of the read loop keeps it.
LEMMA ReadLoopData ==
  ASSUME Inv, NEW t \in Readers, pc[t] \in {"open", "pi_read"}, NEW n \in ReadLens, ReadLoop(t, n)
  PROVE  DataOK'
<1>0. DataOK /\ SchedOK /\ t \in Threads /\ t \notin Writers
  BY InvParts, FifoTypes DEF Threads
<1>1. /\ UNCHANGED <<nSeq, pBuffer, nonblock>>
      /\ \/ pc' = [pc EXCEPT ![t] = "open"] /\ nLen' = [nLen EXCEPT ![t] = 0]
         \/ pc' = [pc EXCEPT ![t] = "pi_read"] /\ nLen' = [nLen EXCEPT ![t] = n]
      /\ \/ UNCHANGED sr_bReady
         \/ pi_notify_write_select
  BY DEF ReadLoop, Returns, Sleeps
<1>2. /\ \A u \in Threads : u # t => pc'[u] = pc[u]
      /\ \A u \in Readers : u # t => nLen'[u] = nLen[u]
      /\ nLen' \in [Readers -> ReadLens \cup {0}]
      /\ pc'[t] \in {"open", "pi_read"} /\ (pc'[t] = "pi_read" => nLen'[t] \in ReadLens)
  BY <1>0, <1>1 DEF SchedOK, DataOK
<1>3. sr_bReady' \subseteq {u \in Threads : pc'[u] = "select"}
  BY <1>0, <1>1, <1>2 DEF DataOK, pi_notify_write_select, Threads
<1>4. \A u \in Threads : pc'[u] = "pi_open" => u \notin nonblock'
  BY <1>0, <1>1, <1>2 DEF DataOK
<1>5. \A u \in Readers : pc'[u] # "pi_write" /\ (pc'[u] = "pi_read" => nLen'[u] \in ReadLens)
  BY <1>0, <1>2 DEF DataOK, Threads
<1>6. \A u \in Writers : pc'[u] # "pi_read" /\ IF pc'[u] = "pi_write"
                                               THEN pBuffer'[u] # <<>> \/ <<>> \in Payloads[u]
                                               ELSE pBuffer'[u] = <<>>
  BY <1>0, <1>1, <1>2 DEF DataOK, Threads
<1> QED BY <1>0, <1>1, <1>2, <1>3, <1>4, <1>5, <1>6 DEF DataOK

\* A turn of the write loop keeps it.
LEMMA WriteLoopData ==
  ASSUME Inv, NEW t \in Writers, pc[t] \in {"open", "pi_write"}, NEW d \in Seq(Nat),
         d # <<>> \/ <<>> \in Payloads[t], WriteLoop(t, d)
  PROVE  DataOK'
<1>0. DataOK /\ SchedOK /\ t \in Threads /\ t \notin Readers /\ RingOK
  BY InvParts, FifoTypes DEF Threads
<1> DEFINE k == Lesser(Len(d), PIPE_BUF - pn_nBytesInBuffer)
<1>1. Rest(d, k) \in Seq(Nat)
  <2>1. Len(d) \in Nat /\ PIPE_BUF - pn_nBytesInBuffer \in Nat
    BY <1>0, FifoTypes DEF RingOK
  <2>2. k \in 0..Len(d)
    BY <2>1, LesserIs
  <2> QED BY <2>2, RestIs
<1>2. /\ UNCHANGED <<nSeq, nLen, nonblock>>
      /\ \/ pc' = [pc EXCEPT ![t] = "open"] /\ pBuffer' = [pBuffer EXCEPT ![t] = <<>>]
         \/ /\ pc' = [pc EXCEPT ![t] = "pi_write"]
            /\ \/ pBuffer' = [pBuffer EXCEPT ![t] = d]
               \/ Rest(d, k) # <<>> /\ pBuffer' = [pBuffer EXCEPT ![t] = Rest(d, k)]
      /\ \/ UNCHANGED sr_bReady
         \/ pi_notify_read_select
  BY DEF WriteLoop, WriteReturns, Returns, Goes, Sleeps
<1> HIDE DEF k
<1>3. /\ \A u \in Threads : u # t => pc'[u] = pc[u]
      /\ pc'[t] \in {"open", "pi_write"}
  BY <1>0, <1>2 DEF SchedOK
<1>4. /\ \A u \in Writers : u # t => pBuffer'[u] = pBuffer[u]
      /\ pBuffer' \in [Writers -> Seq(Nat)]
      /\ IF pc'[t] = "pi_write" THEN pBuffer'[t] # <<>> \/ <<>> \in Payloads[t] ELSE pBuffer'[t] = <<>>
  <2>1. <<>> \in Seq(Nat)
    OBVIOUS
  <2>2. pBuffer \in [Writers -> Seq(Nat)] /\ pc \in [Threads -> Calls \cup {"closed", "open", "select"}]
    BY <1>0 DEF DataOK, SchedOK
  <2> QED BY <1>0, <1>1, <1>2, <2>1, <2>2
<1>5. sr_bReady' \subseteq {u \in Threads : pc'[u] = "select"}
  BY <1>0, <1>2, <1>3 DEF DataOK, pi_notify_read_select, Threads
<1>6. \A u \in Threads : pc'[u] = "pi_open" => u \notin nonblock'
  BY <1>0, <1>2, <1>3 DEF DataOK
<1>7. \A u \in Readers : pc'[u] # "pi_write" /\ (pc'[u] = "pi_read" => nLen'[u] \in ReadLens)
  BY <1>0, <1>2, <1>3 DEF DataOK, Threads
<1>8. \A u \in Writers : pc'[u] # "pi_read" /\ IF pc'[u] = "pi_write"
                                               THEN pBuffer'[u] # <<>> \/ <<>> \in Payloads[u]
                                               ELSE pBuffer'[u] = <<>>
  BY <1>0, <1>3, <1>4 DEF DataOK, Threads
<1>9. nonblock' \subseteq {u \in Threads : pc'[u] # "closed"}
  BY <1>0, <1>2, <1>3 DEF DataOK
<1> QED BY <1>0, <1>2, <1>4, <1>5, <1>6, <1>7, <1>8, <1>9 DEF DataOK

\* Every step keeps what the calls and the files remember.
LEMMA DataStep ==
  ASSUME Inv, [Next]_vars
  PROVE  DataOK'
<1>0. DataOK /\ SchedOK /\ CountsOK
  BY InvParts
<1>1. ASSUME NEW t \in Threads, pi_open(t) PROVE DataOK'
  <2>1. OtherSeq(t) \in 0..MaxOpens
    BY <1>0 DEF OtherSeq, CountsOK
  <2>2. PICK b \in {FALSE, (t \in NonBlockers)} :
          /\ nonblock' = IF b THEN nonblock \cup {t} ELSE nonblock
          /\ OpenLoop(t, b, OtherSeq(t), OpenWakes(t))
    BY <1>1 DEF pi_open
  <2> QED BY <1>1, <2>1, <2>2, OpenLoopData DEF pi_open
<1>2. ASSUME NEW t \in Threads, pi_close(t) PROVE DataOK'
  <2>1. /\ pc[t] = "open" /\ pc' = [pc EXCEPT ![t] = "closed"] /\ nonblock' = nonblock \ {t}
        /\ pi_notify_write_select \/ pi_notify_read_select
        /\ UNCHANGED <<nSeq, nLen, pBuffer>>
    BY <1>2 DEF pi_close, Returns
  <2>2. pc'[t] = "closed" /\ \A u \in Threads : u # t => pc'[u] = pc[u]
    BY <1>0, <2>1 DEF SchedOK
  <2>3. sr_bReady' \subseteq {u \in Threads : pc'[u] = "select"}
    BY <1>0, <2>1, <2>2 DEF DataOK, pi_notify_read_select, pi_notify_write_select, Threads
  <2> QED BY <1>0, <2>1, <2>2, <2>3 DEF DataOK, Threads
<1>3. ASSUME NEW t \in Threads, pi_read(t) \/ pi_read_resume(t) PROVE DataOK'
  BY <1>3, ReadLoopData, CallersRun DEF pi_read, pi_read_resume
<1>4. ASSUME NEW t \in Threads, pi_write(t) \/ pi_write_resume(t) PROVE DataOK'
  <2>1. CASE pi_write(t)
    <3>1. PICK d \in Payloads[t] : WriteLoop(t, d)
      BY <2>1 DEF pi_write
    <3>2. t \in Writers /\ pc[t] = "open" /\ d \in Seq(Nat) /\ (d # <<>> \/ <<>> \in Payloads[t])
      BY <2>1, WriteInput DEF pi_write
    <3> QED BY <3>1, <3>2, WriteLoopData
  <2>2. CASE pi_write_resume(t)
    <3>1. t \in Writers /\ pc[t] = "pi_write" /\ WriteLoop(t, pBuffer[t]) /\ pBuffer[t] \in Seq(Nat)
      BY <2>2, CallersRun, WriteInput DEF pi_write_resume
    <3>2. pBuffer[t] # <<>> \/ <<>> \in Payloads[t]
      BY <1>0, <3>1 DEF DataOK
    <3> QED BY <3>1, <3>2, WriteLoopData
  <2> QED BY <1>4, <2>1, <2>2
<1>5. ASSUME NEW t \in Threads, suspend_returns(t) PROVE DataOK'
  <2>1. CASE UNCHANGED <<pc, nSeq, nLen, pBuffer>>
    BY <1>0, <1>5, <2>1 DEF suspend_returns, DataOK
  <2>2. CASE /\ pc' = [pc EXCEPT ![t] = IF @ = "pi_open" THEN "closed" ELSE "open"]
             /\ nSeq' = [nSeq EXCEPT ![t] = 0]
             /\ nLen' = [r \in Readers |-> IF r = t THEN 0 ELSE nLen[r]]
             /\ pBuffer' = [w \in Writers |-> IF w = t THEN <<>> ELSE pBuffer[w]]
    <3>1. /\ \A u \in Threads : u # t => pc'[u] = pc[u]
          /\ pc'[t] = IF pc[t] = "pi_open" THEN "closed" ELSE "open"
      BY <1>0, <2>2 DEF SchedOK
    <3>2. pc[t] \in Calls
      BY <1>5, CallersRun DEF suspend_returns
    <3>3. UNCHANGED <<nonblock, sr_bReady>>
      BY <1>5 DEF suspend_returns
    <3>4. nSeq' \in [Threads -> 0..MaxOpens] /\ nLen' \in [Readers -> ReadLens \cup {0}]
      BY <1>0, <2>2, FifoTypes DEF DataOK
    <3>5. pBuffer' \in [Writers -> Seq(Nat)]
      <4>1. <<>> \in Seq(Nat)
        OBVIOUS
      <4> QED BY <1>0, <2>2, <4>1 DEF DataOK
    <3>6. sr_bReady' \subseteq {u \in Threads : pc'[u] = "select"}
      BY <1>0, <3>1, <3>2, <3>3 DEF DataOK, Calls
    <3>7. nonblock' \subseteq {u \in Threads : pc'[u] # "closed"}
      BY <1>0, <3>1, <3>3 DEF DataOK
    <3>8. \A u \in Threads : pc'[u] = "pi_open" => u \notin nonblock'
      BY <1>0, <3>1, <3>3 DEF DataOK
    <3>9. \A u \in Readers : pc'[u] # "pi_write" /\ (pc'[u] = "pi_read" => nLen'[u] \in ReadLens)
      BY <1>0, <2>2, <3>1 DEF DataOK, Threads
    <3>10. \A u \in Writers : pc'[u] # "pi_read" /\ IF pc'[u] = "pi_write"
                                                    THEN pBuffer'[u] # <<>> \/ <<>> \in Payloads[u]
                                                    ELSE pBuffer'[u] = <<>>
      BY <1>0, <2>2, <3>1 DEF DataOK, Threads
    <3> QED BY <3>4, <3>5, <3>6, <3>7, <3>8, <3>9, <3>10 DEF DataOK
  <2> QED BY <1>5, <2>1, <2>2 DEF suspend_returns
<1>6. ASSUME NEW t \in Threads, pi_open_resume(t) PROVE DataOK'
  <2>1. nSeq[t] \in 0..MaxOpens
    BY <1>0 DEF DataOK
  <2> QED BY <1>6, <2>1, OpenLoopData DEF pi_open_resume
<1>7. ASSUME NEW t \in Threads, pi_setflags(t) PROVE DataOK'
  BY <1>0, <1>7 DEF pi_setflags, sched, DataOK
<1>8. ASSUME NEW t \in Threads, pi_add_select_req(t) \/ pi_rem_select_req(t) PROVE DataOK'
  <2>1. /\ UNCHANGED <<nSeq, nLen, pBuffer, nonblock>>
        /\ pc'[t] \in {"open", "select"} /\ pc[t] \in {"open", "select"}
        /\ \A u \in Threads : u # t => pc'[u] = pc[u]
        /\ sr_bReady' \subseteq {u \in Threads : pc'[u] = "select"}
    BY <1>0, <1>8 DEF pi_add_select_req, pi_rem_select_req, SchedOK, DataOK
  <2> QED BY <1>0, <2>1 DEF DataOK, Threads
<1>9. ASSUME NEW t \in Threads, send_signal(t) PROVE DataOK'
  BY <1>0, <1>9 DEF send_signal, DataOK
<1>10. CASE UNCHANGED vars
  BY <1>0, <1>10 DEF vars, sched, DataOK
<1> QED BY <1>1, <1>2, <1>3, <1>4, <1>5, <1>6, <1>7, <1>8, <1>9, <1>10 DEF Next, Continue

-----------------------------------------------------------------------------
(* Nobody is left behind in pi_open.                                       *)

\* Nobody but the thread itself puts a thread to sleep or moves its call on.
LEMMA OthersAlone ==
  ASSUME Inv, NEW t \in Threads,
         \/ pi_open(t) \/ pi_close(t) \/ pi_read(t) \/ pi_write(t) \/ Continue(t)
         \/ pi_setflags(t) \/ pi_add_select_req(t) \/ pi_rem_select_req(t) \/ send_signal(t)
  PROVE  \A u \in Threads \ {t} : /\ pc'[u] = pc[u] /\ nSeq'[u] = nSeq[u]
                                  /\ tr_nState'[u] = "asleep" => tr_nState[u] = "asleep"
<1>0. /\ pc \in [Threads -> Calls \cup {"closed", "open", "select"}]
      /\ tr_nState \in [Threads -> {"run", "asleep", "ready"}]
      /\ nSeq \in [Threads -> 0..MaxOpens]
  BY DEF Inv, TypeOK
<1>1. CASE pi_open(t) \/ pi_open_resume(t)
  BY <1>0, <1>1 DEF pi_open, pi_open_resume, OpenLoop, Returns, Sleeps
<1>2. CASE pi_close(t)
  BY <1>0, <1>2 DEF pi_close, Returns
<1>3. CASE pi_read(t) \/ pi_read_resume(t)
  <2>1. PICK n : ReadLoop(t, n)
    BY <1>3 DEF pi_read, pi_read_resume
  <2> QED BY <1>0, <2>1 DEF ReadLoop, Returns, Sleeps
<1>4. CASE pi_write(t) \/ pi_write_resume(t)
  <2>1. PICK d : WriteLoop(t, d)
    BY <1>4 DEF pi_write, pi_write_resume
  <2>2. UNCHANGED nSeq
    BY <2>1 DEF WriteLoop
  <2>3. \E W : \/ Returns(t, "open", W) \/ Goes(t, "pi_write", W)
               \/ Sleeps(t, "pi_write", "pn_hWriteSema", W)
    BY <2>1 DEF WriteLoop, WriteReturns
  <2> QED BY <1>0, <2>2, <2>3 DEF Returns, Goes, Sleeps
<1>5. CASE suspend_returns(t)
  BY <1>0, <1>5 DEF suspend_returns
<1>6. CASE pi_setflags(t) \/ pi_add_select_req(t) \/ pi_rem_select_req(t) \/ send_signal(t)
  BY <1>0, <1>6 DEF pi_setflags, pi_add_select_req, pi_rem_select_req, send_signal, sched
<1> QED BY <1>1, <1>2, <1>3, <1>4, <1>5, <1>6 DEF Continue

\* A thread that sleeps in pi_open after a step has just found the other side
\* empty, or slept there before.
LEMMA OpenSleeper ==
  ASSUME Inv, [Next]_vars, NEW u \in Threads, pc'[u] = "pi_open", tr_nState'[u] = "asleep"
  PROVE  \/ Others(u)' = 0 /\ OtherSeq(u)' = nSeq'[u]
         \/ pc[u] = "pi_open" /\ tr_nState[u] = "asleep" /\ nSeq'[u] = nSeq[u]
<1>0. /\ pc \in [Threads -> Calls \cup {"closed", "open", "select"}]
      /\ tr_nState \in [Threads -> {"run", "asleep", "ready"}]
      /\ nSeq \in [Threads -> 0..MaxOpens]
      /\ Readers \cap Writers = {}
  BY FifoTypes DEF Inv, TypeOK
<1>1. ASSUME NEW b, NEW seq, NEW W, OpenLoop(u, b, seq, W)
      PROVE  Others(u) = 0 /\ OtherSeq(u) = seq /\ nSeq'[u] = seq
  BY <1>0, <1>1 DEF OpenLoop, Returns
<1>2. CASE pi_open(u)
  <2>1. Others(u) = 0 /\ OtherSeq(u) = nSeq'[u]
    BY <1>1, <1>2 DEF pi_open
  <2>2. pn_nReadOpenSeq \in Nat /\ pn_nWriteOpenSeq \in Nat
    BY FifoTypes DEF Inv, TypeOK
  <2>3. Others(u)' = Others(u) /\ OtherSeq(u)' = OtherSeq(u)
    BY <1>0, <1>2, <2>2 DEF pi_open, Attach, Others, OtherSeq, Threads
  <2> QED BY <2>1, <2>3
<1>3. CASE pi_open_resume(u)
  <2>1. Others(u) = 0 /\ OtherSeq(u) = nSeq'[u]
    BY <1>1, <1>3 DEF pi_open_resume
  <2>2. Others(u)' = Others(u) /\ OtherSeq(u)' = OtherSeq(u)
    BY <1>3 DEF pi_open_resume, Others, OtherSeq, counts
  <2> QED BY <2>1, <2>2
<1>4. CASE pi_read(u) \/ pi_read_resume(u)
  <2>1. PICK n : ReadLoop(u, n)
    BY <1>4 DEF pi_read, pi_read_resume
  <2> QED BY <1>0, <2>1 DEF ReadLoop, Returns, Sleeps
<1>5. CASE pi_write(u) \/ pi_write_resume(u)
  <2>1. PICK d : WriteLoop(u, d)
    BY <1>5 DEF pi_write, pi_write_resume
  <2>2. \E W : \/ Returns(u, "open", W) \/ Goes(u, "pi_write", W)
               \/ Sleeps(u, "pi_write", "pn_hWriteSema", W)
    BY <2>1 DEF WriteLoop, WriteReturns
  <2> QED BY <1>0, <2>2 DEF Returns, Goes, Sleeps
<1>6. CASE pi_close(u) \/ suspend_returns(u) \/ pi_add_select_req(u) \/ pi_rem_select_req(u)
  BY <1>0, <1>6 DEF pi_close, Returns, suspend_returns, pi_add_select_req, pi_rem_select_req
<1>7. CASE pi_setflags(u) \/ send_signal(u) \/ UNCHANGED vars
  BY <1>0, <1>7 DEF pi_setflags, send_signal, sched, vars
<1>8. ASSUME NEW t \in Threads \ {u},
             \/ pi_open(t) \/ pi_close(t) \/ pi_read(t) \/ pi_write(t) \/ Continue(t)
             \/ pi_setflags(t) \/ pi_add_select_req(t) \/ pi_rem_select_req(t) \/ send_signal(t)
      PROVE  pc[u] = "pi_open" /\ tr_nState[u] = "asleep" /\ nSeq'[u] = nSeq[u]
  BY <1>8, OthersAlone
<1> QED BY <1>2, <1>3, <1>4, <1>5, <1>6, <1>7, <1>8 DEF Next, Continue

\* A file that is opened wakes everybody who waits for its side in pi_open, and
\* one can be given back only if there is one, so nobody sleeps beside it.
LEMMA RendezvousStep ==
  ASSUME Inv, [Next]_vars
  PROVE  OpenRendezvous'
<1>0. SchedOK /\ CountsOK /\ OpenRendezvous /\ Readers \cap Writers = {}
  BY InvParts, FifoTypes
<1> SUFFICES ASSUME NEW u \in Threads, pc'[u] = "pi_open", tr_nState'[u] = "asleep"
             PROVE  Others(u)' = 0 /\ OtherSeq(u)' = nSeq'[u]
  BY DEF OpenRendezvous
<1> SUFFICES ASSUME pc[u] = "pi_open", tr_nState[u] = "asleep", nSeq'[u] = nSeq[u]
             PROVE  Others(u)' = 0 /\ OtherSeq(u)' = nSeq'[u]
  BY OpenSleeper
<1>1. Others(u) = 0 /\ OtherSeq(u) = nSeq[u]
  BY <1>0 DEF OpenRendezvous
<1>2. CASE FilesKept
  BY <1>1, <1>2 DEF FilesKept, counts, Others, OtherSeq
<1>3. ASSUME NEW t \in Threads, pi_open(t), Opened(t)
      PROVE  Others(u)' = 0 /\ OtherSeq(u)' = nSeq'[u]
  <2>1. u \in Members(queue[OpenQueue(u)])
    BY <1>0 DEF SchedOK, CallQueue
  <2>2. CASE u \in Readers <=> t \in Readers
    <3>1. pn_nReadOpenSeq \in Nat /\ pn_nWriteOpenSeq \in Nat
      BY <1>0, FifoTypes DEF CountsOK
    <3> QED BY <1>0, <1>1, <1>3, <2>2, <3>1 DEF Opened, Attach, Others, OtherSeq, Threads
  <2>3. CASE ~(u \in Readers <=> t \in Readers)
    <3>1. u \in OpenWakes(t)
      BY <2>1, <2>3 DEF OpenWakes, OpenQueue, OtherQueue, Woken
    <3>2. u # t
      BY <2>3
    <3>3. \A b, seq : OpenLoop(t, b, seq, OpenWakes(t)) => tr_nState'[u] = "ready"
      BY <3>1, <3>2 DEF OpenLoop, Returns, Sleeps
    <3> QED BY <1>3, <3>3 DEF pi_open
  <2> QED BY <2>2, <2>3
<1>4. ASSUME NEW t \in Threads, GivenBack(t)
      PROVE  Others(u)' = 0 /\ OtherSeq(u)' = nSeq'[u]
  <2>1. u \in Readers <=> t \in Readers
    BY <1>0, <1>1, <1>4, CountZero DEF GivenBack, Others, Threads
  <2> QED BY <1>1, <1>4, <2>1 DEF GivenBack, Detach, Others, OtherSeq
<1> QED BY <1>2, <1>3, <1>4, FileStep

\* The node starts in order.
LEMMA FifoInit == Init => Inv
<1> SUFFICES ASSUME Init PROVE Inv
  OBVIOUS
<1> USE DEF Init
<1>1. <<>> \in Seq(Threads) /\ <<>> \in Seq(Nat) /\ Members(<<>>) = {} /\ OneNodeEach(<<>>)
  BY DEF Members, OneNodeEach
<1>2. SchedOK
  BY <1>1 DEF SchedOK
<1>3. CountsOK
  <2>1. Files(Readers) = {} /\ Files(Writers) = {} /\ Cardinality({}) = 0
    BY FS_EmptySet DEF Files, Threads
  <2> QED BY <2>1, FifoTypes DEF CountsOK
<1>4. RingOK
  <2>1. PIPE_BUF \in Nat \ {0} /\ (0 + 0) % PIPE_BUF = 0
    BY FifoTypes
  <2> QED BY <2>1 DEF RingOK
<1>5. DataOK
  BY <1>1, FifoTypes DEF DataOK, Threads
<1>6. OpenRendezvous
  BY DEF OpenRendezvous
<1> QED BY <1>2, <1>3, <1>4, <1>5, <1>6, InvParts

\* The node, its files, its rings and the calls agree in every reachable state,
\* and no thread sleeps in pi_open beside a file of the other side.
THEOREM FifoInv == Spec => []Inv
<1>1. Inv /\ [Next]_vars => Inv'
  <2> SUFFICES ASSUME Inv, [Next]_vars PROVE Inv'
    OBVIOUS
  <2>1. SchedOK' /\ CountsOK' /\ RingOK' /\ DataOK' /\ OpenRendezvous'
    BY SchedStep, CountsStep, RingStep, DataStep, RendezvousStep
  <2> QED BY <2>1, InvParts DEF Inv, TypeOK, InPlace, SchedOK, CountsOK, RingOK, DataOK, Files
<1> QED BY <1>1, FifoInit, PTL DEF Spec

-----------------------------------------------------------------------------
(* Nobody is forgotten in pi_read or in select.                            *)

ReadersAwake ==
  \A t \in Readers : pc[t] = "pi_read" /\ tr_nState[t] = "asleep" =>
    pn_nWriters # 0 /\ (Readers = {t} => pn_nBytesInBuffer = 0)
SelectsTold  == \A t \in Threads : pc[t] = "select" /\ t \notin sr_bReady => ~Ready(t)

\* How full the buffer is changes only in these steps.
LEMMA BytesStep ==
  ASSUME [Next]_vars
  PROVE  \/ UNCHANGED pn_nBytesInBuffer
         \/ \E t \in Threads : pi_close(t) /\ t \in Readers
         \/ \E t \in Threads : (pi_read(t) \/ pi_read_resume(t)) /\ pn_nBytesInBuffer > 0
                             /\ pi_notify_write_select
         \/ \E t \in Threads : /\ pi_write(t) \/ pi_write_resume(t)
                             /\ pn_nBytesInBuffer < PIPE_BUF
                             /\ pi_notify_read_select
<1>1. ASSUME NEW t \in Threads, pi_close(t)
      PROVE  t \in Readers \/ UNCHANGED pn_nBytesInBuffer
  BY <1>1 DEF pi_close
<1>2. ASSUME NEW t \in Threads, pi_read(t) \/ pi_read_resume(t)
      PROVE  \/ UNCHANGED pn_nBytesInBuffer
             \/ pn_nBytesInBuffer > 0 /\ pi_notify_write_select
  BY <1>2 DEF pi_read, pi_read_resume, ReadLoop
<1>3. ASSUME NEW t \in Threads, pi_write(t) \/ pi_write_resume(t)
      PROVE  \/ UNCHANGED pn_nBytesInBuffer
             \/ pn_nBytesInBuffer < PIPE_BUF /\ pi_notify_read_select
  BY <1>3 DEF pi_write, pi_write_resume, WriteLoop
<1>4. ASSUME NEW t \in Threads,
             \/ pi_open(t) \/ suspend_returns(t) \/ pi_open_resume(t) \/ pi_setflags(t)
             \/ pi_add_select_req(t) \/ pi_rem_select_req(t) \/ send_signal(t)
      PROVE  UNCHANGED pn_nBytesInBuffer
  BY <1>4 DEF pi_open, suspend_returns, pi_open_resume, pi_setflags, pi_add_select_req,
              pi_rem_select_req, send_signal, ring
<1>5. CASE UNCHANGED vars
  BY <1>5 DEF vars, ring
<1> QED BY <1>1, <1>2, <1>3, <1>4, <1>5 DEF Next, Continue

\* If no open is interrupted, a file is given back by pi_close only.
LEMMA OnlyCloseGivesBack ==
  ASSUME Inv, [Next]_vars, "pi_open" \notin Interrupted
  PROVE  \/ \E t \in Threads : Opened(t)
         \/ \E t \in Threads : pi_close(t) /\ GivenBack(t)
         \/ FilesKept
<1>1. \A t \in Threads : t \in tr_nSigPend => pc[t] # "pi_open"
  BY DEF Inv, TypeOK
<1> QED BY <1>1, FileStep

\* A reader that sleeps in pi_read is in the ring of readers, and the only one is
\* its head.
LEMMA ReaderInRing ==
  ASSUME Inv, NEW t \in Readers, pc[t] = "pi_read", tr_nState[t] = "asleep"
  PROVE  /\ t \in Woken("pn_hReadSema", TRUE)
         /\ Readers = {t} => t \in Woken("pn_hReadSema", FALSE)
<1>0. SchedOK /\ t \in Threads /\ "pn_hReadSema" \in Queues
  BY InvSched DEF Threads, Queues
<1> DEFINE q == queue["pn_hReadSema"]
<1>1. t \in Members(q)
  BY <1>0 DEF SchedOK, CallQueue
<1>2. q \in Seq(Threads)
  BY <1>0 DEF SchedOK
<1>3. \A u \in Members(q) : u \in Readers
  <2> SUFFICES ASSUME NEW u \in Members(q) PROVE u \in Readers
    OBVIOUS
  <2>1. u \in Threads
    BY <1>2, RingMembers
  <2>2. pc[u] \in Calls /\ "pn_hReadSema" = CallQueue(u)
    BY <1>0, <2>1 DEF SchedOK
  <2>3. pc[u] = "pi_read"
    BY <2>2 DEF CallQueue, OpenQueue, Calls
  <2> QED BY <2>1, <2>3, CallersRun
<1>4. q # <<>>
  BY <1>1 DEF Members
<1>5. Readers = {t} => Head(q) = t
  BY <1>2, <1>3, <1>4, RingMembers
<1> QED BY <1>1, <1>4, <1>5 DEF Woken

\* A reader that sleeps in pi_read after a step has just found nothing to read
\* and a writer, or slept there before.
LEMMA ReadSleeper ==
  ASSUME Inv, [Next]_vars, NEW u \in Readers, pc'[u] = "pi_read", tr_nState'[u] = "asleep"
  PROVE  \/ pn_nWriters' # 0 /\ pn_nBytesInBuffer' = 0
         \/ pc[u] = "pi_read" /\ tr_nState[u] = "asleep"
<1>0. /\ pc \in [Threads -> Calls \cup {"closed", "open", "select"}]
      /\ tr_nState \in [Threads -> {"run", "asleep", "ready"}]
      /\ u \in Threads /\ u \notin Writers
  BY FifoTypes DEF Inv, TypeOK, Threads
<1>1. CASE pi_read(u) \/ pi_read_resume(u)
  <2>1. PICK n : ReadLoop(u, n)
    BY <1>1 DEF pi_read, pi_read_resume
  <2> QED BY <1>0, <2>1 DEF ReadLoop, Returns, Sleeps, Ready, Others, counts
<1>2. CASE pi_open(u) \/ pi_open_resume(u)
  <2>1. PICK b, seq, W : OpenLoop(u, b, seq, W)
    BY <1>2 DEF pi_open, pi_open_resume
  <2> QED BY <1>0, <2>1 DEF OpenLoop, Returns, Sleeps
<1>3. CASE pi_write(u) \/ pi_write_resume(u)
  BY <1>0, <1>3, CallersRun DEF pi_write, pi_write_resume
<1>4. CASE pi_close(u) \/ suspend_returns(u) \/ pi_add_select_req(u) \/ pi_rem_select_req(u)
  BY <1>0, <1>4 DEF pi_close, Returns, suspend_returns, pi_add_select_req, pi_rem_select_req
<1>5. CASE pi_setflags(u) \/ send_signal(u) \/ UNCHANGED vars
  BY <1>0, <1>5 DEF pi_setflags, send_signal, sched, vars
<1>6. ASSUME NEW t \in Threads \ {u},
             \/ pi_open(t) \/ pi_close(t) \/ pi_read(t) \/ pi_write(t) \/ Continue(t)
             \/ pi_setflags(t) \/ pi_add_select_req(t) \/ pi_rem_select_req(t) \/ send_signal(t)
      PROVE  pc[u] = "pi_read" /\ tr_nState[u] = "asleep"
  BY <1>0, <1>6, OthersAlone
<1> QED BY <1>0, <1>1, <1>2, <1>3, <1>4, <1>5, <1>6 DEF Next, Continue

\* A close of a writer wakes all readers, and a write the only one.
LEMMA ReadersAwakeStep ==
  ASSUME Inv, [Next]_vars, ReadersAwake, "pi_open" \notin Interrupted
  PROVE  ReadersAwake'
<1> SUFFICES ASSUME NEW u \in Readers, pc'[u] = "pi_read", tr_nState'[u] = "asleep",
                    pc[u] = "pi_read", tr_nState[u] = "asleep"
             PROVE  pn_nWriters' # 0 /\ (Readers = {u} => pn_nBytesInBuffer' = 0)
  BY ReadSleeper DEF ReadersAwake
<1>0. /\ pn_nWriters # 0 /\ (Readers = {u} => pn_nBytesInBuffer = 0)
      /\ u \in Threads /\ u \notin Writers /\ CountsOK /\ RingOK /\ SchedOK
  BY InvParts, FifoTypes DEF ReadersAwake, Threads
<1>1. /\ u \in Woken("pn_hReadSema", TRUE)
      /\ Readers = {u} => u \in Woken("pn_hReadSema", FALSE)
  BY ReaderInRing
<1>2. ASSUME Readers = {u} PROVE pn_nBytesInBuffer' = 0
  <2>1. ASSUME NEW t \in Threads, pi_close(t), t \in Readers PROVE FALSE
    BY <1>2, <2>1 DEF pi_close
  <2>2. ASSUME NEW t \in Threads, pi_write(t) \/ pi_write_resume(t), pn_nBytesInBuffer < PIPE_BUF
        PROVE  FALSE
    <3>1. PICK d : WriteLoop(t, d)
      BY <2>2 DEF pi_write, pi_write_resume
    <3>2. t # u
      BY <2>2, <1>0 DEF pi_write, pi_write_resume
    <3>3. pn_nBytesInBuffer # PIPE_BUF
      BY <1>0, <2>2, FifoTypes DEF RingOK
    <3>4. LET W == Woken("pn_hReadSema", FALSE) IN
          Returns(t, "open", W) \/ Goes(t, "pi_write", W)
      BY <3>1, <3>3, Zenon DEF WriteLoop, WriteReturns
    <3> QED BY <1>0, <1>1, <1>2, <3>2, <3>4 DEF Returns, Goes
  <2> QED BY <1>0, <1>2, <2>1, <2>2, BytesStep
<1>3. pn_nWriters' # 0
  <2>1. ASSUME NEW t \in Threads, pi_close(t), GivenBack(t) PROVE pn_nWriters' # 0
    <3>1. CASE t \in Readers
      BY <1>0, <2>1, <3>1 DEF GivenBack, Detach
    <3>2. CASE t \notin Readers
      <4>1. u \in CloseWakes(t) /\ Returns(t, "closed", CloseWakes(t))
        BY <1>1, <2>1, <3>2 DEF CloseWakes, pi_close
      <4> QED BY <1>0, <4>1 DEF Returns
    <3> QED BY <3>1, <3>2
  <2>2. ASSUME NEW t \in Threads, Opened(t) PROVE pn_nWriters' # 0
    BY <1>0, <2>2, CountZero DEF Opened, Attach
  <2>3. CASE FilesKept
    BY <1>0, <2>3 DEF FilesKept, counts
  <2> QED BY <2>1, <2>2, <2>3, OnlyCloseGivesBack
<1> QED BY <1>2, <1>3

\* A select that nobody told was there before, or has just found nothing.
LEMMA SelectWaiter ==
  ASSUME Inv, [Next]_vars, NEW u \in Threads, pc'[u] = "select", u \notin sr_bReady'
  PROVE  \/ ~Ready(u)'
         \/ pc[u] = "select" /\ u \notin sr_bReady
<1>0. /\ pc \in [Threads -> Calls \cup {"closed", "open", "select"}]
      /\ sr_bReady \subseteq {t \in Threads : pc[t] = "select"}
  BY DEF Inv, TypeOK
<1>1. CASE pi_add_select_req(u)
  BY <1>0, <1>1 DEF pi_add_select_req, Ready, Others, ring, counts
<1>2. CASE pi_open(u) \/ pi_open_resume(u)
  <2>1. PICK b, seq, W : OpenLoop(u, b, seq, W)
    BY <1>2 DEF pi_open, pi_open_resume
  <2> QED BY <1>0, <2>1 DEF OpenLoop, Returns, Sleeps
<1>3. CASE pi_read(u) \/ pi_read_resume(u) \/ pi_write(u) \/ pi_write_resume(u)
  <2>1. (\E n : ReadLoop(u, n)) \/ (\E d : WriteLoop(u, d))
    BY <1>3 DEF pi_read, pi_read_resume, pi_write, pi_write_resume
  <2>2. \E place \in {"open", "pi_read", "pi_write"} : pc' = [pc EXCEPT ![u] = place]
    BY <2>1 DEF ReadLoop, WriteLoop, WriteReturns, Returns, Goes, Sleeps
  <2> QED BY <1>0, <2>2
<1>4. CASE suspend_returns(u)
  <2>1. pc[u] \in Calls
    BY <1>4, CallersRun DEF suspend_returns
  <2> QED BY <1>0, <1>4, <2>1 DEF suspend_returns, Calls
<1>5. CASE pi_close(u) \/ pi_rem_select_req(u) \/ pi_setflags(u) \/ send_signal(u) \/ UNCHANGED vars
  BY <1>0, <1>5 DEF pi_close, Returns, pi_rem_select_req, pi_setflags, send_signal, sched, vars
<1>6. ASSUME NEW t \in Threads \ {u},
             \/ pi_open(t) \/ pi_close(t) \/ pi_read(t) \/ pi_write(t) \/ Continue(t)
             \/ pi_setflags(t) \/ pi_add_select_req(t) \/ pi_rem_select_req(t) \/ send_signal(t)
      PROVE  pc[u] = "select" /\ u \notin sr_bReady
  <2>1. pc[u] = "select"
    BY <1>6, OthersAlone
  <2>2. sr_bReady \ {t} \subseteq sr_bReady'
    BY <1>6 DEF pi_open, pi_close, pi_read, pi_write, Continue, suspend_returns, pi_open_resume,
                pi_read_resume, pi_write_resume, ReadLoop, WriteLoop, pi_setflags,
                pi_add_select_req, pi_rem_select_req, send_signal,
                pi_notify_read_select, pi_notify_write_select
  <2> QED BY <2>1, <2>2
<1> QED BY <1>1, <1>2, <1>3, <1>4, <1>5, <1>6 DEF Next, Continue

\* Whatever makes a select's wish come true tells it.
LEMMA SelectsToldStep ==
  ASSUME Inv, [Next]_vars, SelectsTold, "pi_open" \notin Interrupted
  PROVE  SelectsTold'
<1> SUFFICES ASSUME NEW u \in Threads, pc'[u] = "select", u \notin sr_bReady',
                    pc[u] = "select", u \notin sr_bReady
             PROVE  ~Ready(u)'
  BY SelectWaiter DEF SelectsTold
<1>0. ~Ready(u) /\ CountsOK /\ RingOK /\ Readers \cap Writers = {}
  BY InvParts, FifoTypes DEF SelectsTold
<1>1. Others(u)' # 0
  <2>0. Others(u) # 0
    BY <1>0 DEF Ready
  <2>1. ASSUME NEW t \in Threads, pi_close(t), GivenBack(t) PROVE Others(u)' # 0
    <3>1. u \in Readers <=> t \in Readers
      BY <1>0, <2>1 DEF pi_close, pi_notify_read_select, pi_notify_write_select, Threads
    <3> QED BY <2>0, <2>1, <3>1 DEF GivenBack, Detach, Others
  <2>2. ASSUME NEW t \in Threads, Opened(t) PROVE Others(u)' # 0
    BY <1>0, <2>0, <2>2, CountZero DEF Opened, Attach, Others
  <2>3. CASE FilesKept
    BY <2>0, <2>3 DEF FilesKept, counts, Others
  <2> QED BY <2>1, <2>2, <2>3, OnlyCloseGivesBack
<1>2. CASE u \in Readers
  <2>0. ~(pn_nBytesInBuffer > 0) /\ pn_nBytesInBuffer = 0
    BY <1>0, <1>2, FifoTypes DEF Ready, RingOK
  <2>1. ~pi_notify_read_select
    BY <1>2 DEF pi_notify_read_select
  <2>2. ASSUME NEW t \in Threads, pi_close(t) PROVE pn_nBytesInBuffer' = 0
    BY <2>0, <2>2 DEF pi_close, Reset
  <2>3. pn_nBytesInBuffer' = 0
    BY <2>0, <2>1, <2>2, BytesStep
  <2> QED BY <1>1, <1>2, <2>3 DEF Ready
<1>3. CASE u \notin Readers
  <2>0. pn_nBytesInBuffer = PIPE_BUF /\ PIPE_BUF \in Nat
    BY <1>0, <1>3, FifoTypes DEF Ready
  <2>1. ~pi_notify_write_select
    BY <1>3 DEF pi_notify_write_select, Threads
  <2>2. ASSUME NEW t \in Threads, pi_close(t), t \in Readers PROVE FALSE
    BY <2>1, <2>2 DEF pi_close
  <2>3. UNCHANGED pn_nBytesInBuffer
    BY <2>0, <2>1, <2>2, BytesStep
  <2> QED BY <1>1, <1>3, <2>0, <2>3 DEF Ready
<1> QED BY <1>2, <1>3

\* If no signal interrupts an open, a reader that sleeps in pi_read has a writer to
\* wait for and, if it is the only reader, nothing to read, and a select that was
\* not told has nothing to report.
THEOREM FifoNotForgotten ==
  ASSUME "pi_open" \notin Interrupted
  PROVE  Spec => []NotForgotten
<1>1. Init => ReadersAwake /\ SelectsTold
  BY DEF Init, ReadersAwake, SelectsTold, Threads
<1>2. Inv /\ ReadersAwake /\ SelectsTold /\ [Next]_vars => (ReadersAwake /\ SelectsTold)'
  BY ReadersAwakeStep, SelectsToldStep
<1>3. ReadersAwake /\ SelectsTold => NotForgotten
  BY DEF ReadersAwake, SelectsTold, NotForgotten
<1> QED BY <1>1, <1>2, <1>3, FifoInv, PTL DEF Spec

-----------------------------------------------------------------------------
(* The ring buffer implements the channel.                                 *)

\* How far the position of the a-th byte is behind the position of the b-th.
LEMMA ModDifference ==
  ASSUME NEW o \in 0..(PIPE_BUF - 1), NEW a \in 0..(PIPE_BUF - 1), NEW b \in 0..PIPE_BUF,
         NEW ma, NEW mb, ma = (o + a) % PIPE_BUF, mb = (o + b) % PIPE_BUF
  PROVE  (ma - mb) % PIPE_BUF = IF a < b THEN a - b + PIPE_BUF ELSE a - b
<1> DEFINE xa == o + a
           xb == o + b
           y  == ma - mb
<1>0. PIPE_BUF \in Nat \ {0}
  BY FifoTypes
<1>1. xa \in 0..(2 * PIPE_BUF - 1) /\ xb \in 0..(2 * PIPE_BUF - 1) /\ xa - xb = a - b
  BY <1>0
<1>8. ma = xa % PIPE_BUF /\ mb = xb % PIPE_BUF
  OBVIOUS
<1> HIDE DEF xa, xb
<1>2. ma = IF xa < PIPE_BUF THEN xa ELSE xa - PIPE_BUF
  BY <1>0, <1>1, <1>8, ModOf
<1>3. mb = IF xb < PIPE_BUF THEN xb ELSE xb - PIPE_BUF
  BY <1>0, <1>1, <1>8, ModOf
<1>4. ma \in 0..(PIPE_BUF - 1) /\ mb \in 0..(PIPE_BUF - 1)
  BY <1>0, <1>1, <1>2, <1>3
<1>5. y \in (-PIPE_BUF)..(PIPE_BUF - 1)
  BY <1>0, <1>4
<1>6. y % PIPE_BUF = IF y < 0 THEN y + PIPE_BUF ELSE y
  <2> HIDE DEF y
  <2> QED BY <1>0, <1>5, ModOfNegative
<1>7. (IF y < 0 THEN y + PIPE_BUF ELSE y) = IF a < b THEN a - b + PIPE_BUF ELSE a - b
  BY <1>0, <1>1, <1>2, <1>3, <1>4
<1> QED BY <1>6, <1>7

\* What a ring buffer b with n bytes from o on holds is a sequence of n bytes.
Held(n, o, b) == [j \in 1..n |-> b[(o + j - 1) % PIPE_BUF]]

\* The bytes in the ring, from the output position on.
LEMMA RingContents ==
  ASSUME NEW n \in Nat, NEW o \in 0..(PIPE_BUF - 1), NEW b \in [0..(PIPE_BUF - 1) -> Nat]
  PROVE  /\ Held(n, o, b) \in Seq(Nat) /\ Len(Held(n, o, b)) = n
         /\ \A j \in 1..n : Held(n, o, b)[j] = b[(o + j - 1) % PIPE_BUF]
<1> DEFINE C == Held(n, o, b)
<1>1. \A j \in 1..n : b[(o + j - 1) % PIPE_BUF] \in Nat
  <2> SUFFICES ASSUME NEW j \in 1..n PROVE b[(o + j - 1) % PIPE_BUF] \in Nat
    OBVIOUS
  <2>1. o + j - 1 \in Int /\ PIPE_BUF \in Nat \ {0}
    BY FifoTypes
  <2>2. (o + j - 1) % PIPE_BUF \in 0..(PIPE_BUF - 1)
    BY <2>1, ModRange
  <2> QED BY <2>2
<1>2. C \in [1..n -> Nat]
  BY <1>1 DEF Held
<1>3. C \in Seq(Nat) /\ Len(C) = n
  <2> SUFFICES ASSUME NEW D \in [1..n -> Nat] PROVE D \in Seq(Nat) /\ Len(D) = n
    BY <1>2
  <2> QED OBVIOUS
<1>4. \A j \in 1..n : C[j] = b[(o + j - 1) % PIPE_BUF]
  BY DEF Held
<1> QED BY <1>3, <1>4

\* The contents of the pipe are those bytes ...
LEMMA ContentsIs ==
  ASSUME RingOK
  PROVE  /\ Contents \in Seq(Nat)
         /\ Len(Contents) = pn_nBytesInBuffer
         /\ \A j \in 1..pn_nBytesInBuffer : Contents[j] = pn_anBuffer[(pn_nOutPos + j - 1) % PIPE_BUF]
<1>0. pn_nBytesInBuffer \in Nat
  BY FifoTypes DEF RingOK
<1>1. pn_nOutPos \in 0..(PIPE_BUF - 1) /\ pn_anBuffer \in [0..(PIPE_BUF - 1) -> Nat]
  BY DEF RingOK
<1>2. Contents = Held(pn_nBytesInBuffer, pn_nOutPos, pn_anBuffer)
  BY DEF Contents, Held
<1> QED BY <1>0, <1>1, <1>2, RingContents

\* ... after a step as well.
LEMMA ContentsAfter ==
  ASSUME RingOK'
  PROVE  /\ Contents' \in Seq(Nat)
         /\ Len(Contents') = pn_nBytesInBuffer'
         /\ \A j \in 1..pn_nBytesInBuffer' :
              Contents'[j] = pn_anBuffer'[(pn_nOutPos' + j - 1) % PIPE_BUF]
<1>0. pn_nBytesInBuffer' \in Nat
  BY FifoTypes DEF RingOK
<1>1. pn_nOutPos' \in 0..(PIPE_BUF - 1) /\ pn_anBuffer' \in [0..(PIPE_BUF - 1) -> Nat]
  BY DEF RingOK
<1>2. Contents' = Held(pn_nBytesInBuffer', pn_nOutPos', pn_anBuffer')
  BY DEF Contents, Held
<1> QED BY <1>0, <1>1, <1>2, RingContents

\* A read takes the oldest bytes out of the contents.
LEMMA ReadContents ==
  ASSUME RingOK, NEW k \in 0..pn_nBytesInBuffer,
         pn_nBytesInBuffer' = pn_nBytesInBuffer - k,
         pn_nOutPos' = (pn_nOutPos + k) % PIPE_BUF,
         UNCHANGED <<pn_nInPos, pn_anBuffer>>
  PROVE  /\ [j \in 1..k |-> pn_anBuffer[(pn_nOutPos + j - 1) % PIPE_BUF]] = SubSeq(Contents, 1, k)
         /\ Contents' = SubSeq(Contents, k + 1, Len(Contents))
<1>0. PIPE_BUF \in Nat \ {0} /\ pn_nBytesInBuffer \in 0..PIPE_BUF /\ pn_nOutPos \in 0..(PIPE_BUF - 1)
  BY FifoTypes DEF RingOK
<1>1. RingOK'
  BY ReadRing
<1> DEFINE C == Contents
<1>2. /\ C \in Seq(Nat) /\ Len(C) = pn_nBytesInBuffer
      /\ \A j \in 1..pn_nBytesInBuffer : C[j] = pn_anBuffer[(pn_nOutPos + j - 1) % PIPE_BUF]
  BY ContentsIs
<1>3. /\ C' \in Seq(Nat) /\ Len(C') = pn_nBytesInBuffer'
      /\ \A j \in 1..pn_nBytesInBuffer' : C'[j] = pn_anBuffer'[(pn_nOutPos' + j - 1) % PIPE_BUF]
  BY <1>1, ContentsAfter
<1> HIDE DEF C
<1>4. k \in Nat /\ \A i \in 1..Len(C) : C[i] \in Nat
  BY <1>0, <1>2
<1>5. [j \in 1..k |-> pn_anBuffer[(pn_nOutPos + j - 1) % PIPE_BUF]] = SubSeq(C, 1, k)
  <2> DEFINE g == [j \in 1..k |-> pn_anBuffer[(pn_nOutPos + j - 1) % PIPE_BUF]]
             h == SubSeq(C, 1, k)
  <2>1. \A j \in 1..k : j \in 1..pn_nBytesInBuffer
    BY <1>0
  <2>2. \A j \in 1..k : g[j] = C[j] /\ C[j] \in Nat
    BY <1>2, <1>4, <2>1
  <2>3. g \in Seq(Nat) /\ Len(g) = k
    <3>1. g \in [1..k -> Nat]
      BY <2>2
    <3> QED BY <1>4, <3>1
  <2>4. h \in Seq(Nat) /\ Len(h) = k /\ \A j \in 1..k : h[j] = C[j]
    BY <1>2, <1>4, <2>2
  <2> HIDE DEF g, h
  <2>5. g = h
    BY <2>2, <2>3, <2>4, SeqEqual
  <2> QED BY <2>5 DEF g, h
<1>6. C' = SubSeq(C, k + 1, Len(C))
  <2> DEFINE h == SubSeq(C, k + 1, Len(C))
  <2>1. h \in Seq(Nat) /\ Len(h) = Len(C) - k /\ \A j \in 1..(Len(C) - k) : h[j] = C[k + j]
    BY <1>0, <1>2, <1>4
  <2> HIDE DEF h
  <2>2. ASSUME NEW j \in 1..(Len(C) - k) PROVE C'[j] = C[k + j]
    <3>1. j \in 1..pn_nBytesInBuffer' /\ k + j \in 1..pn_nBytesInBuffer
      BY <1>0, <1>2
    <3>2. /\ j - 1 \in 0..PIPE_BUF /\ k \in 0..PIPE_BUF /\ k + (j - 1) <= PIPE_BUF
      BY <1>0, <3>1
    <3>3. (((pn_nOutPos + k) % PIPE_BUF) + (j - 1)) % PIPE_BUF = (pn_nOutPos + (k + (j - 1))) % PIPE_BUF
      BY <1>0, <3>2, ModSum
    <3>4. pn_nOutPos' \in Int /\ pn_nOutPos' + j - 1 = pn_nOutPos' + (j - 1)
      BY <1>1 DEF RingOK
    <3>5. pn_nOutPos + (k + j) - 1 = pn_nOutPos + (k + (j - 1))
      BY <1>0
    <3>6. (pn_nOutPos' + j - 1) % PIPE_BUF = (pn_nOutPos + (k + j) - 1) % PIPE_BUF
      BY <3>3, <3>4, <3>5
    <3> QED BY <1>2, <1>3, <3>1, <3>6
  <2>3. Len(C') = Len(C) - k
    BY <1>2, <1>3
  <2>4. C' = h
    BY <1>3, <2>1, <2>2, <2>3, SeqEqual
  <2> QED BY <2>4 DEF h
<1> QED BY <1>5, <1>6 DEF C

\* A write puts its bytes behind the contents, around the end of the buffer too.
LEMMA WriteContents ==
  ASSUME RingOK, NEW d \in Seq(Nat), NEW k \in 0..Len(d), k <= PIPE_BUF - pn_nBytesInBuffer,
         pn_nBytesInBuffer' = pn_nBytesInBuffer + k,
         pn_anBuffer' = [p \in DOMAIN pn_anBuffer |->
           LET j == (p - pn_nInPos) % PIPE_BUF IN IF j < k THEN d[j + 1] ELSE pn_anBuffer[p]],
         pn_nInPos' = (pn_nInPos + k) % PIPE_BUF,
         UNCHANGED pn_nOutPos
  PROVE  Contents' = Contents \o SubSeq(d, 1, k)
<1>0. PIPE_BUF \in Nat \ {0} /\ pn_nBytesInBuffer \in 0..PIPE_BUF /\ pn_nOutPos \in 0..(PIPE_BUF - 1)
  BY FifoTypes DEF RingOK
<1>1. RingOK'
  BY WriteRing
<1> DEFINE C == Contents
           h == SubSeq(d, 1, k)
<1>2. /\ C \in Seq(Nat) /\ Len(C) = pn_nBytesInBuffer
      /\ \A j \in 1..pn_nBytesInBuffer : C[j] = pn_anBuffer[(pn_nOutPos + j - 1) % PIPE_BUF]
  BY ContentsIs
<1>3. /\ C' \in Seq(Nat) /\ Len(C') = pn_nBytesInBuffer'
      /\ \A j \in 1..pn_nBytesInBuffer' : C'[j] = pn_anBuffer'[(pn_nOutPos' + j - 1) % PIPE_BUF]
  BY <1>1, ContentsAfter
<1>4. k \in Nat /\ h \in Seq(Nat) /\ Len(h) = k /\ \A j \in 1..k : h[j] = d[j]
  OBVIOUS
<1> HIDE DEF C, h
<1>5. ASSUME NEW j \in 1..(pn_nBytesInBuffer + k)
      PROVE  C'[j] = IF j <= pn_nBytesInBuffer THEN C[j] ELSE h[j - pn_nBytesInBuffer]
  <2> DEFINE p == (pn_nOutPos + (j - 1)) % PIPE_BUF
             e == (p - pn_nInPos) % PIPE_BUF
  <2>1. j - 1 \in 0..(PIPE_BUF - 1) /\ pn_nOutPos + (j - 1) \in Int
    BY <1>0, <1>4
  <2>2. p \in 0..(PIPE_BUF - 1)
    BY <1>0, <2>1, ModRange
  <2>3. e = IF j - 1 < pn_nBytesInBuffer THEN (j - 1) - pn_nBytesInBuffer + PIPE_BUF
            ELSE (j - 1) - pn_nBytesInBuffer
    <3> DEFINE i == pn_nInPos
               a == j - 1
    <3>0. pn_nOutPos \in 0..(PIPE_BUF - 1) /\ pn_nBytesInBuffer \in 0..PIPE_BUF
      BY <1>0
    <3>1. p = (pn_nOutPos + a) % PIPE_BUF /\ i = (pn_nOutPos + pn_nBytesInBuffer) % PIPE_BUF
      BY DEF RingOK
    <3>2. a \in 0..(PIPE_BUF - 1)
      BY <2>1
    <3> HIDE DEF p, i, a
    <3>3. (p - i) % PIPE_BUF = IF a < pn_nBytesInBuffer THEN a - pn_nBytesInBuffer + PIPE_BUF
                               ELSE a - pn_nBytesInBuffer
      BY ONLY <3>0, <3>1, <3>2, ModDifference
    <3> QED BY <3>3 DEF i, a
  <2>4. pn_nOutPos + j - 1 = pn_nOutPos + (j - 1)
    BY <1>0
  <2>5. C'[j] = pn_anBuffer'[p]
    BY <1>3, <2>4
  <2>6. pn_anBuffer'[p] = IF e < k THEN d[e + 1] ELSE pn_anBuffer[p]
    BY <2>2 DEF RingOK
  <2>7. j <= pn_nBytesInBuffer => C[j] = pn_anBuffer[p]
    BY <1>2, <2>4
  <2> HIDE DEF p, e
  <2>8. CASE j <= pn_nBytesInBuffer
    <3>1. ~(e < k)
      BY <1>0, <1>4, <2>3, <2>8
    <3> QED BY <2>5, <2>6, <2>7, <2>8, <3>1
  <2>9. CASE ~(j <= pn_nBytesInBuffer)
    <3>1. e + 1 = j - pn_nBytesInBuffer /\ e < k /\ j - pn_nBytesInBuffer \in 1..k
      BY <1>0, <1>4, <2>3, <2>9
    <3> QED BY <1>4, <2>5, <2>6, <2>9, <3>1
  <2> QED BY <2>8, <2>9
<1>6. LET b == C \o h IN
      /\ b \in Seq(Nat) /\ Len(b) = pn_nBytesInBuffer + k
      /\ \A j \in 1..(pn_nBytesInBuffer + k) :
           b[j] = IF j <= pn_nBytesInBuffer THEN C[j] ELSE h[j - pn_nBytesInBuffer]
  BY <1>2, <1>4, ConcatProperties
<1>7. C' = C \o h
  BY <1>3, <1>5, <1>6, SeqEqual
<1> QED BY <1>7 DEF C, h

\* The pipe is empty when the count is zero.
LEMMA EmptyContents ==
  ASSUME RingOK
  PROVE  pn_nBytesInBuffer = 0 <=> Contents = <<>>
<1>1. Contents \in Seq(Nat) /\ Len(Contents) = pn_nBytesInBuffer
  BY ContentsIs
<1> QED BY <1>1

\* A new fifo is an empty channel.
LEMMA ChannelInit ==
  ASSUME Init
  PROVE  Channel!Init
<1>1. RingOK
  BY FifoInit, InvRing
<1>2. Contents = <<>>
  BY <1>1, EmptyContents DEF Init
<1> QED BY <1>2 DEF Init, Channel!Init

\* The loop of pi_read takes bytes out, or does nothing to the channel.
LEMMA ReadLoopTakes ==
  ASSUME Inv, NEW t \in Readers, NEW n \in ReadLens, ReadLoop(t, n)
  PROVE  Channel!Take(t) \/ UNCHANGED <<Contents, pBuffer, got>>
<1>0. RingOK
  BY InvRing
<1>1. Contents \in Seq(Nat) /\ Len(Contents) = pn_nBytesInBuffer /\ pn_nBytesInBuffer \in Nat /\ n \in Nat
  BY <1>0, ContentsIs, FifoTypes DEF RingOK
<1>2. UNCHANGED pBuffer
  BY DEF ReadLoop
<1> DEFINE k == Lesser(n, pn_nBytesInBuffer)
<1>3. k \in 0..pn_nBytesInBuffer /\ k = IF n < Len(Contents) THEN n ELSE Len(Contents)
  BY <1>1 DEF Lesser
<1>4. CASE /\ pn_nBytesInBuffer' = pn_nBytesInBuffer - k
           /\ got' = [got EXCEPT ![t] = [j \in 1..k |-> pn_anBuffer[(pn_nOutPos + j - 1) % PIPE_BUF]]]
           /\ pn_nOutPos' = (pn_nOutPos + k) % PIPE_BUF
           /\ UNCHANGED <<pn_nInPos, pn_anBuffer>>
  <2> HIDE DEF k
  <2>1. /\ [j \in 1..k |-> pn_anBuffer[(pn_nOutPos + j - 1) % PIPE_BUF]] = SubSeq(Contents, 1, k)
        /\ Contents' = SubSeq(Contents, k + 1, Len(Contents))
    BY <1>0, <1>3, <1>4, ReadContents
  <2>2. got' = [got EXCEPT ![t] = SubSeq(Contents, 1, k)]
    BY <1>4, <2>1
  <2> QED BY <1>2, <1>3, <2>1, <2>2 DEF Channel!Take
<1>5. CASE pn_nBytesInBuffer = 0 /\ got' = [got EXCEPT ![t] = <<>>] /\ UNCHANGED ring
  <2>1. Contents = <<>> /\ Contents' = Contents
    BY <1>0, <1>5, EmptyContents DEF ring, Contents
  <2>2. SubSeq(<<>>, 1, 0) = <<>> /\ Len(<<>>) = 0 /\ SubSeq(<<>>, 0 + 1, 0) = <<>>
    BY SubSeqEmpty
  <2>3. (IF n < Len(Contents) THEN n ELSE Len(Contents)) = 0
    BY <1>1, <2>1, <2>2
  <2> QED BY <1>2, <1>5, <2>1, <2>2, <2>3 DEF Channel!Take
<1>6. CASE UNCHANGED <<ring, got>>
  BY <1>2, <1>6 DEF ring, Contents
<1> QED BY <1>4, <1>5, <1>6 DEF ReadLoop, ring

\* The loop of pi_write puts the first of what is left in; the rest stays or is
\* given up.
LEMMA WriteLoopPuts ==
  ASSUME Inv, NEW t \in Writers, NEW d \in Seq(Nat), WriteLoop(t, d), d \in Channel!Due(t)
  PROVE  Channel!Put(t)
<1>0. RingOK
  BY InvRing
<1>1. /\ Contents \in Seq(Nat) /\ Len(Contents) = pn_nBytesInBuffer
      /\ pn_nBytesInBuffer \in 0..PIPE_BUF /\ PIPE_BUF \in Nat /\ Len(d) \in Nat
  BY <1>0, ContentsIs, FifoTypes DEF RingOK
<1>2. UNCHANGED got
  BY DEF WriteLoop
<1> DEFINE k == Lesser(Len(d), PIPE_BUF - pn_nBytesInBuffer)
<1>3. CASE /\ pn_nBytesInBuffer' = pn_nBytesInBuffer + k
           /\ pn_anBuffer' = [p \in DOMAIN pn_anBuffer |->
                LET j == (p - pn_nInPos) % PIPE_BUF IN IF j < k THEN d[j + 1] ELSE pn_anBuffer[p]]
           /\ pn_nInPos' = (pn_nInPos + k) % PIPE_BUF
           /\ UNCHANGED pn_nOutPos
           /\ \/ pBuffer' = [pBuffer EXCEPT ![t] = SubSeq(d, k + 1, Len(d))]
              \/ pBuffer' = [pBuffer EXCEPT ![t] = <<>>]
  <2>1. k \in 0..Len(d) /\ k <= PIPE_BUF - pn_nBytesInBuffer
    BY <1>1 DEF Lesser
  <2> HIDE DEF k
  <2>2. Contents' = Contents \o SubSeq(d, 1, k)
    BY <1>0, <1>3, <2>1, WriteContents
  <2>3. Len(Contents) + k <= PIPE_BUF
    BY <1>1, <2>1
  <2> QED BY <1>2, <1>3, <2>1, <2>2, <2>3 DEF Channel!Put
<1>4. CASE UNCHANGED ring /\ (pBuffer' = [pBuffer EXCEPT ![t] = d] \/ pBuffer' = [pBuffer EXCEPT ![t] = <<>>])
  <2>1. Contents' = Contents
    BY <1>4 DEF ring, Contents
  <2>2. SubSeq(d, 1, 0) = <<>> /\ SubSeq(d, 0 + 1, Len(d)) = d /\ Contents \o <<>> = Contents
    BY <1>1, SubSeqEmpty, SubSeqFull, ConcatEmptySeq
  <2>3. 0 \in 0..Len(d) /\ Len(Contents) + 0 <= PIPE_BUF
    BY <1>1
  <2> QED BY <1>2, <1>4, <2>1, <2>2, <2>3 DEF Channel!Put
<1> QED BY <1>3, <1>4 DEF WriteLoop, WriteReturns, Rest, ring

\* Every step of the fifo is a step of the channel, or leaves it alone.
LEMMA ChannelStep ==
  ASSUME Inv, [Next]_vars
  PROVE  [Channel!Next]_(Channel!cvars)
<1>0. RingOK /\ DataOK /\ Readers \cap Writers = {}
  BY InvParts, FifoTypes
<1> USE DEF Channel!cvars
<1>1. ASSUME NEW t \in Threads, pi_read(t) \/ pi_read_resume(t) PROVE [Channel!Next]_(Channel!cvars)
  <2>1. PICK n \in ReadLens : ReadLoop(t, n)
    BY <1>1, CallersRun DEF pi_read, pi_read_resume
  <2>2. t \in Readers
    BY <1>1, CallersRun DEF pi_read, pi_read_resume
  <2> QED BY <2>1, <2>2, ReadLoopTakes DEF Channel!Next
<1>2. ASSUME NEW t \in Threads, pi_write(t) PROVE [Channel!Next]_(Channel!cvars)
  <2>1. PICK d \in Payloads[t] : WriteLoop(t, d)
    BY <1>2 DEF pi_write
  <2>2. t \in Writers /\ d \in Seq(Nat) /\ pBuffer[t] = <<>>
    BY <1>0, <1>2, WriteInput DEF pi_write, DataOK
  <2>3. d \in Channel!Due(t)
    BY <2>2 DEF Channel!Due
  <2> QED BY <2>1, <2>2, <2>3, WriteLoopPuts DEF Channel!Next
<1>3. ASSUME NEW t \in Threads, pi_write_resume(t) PROVE [Channel!Next]_(Channel!cvars)
  <2>1. /\ WriteLoop(t, pBuffer[t]) /\ t \in Writers /\ pBuffer[t] \in Seq(Nat)
        /\ pBuffer[t] # <<>> \/ <<>> \in Payloads[t]
    BY <1>0, <1>3, WriteInput, CallersRun DEF pi_write_resume, DataOK
  <2>2. pBuffer[t] \in Channel!Due(t)
    BY <2>1 DEF Channel!Due
  <2> QED BY <2>1, <2>2, WriteLoopPuts DEF Channel!Next
<1>4. ASSUME NEW t \in Threads, pi_close(t) PROVE [Channel!Next]_(Channel!cvars)
  <2>1. UNCHANGED <<pBuffer, got, pn_anBuffer>>
    BY <1>4 DEF pi_close
  <2>2. CASE UNCHANGED <<pn_nOutPos, pn_nInPos, pn_nBytesInBuffer>>
    BY <2>1, <2>2 DEF Contents
  <2>3. CASE Reset
    <3>1. RingOK' /\ pn_nBytesInBuffer' = 0
      BY <2>3, RingStep DEF Reset
    <3>2. Contents' \in Seq(Nat) /\ Len(Contents') = 0
      BY <3>1, ContentsAfter
    <3>3. Contents' = <<>>
      BY <3>2
    <3> QED BY <2>1, <3>3 DEF Channel!Next, Channel!Clear
  <2> QED BY <1>4, <2>2, <2>3 DEF pi_close
<1>5. ASSUME NEW t \in Threads, suspend_returns(t) PROVE [Channel!Next]_(Channel!cvars)
  <2>1. UNCHANGED <<Contents, got>>
    BY <1>5 DEF suspend_returns, ring, Contents
  <2>2. CASE UNCHANGED pBuffer
    BY <2>1, <2>2
  <2>3. CASE pBuffer' = [w \in Writers |-> IF w = t THEN <<>> ELSE pBuffer[w]] /\ pBuffer' # pBuffer
    <3>1. pBuffer \in [Writers -> Seq(Nat)]
      BY <1>0 DEF DataOK
    <3>2. t \in Writers /\ pBuffer[t] # <<>> /\ pBuffer' = [pBuffer EXCEPT ![t] = <<>>]
      BY <2>3, <3>1
    <3> DEFINE d == pBuffer[t]
    <3>3. d \in Seq(Nat) /\ Len(d) \in Nat
      BY <3>1, <3>2
    <3>4. d \in Channel!Due(t)
      BY <3>2 DEF Channel!Due
    <3>5. Contents \in Seq(Nat) /\ Len(Contents) + 0 <= PIPE_BUF
      BY <1>0, ContentsIs, FifoTypes DEF RingOK
    <3>6. 0 \in 0..Len(d) /\ SubSeq(d, 1, 0) = <<>> /\ Contents \o <<>> = Contents
      BY <3>3, <3>5, SubSeqEmpty, ConcatEmptySeq
    <3> HIDE DEF d
    <3>7. Channel!Put(t)
      BY <2>1, <3>2, <3>4, <3>5, <3>6 DEF Channel!Put
    <3> QED BY <3>2, <3>7 DEF Channel!Next
  <2> QED BY <1>5, <2>2, <2>3 DEF suspend_returns
<1>6. ASSUME NEW t \in Threads,
             \/ pi_open(t) \/ pi_open_resume(t) \/ pi_setflags(t)
             \/ pi_add_select_req(t) \/ pi_rem_select_req(t) \/ send_signal(t)
      PROVE  UNCHANGED <<Contents, pBuffer, got>>
  <2>1. UNCHANGED <<ring, pBuffer, got>>
    BY <1>6 DEF pi_open, pi_open_resume, pi_setflags, pi_add_select_req, pi_rem_select_req, send_signal
  <2> QED BY <2>1 DEF ring, Contents
<1>7. CASE UNCHANGED vars
  BY <1>7 DEF vars, ring, Contents
<1> QED BY <1>1, <1>2, <1>3, <1>4, <1>5, <1>6, <1>7 DEF Next, Continue

\* The fifo implements a bounded first-in first-out channel of bytes: no byte is
\* lost, repeated, overtaken or made up, however readers and writers interleave.
THEOREM FifoImplementsChannel == Spec => ImplementsChannel
<1>1. Init => Channel!Init
  BY ChannelInit
<1>2. Inv /\ [Next]_vars => [Channel!Next]_(Channel!cvars)
  BY ChannelStep
<1> QED BY <1>1, <1>2, FifoInv, PTL DEF Spec, ImplementsChannel, Channel!Spec
=============================================================================
