---------------------------- MODULE MsgPortProofs ----------------------------
(***************************************************************************)
(* Proofs about MsgPort for any number of threads, processes and ports:    *)
(* the inductive invariant Inv, in layers.  The types need to know that a  *)
(* reader's port is one (TypeStep, ReaderStep); the wait queues need both  *)
(* (RingStep, DeletionWakesStep); the balance of counts and messages is a matter of the       *)
(* cardinality of Holders, which each step changes by at most one          *)
(* (CoverStep); the lists of the processes stand alone (OwnerStep).        *)
(***************************************************************************)
EXTENDS MsgPort, FiniteSetTheorems, TLAPS

-----------------------------------------------------------------------------
(* Rings of wait nodes.                                                    *)

\* Unlinking a node leaves a ring of threads.
LEMMA RingRemoveType ==
  ASSUME NEW S, NEW q \in Seq(S), NEW t \in S
  PROVE  remove_from_waitlist(q, t) \in Seq(S)
<1> DEFINE i == CHOOSE i \in 1..Len(q) : q[i] = t
           r == [j \in 1..(Len(q) - 1) |-> IF j < i THEN q[j] ELSE q[j + 1]]
<1>1. CASE q = <<>>
  <2>1. 1..(Len(q) - 1) = 1..0
    BY <1>1
  <2>2. r \in [1..0 -> S]
    BY <2>1
  <2> QED BY <2>2, 0 \in Nat DEF remove_from_waitlist, Seq
<1>2. CASE q # <<>>
  <2>1. Len(q) - 1 \in Nat
    BY <1>2
  <2>2. \A j \in 1..(Len(q) - 1) : q[j] \in S /\ q[j + 1] \in S
    BY <2>1
  <2>3. r \in [1..(Len(q) - 1) -> S]
    BY <2>2
  <2> QED BY <2>1, <2>3 DEF remove_from_waitlist
<1> QED BY <1>1, <1>2

\* Unlinking a node takes exactly that thread out of a ring that holds each
\* thread once.
LEMMA RingRemoveMembers ==
  ASSUME NEW S, NEW q \in Seq(S), NEW t \in Members(q),
         \A i, j \in 1..Len(q) : q[i] = q[j] => i = j
  PROVE  LET r == remove_from_waitlist(q, t) IN
         /\ Members(r) = Members(q) \ {t}
         /\ \A i, j \in 1..Len(r) : r[i] = r[j] => i = j
<1> DEFINE k == CHOOSE i \in 1..Len(q) : q[i] = t
           r == [j \in 1..(Len(q) - 1) |-> IF j < k THEN q[j] ELSE q[j + 1]]
<1>1. k \in 1..Len(q) /\ q[k] = t
  BY DEF Members
<1> HIDE DEF k
<1>2. Len(q) \in Nat /\ Len(q) > 0
  BY <1>1
<1>3. Len(r) = Len(q) - 1
  BY <1>2
<1>4. ASSUME NEW i \in 1..Len(r) PROVE r[i] = (IF i < k THEN q[i] ELSE q[i + 1])
  BY <1>3
<1> HIDE DEF r
<1>5. Members(r) \subseteq Members(q) \ {t}
  <2> SUFFICES ASSUME NEW i \in 1..Len(r) PROVE r[i] \in Members(q) \ {t}
    BY DEF Members
  <2>1. i \in 1..Len(q) /\ i + 1 \in 1..Len(q)
    BY <1>2, <1>3
  <2> QED BY <2>1, <1>1, <1>4 DEF Members
<1>6. Members(q) \ {t} \subseteq Members(r)
  <2> SUFFICES ASSUME NEW i \in 1..Len(q), q[i] # t PROVE q[i] \in Members(r)
    BY DEF Members
  <2>1. CASE i < k
    <3>1. i \in 1..Len(r)
      BY <1>1, <1>2, <1>3, <2>1
    <3> QED BY <3>1, <1>4, <2>1 DEF Members
  <2>2. CASE i > k
    <3>1. i - 1 \in 1..Len(r) /\ ~(i - 1 < k) /\ (i - 1) + 1 = i
      BY <1>1, <1>2, <1>3, <2>2
    <3>2. r[i - 1] = q[i]
      BY <3>1, <1>4
    <3> QED BY <3>1, <3>2 DEF Members
  <2> QED BY <1>1, <1>2, <2>1, <2>2
<1>7. \A i, j \in 1..Len(r) : r[i] = r[j] => i = j
  <2> SUFFICES ASSUME NEW i \in 1..Len(r), NEW j \in 1..Len(r), r[i] = r[j] PROVE i = j
    OBVIOUS
  <2>1. /\ i \in 1..Len(q) /\ i + 1 \in 1..Len(q)
        /\ j \in 1..Len(q) /\ j + 1 \in 1..Len(q)
    BY <1>2, <1>3
  <2> QED BY <2>1, <1>1, <1>2, <1>4
<1>8. r = remove_from_waitlist(q, t)
  BY DEF r, k, remove_from_waitlist
<1> QED BY <1>5, <1>6, <1>7, <1>8

\* Linking a node in at the tail adds exactly that thread.
LEMMA RingAppendMembers ==
  ASSUME NEW S, NEW q \in Seq(S), NEW t \in S, t \notin Members(q),
         \A i, j \in 1..Len(q) : q[i] = q[j] => i = j
  PROVE  LET r == add_to_waitlist(q, t) IN
         /\ r \in Seq(S)
         /\ Members(r) = Members(q) \cup {t}
         /\ \A i, j \in 1..Len(r) : r[i] = r[j] => i = j
<1> DEFINE r == Append(q, t)
<1>1. r \in Seq(S) /\ Len(r) = Len(q) + 1 /\ Len(q) \in Nat
  OBVIOUS
<1>2. \A i \in 1..Len(r) : r[i] = IF i <= Len(q) THEN q[i] ELSE t
  BY <1>1
<1>3. Members(r) \subseteq Members(q) \cup {t}
  BY <1>1, <1>2 DEF Members
<1>4. Members(q) \cup {t} \subseteq Members(r)
  <2>1. \A i \in 1..Len(q) : i \in 1..Len(r) /\ r[i] = q[i]
    BY <1>1, <1>2
  <2>2. Len(r) \in 1..Len(r) /\ r[Len(r)] = t
    BY <1>1, <1>2
  <2> QED BY <2>1, <2>2 DEF Members
<1>5. \A i, j \in 1..Len(r) : r[i] = r[j] => i = j
  <2>1. \A i \in 1..Len(q) : q[i] # t
    BY DEF Members
  <2> QED BY <1>1, <1>2, <2>1
<1> QED BY <1>1, <1>3, <1>4, <1>5 DEF add_to_waitlist

-----------------------------------------------------------------------------
\* The arguments of an idle thread are arguments.
LEMMA NoArgType == NoArg \in Args
BY DEF NoArg, Args, TimeoutKinds, Errors

\* A positive count may be counted down.
LEMMA OneLess ==
  ASSUME NEW S, NEW f \in [S -> Nat], NEW p \in S, f[p] > 0
  PROVE  [f EXCEPT ![p] = @ - 1] \in [S -> Nat]
<1>1. f[p] - 1 \in Nat
  OBVIOUS
<1> QED BY <1>1

\* The thread at the head of a ring is one of its members.
LEMMA FirstMember ==
  ASSUME NEW S, NEW q \in Seq(S)
  PROVE  First(q) \subseteq Members(q) /\ Members(q) \subseteq S
<1>1. CASE q = <<>>
  BY <1>1 DEF First, Members
<1>2. CASE q # <<>>
  <2>1. Len(q) \in Nat /\ 1 \in 1..Len(q) /\ Head(q) = q[1]
    BY <1>2
  <2>2. \A i \in 1..Len(q) : q[i] \in S
    OBVIOUS
  <2> QED BY <1>2, <2>1, <2>2 DEF First, Members
<1> QED BY <1>1, <1>2

-----------------------------------------------------------------------------
(* Types.                                                                  *)

\* The second half of delete_semaphore wakes threads of the ring only, all of them
\* unless it meets a dead node.
LEMMA DeleteSemaphore ==
  ASSUME NEW p \in Ports, delete_semaphore(p)
  PROVE  /\ awake \subseteq awake' /\ awake' \subseteq awake \cup Members(ring[p])
         /\ dangling => dangling'
         /\ ~dangling' => Members(ring[p]) \subseteq awake'
         /\ dangling' \in BOOLEAN
<1> DEFINE q == ring[p]
           Dead == {t \in Members(q) : pc[t] # "blocked"}
           Intact == {i \in 1..Len(q) : \A j \in 1..i : q[j] \notin Dead}
<1>1. /\ \E W \in SUBSET (Members(q) \ Dead) :
           /\ {q[i] : i \in Intact} \subseteq W
           /\ Dead = {} => W = Members(q)
           /\ awake' = awake \cup W
      /\ dangling' = (dangling \/ Dead # {})
  BY Zenon DEF delete_semaphore
<1> HIDE DEF Dead, Intact
<1>2. PICK W \in SUBSET Members(q) : (Dead = {} => W = Members(q)) /\ awake' = awake \cup W
  BY <1>1
<1>3. /\ dangling => dangling'
      /\ ~dangling' => Dead = {}
      /\ dangling' \in BOOLEAN
  BY <1>1, Zenon
<1> QED BY <1>2, <1>3

\* What deleting a port assigns has the right type.
LEMMA DeleteType ==
  ASSUME TypeOK, NEW p \in Ports, do_delete_port(p)
  PROVE  TypeOK'
<1> DEFINE r == mp_hOwner[p]
           l == remove_from_waitlist(pr_ports[r], p)
<1>1. delete_semaphore(p) /\ unlink_port(r, p)
  BY DEF do_delete_port
<1>2. sync' \in [Ports -> Nat] /\ ring' \in [Ports -> Seq(Threads)]
  <2>1. <<>> \in Seq(Threads)
    OBVIOUS
  <2> QED BY <1>1, <2>1 DEF TypeOK, delete_semaphore
<1>3. awake' \subseteq Threads /\ dangling' \in BOOLEAN
  <2>1. Members(ring[p]) \subseteq Threads
    BY FirstMember DEF TypeOK
  <2> QED BY <1>1, <2>1, DeleteSemaphore DEF TypeOK
<1>4. pr_ports' \in [Procs -> Seq(Ports)] /\ mp_hOwner' \in [Ports -> Procs \cup {NoProc}]
  <2>1. r \in Procs => l \in Seq(Ports)
    BY RingRemoveType DEF TypeOK
  <2>2. /\ mp_hOwner' = [mp_hOwner EXCEPT ![p] = NoProc]
        /\ pr_ports' = [pr_ports EXCEPT ![r] = l]
    BY <1>1 DEF unlink_port
  <2> HIDE DEF l, r
  <2> QED BY <2>1, <2>2 DEF TypeOK
<1>5. port' \in [Ports -> {"none", "live", "deleting", "deleted"}]
  BY DEF TypeOK, do_delete_port
<1>6. pc' \in [Threads -> Places]
  BY DEF TypeOK, do_delete_port, Places
<1>7. /\ mp_nCount' \in [Ports -> Nat] /\ nMessagePortCount' \in Int
      /\ UNCHANGED <<tr_nSigPend, expired, arg, exited>>
  BY DEF TypeOK, do_delete_port
<1> QED BY <1>2, <1>3, <1>4, <1>5, <1>6, <1>7 DEF TypeOK

\* One turn of the semaphore's loop keeps the types.
LEMMA TryLockType ==
  ASSUME TypeOK, NEW t \in Threads, NEW p \in Ports, NEW q \in Seq(Threads),
         TryLock(t, p, q)
  PROVE  /\ sync' \in [Ports -> Nat]
         /\ ring' \in [Ports -> Seq(Threads)]
         /\ pc' \in [Threads -> Places]
         /\ arg' \in [Threads -> Args]
<1>1. Append(q, t) \in Seq(Threads)
  OBVIOUS
<1>2. ring' \in [Ports -> Seq(Threads)]
  BY <1>1 DEF TypeOK, TryLock, add_to_waitlist
<1>3. sync' = sync \/ (sync[p] > 0 /\ sync' = [sync EXCEPT ![p] = @ - 1])
  BY DEF TryLock
<1>4. sync' \in [Ports -> Nat]
  <2>1. sync \in [Ports -> Nat]
    BY DEF TypeOK
  <2>2. sync[p] > 0 => [sync EXCEPT ![p] = @ - 1] \in [Ports -> Nat]
    BY <2>1, OneLess
  <2> QED BY <1>3, <2>1, <2>2
<1>5. \A e \in Errors : [arg[t] EXCEPT !.nError = e] \in Args
  BY DEF TypeOK, Args
<1>6. \/ \E e \in Errors : Back(t, e)
      \/ pc' = [pc EXCEPT ![t] = "blocked"] /\ arg' = arg
  BY DEF TryLock, Errors
<1>7. pc' \in [Threads -> Places] /\ arg' \in [Threads -> Args]
  BY <1>5, <1>6 DEF TypeOK, Back, Places
<1> QED BY <1>2, <1>4, <1>7

\* Every step keeps the types.
LEMMA TypeStep ==
  ASSUME TypeOK, ReadersKnowPort, [Next]_vars
  PROVE  TypeOK'
<1>1. ASSUME NEW t \in Threads, NEW p \in Ports, sys_create_port(t, p) PROVE TypeOK'
  <2>1. ProcOf[t] \in Procs
    BY PortConstants
  <2>2. pr_ports' \in [Procs -> Seq(Ports)]
    BY <1>1, <2>1 DEF TypeOK, sys_create_port, link_port
  <2> QED BY <1>1, <2>1, <2>2 DEF TypeOK, sys_create_port, link_port, Places
<1>2. ASSUME NEW t \in Threads, NEW p \in Ports, sys_delete_port(t, p) PROVE TypeOK'
  BY <1>2 DEF TypeOK, sys_delete_port, begin_delete, Places
<1>3. ASSUME NEW t \in Threads, NEW p \in Ports, send_msg_x(t, p) PROVE TypeOK'
  <2>1. First(ring[p]) \subseteq Threads
    BY FirstMember DEF TypeOK
  <2> QED BY <1>3, <2>1 DEF TypeOK, send_msg_x, threadVars
<1>4. ASSUME NEW t \in Threads, NEW p \in Ports, NEW o \in Timeouts, get_msg_x(t, p, o)
      PROVE TypeOK'
  <2>1. CASE take_message(t, p)
    BY <1>4, <2>1 DEF TypeOK, get_msg_x, take_message, TokenLeft
  <2>2. CASE start_waiting(t, p, o)
    <3>1. [hPort |-> p, nTimeOut |-> o, nError |-> "0"] \in Args
      BY PortConstants DEF Args, Errors
    <3> QED BY <1>4, <2>2, <3>1 DEF TypeOK, get_msg_x, start_waiting, Places
  <2> QED BY <1>4, <2>1, <2>2 DEF get_msg_x
<1>5. ASSUME NEW t \in Threads, lock_sync(t) PROVE TypeOK'
  <2> DEFINE p == arg[t].hPort
  <2>1. p \in Ports
    BY <1>5 DEF lock_sync, ReadersKnowPort, Reading
  <2>2. CASE Back(t, "EINVAL") /\ UNCHANGED <<sync, ring>>
    <3>1. [arg[t] EXCEPT !.nError = "EINVAL"] \in Args
      BY DEF TypeOK, Args, Errors
    <3> QED BY <1>5, <2>2, <3>1 DEF TypeOK, lock_sync, Back, Places, portVars
  <2>3. CASE TryLock(t, p, ring[p])
    <3>1. ring[p] \in Seq(Threads)
      BY <2>1 DEF TypeOK
    <3> QED BY <1>5, <2>1, <2>3, <3>1, TryLockType DEF TypeOK, lock_sync, portVars
  <2> QED BY <1>5, <2>2, <2>3 DEF lock_sync
<1>6. ASSUME NEW t \in Threads, lock_sync_resume(t) PROVE TypeOK'
  <2> DEFINE p == arg[t].hPort
             q == remove_from_waitlist(ring[p], t)
  <2>1. p \in Ports
    BY <1>6 DEF lock_sync_resume, ReadersKnowPort, Reading
  <2>2. q \in Seq(Threads)
    BY <2>1, RingRemoveType DEF TypeOK
  <2>3. \A e \in Errors : [arg[t] EXCEPT !.nError = e] \in Args
    BY DEF TypeOK, Args
  <2>4. First(q) \subseteq Threads
    BY <2>2, FirstMember
  <2> HIDE DEF q
  <2>5. CASE Back(t, "EINVAL") /\ awake' = awake \ {t} /\ UNCHANGED <<sync, ring>>
    BY <1>6, <2>3, <2>5 DEF TypeOK, lock_sync_resume, Back, Places, Errors, portVars
  <2>6. CASE /\ Back(t, "EINTR")
             /\ ring' = [ring EXCEPT ![p] = q]
             /\ awake' = (awake \ {t}) \cup First(q)
             /\ UNCHANGED sync
    BY <1>6, <2>2, <2>3, <2>4, <2>6
    DEF TypeOK, lock_sync_resume, Back, Places, Errors, portVars
  <2>7. CASE TryLock(t, p, q) /\ awake' = awake \ {t}
    <3>1. /\ sync' \in [Ports -> Nat] /\ ring' \in [Ports -> Seq(Threads)]
          /\ pc' \in [Threads -> Places] /\ arg' \in [Threads -> Args]
      BY <2>1, <2>2, <2>7, TryLockType
    <3> QED BY <1>6, <2>7, <3>1 DEF TypeOK, lock_sync_resume, portVars
  <2> QED BY <1>6, <2>5, <2>6, <2>7 DEF lock_sync_resume, q
<1>7. ASSUME NEW t \in Threads, revalidate(t) PROVE TypeOK'
  <2> DEFINE p == arg[t].hPort
  <2>1. p \in Ports
    BY <1>7 DEF revalidate, ReadersKnowPort, Reading
  <2>2. CASE start_waiting(t, p, arg[t].nTimeOut)
    <3>1. [hPort |-> p, nTimeOut |-> arg[t].nTimeOut, nError |-> "0"] \in Args
      BY <2>1 DEF TypeOK, Args, Errors
    <3>2. UNCHANGED <<port, mp_hOwner, pr_ports, ring, awake, tr_nSigPend, dangling, exited,
                      nMessagePortCount>>
      BY <1>7 DEF revalidate
    <3> QED BY <2>2, <3>1, <3>2 DEF TypeOK, start_waiting, Places
  <2>3. CASE /\ pc' = [pc EXCEPT ![t] = "idle"] /\ arg' = [arg EXCEPT ![t] = NoArg]
             /\ UNCHANGED <<sync, expired>>
             /\ \/ UNCHANGED mp_nCount
                \/ mp_nCount[p] > 0 /\ mp_nCount' = [mp_nCount EXCEPT ![p] = @ - 1]
    <3>1. mp_nCount' \in [Ports -> Nat]
      <4>1. mp_nCount \in [Ports -> Nat]
        BY DEF TypeOK
      <4>2. mp_nCount[p] > 0 => [mp_nCount EXCEPT ![p] = @ - 1] \in [Ports -> Nat]
        BY <2>1, <4>1, OneLess
      <4> QED BY <2>3, <4>1, <4>2
    <3>2. UNCHANGED <<port, mp_hOwner, pr_ports, ring, awake, tr_nSigPend, dangling, exited,
                      nMessagePortCount>>
      BY <1>7 DEF revalidate
    <3> QED BY <2>3, <3>1, <3>2, NoArgType DEF TypeOK, Places
  <2>4. \/ start_waiting(t, p, arg[t].nTimeOut)
        \/ /\ pc' = [pc EXCEPT ![t] = "idle"] /\ arg' = [arg EXCEPT ![t] = NoArg]
           /\ UNCHANGED <<sync, expired>>
           /\ \/ UNCHANGED mp_nCount
              \/ mp_nCount[p] > 0 /\ mp_nCount' = [mp_nCount EXCEPT ![p] = @ - 1]
    BY <1>7, Zenon DEF revalidate
  <2> QED BY <2>2, <2>3, <2>4
<1>8. ASSUME NEW t \in Threads,
             count_port(t) \/ send_signal(t) \/ handle_signals(t) \/ wake_up_sleepers(t)
      PROVE TypeOK'
  <2>1. CASE count_port(t)
    BY <2>1 DEF TypeOK, count_port, Places, portVars
  <2>2. CASE send_signal(t)
    BY <2>2 DEF TypeOK, send_signal, portVars
  <2>3. CASE handle_signals(t)
    BY <2>3 DEF TypeOK, handle_signals, portVars
  <2>4. CASE wake_up_sleepers(t)
    BY <2>4 DEF TypeOK, wake_up_sleepers, portVars
  <2> QED BY <1>8, <2>1, <2>2, <2>3, <2>4
<1>9. ASSUME NEW r \in Procs, exit_free_ports(r) PROVE TypeOK'
  <2>1. port' \in [Ports -> {"none", "live", "deleting", "deleted"}]
    BY <1>9 DEF TypeOK, exit_free_ports, begin_delete
  <2>2. /\ UNCHANGED <<mp_nCount, mp_hOwner, pr_ports, sync, ring, dangling, awake, tr_nSigPend,
                       expired, pc, arg, nMessagePortCount>>
        /\ exited' = exited \cup {r}
    BY <1>9 DEF exit_free_ports, threadVars
  <2> QED BY <2>1, <2>2 DEF TypeOK
<1>10. CASE UNCHANGED vars
  BY <1>10 DEF TypeOK, vars, portVars, threadVars
<1>11. ASSUME NEW p \in Ports, do_delete_port(p) PROVE TypeOK'
  BY <1>11, DeleteType
<1> QED BY <1>1, <1>2, <1>3, <1>4, <1>5, <1>6, <1>7, <1>8, <1>9, <1>10, <1>11
        DEF Next, Client, Continue

-----------------------------------------------------------------------------
(* Deleting.                                                               *)

\* A step of do_delete_port, by its owner or by the end of a process.
Deletes ==
  \/ \E t \in Threads, p \in Ports : sys_delete_port(t, p)
  \/ \E r \in Procs : exit_free_ports(r)
  \/ \E p \in Ports : do_delete_port(p)

\* A port goes through "deleting" to "deleted"; its ring and its messages are there
\* until the end.  No reader is moved.
LEMMA DeleteFrame ==
  ASSUME TypeOK, Deletes
  PROVE  /\ \A x \in Ports :
              \/ /\ port'[x] = port[x] \/ port'[x] = "deleting"
                 /\ mp_nCount'[x] = mp_nCount[x] /\ sync'[x] = sync[x] /\ ring'[x] = ring[x]
              \/ /\ port'[x] = "deleted" /\ port[x] = "deleting"
                 /\ mp_nCount'[x] = 0 /\ ring'[x] = <<>>
                 /\ ~dangling' => Members(ring[x]) \subseteq awake'
         /\ \A u \in Threads : pc'[u] = pc[u] \/ {pc[u], pc'[u]} \subseteq {"idle", "deleting"}
         /\ UNCHANGED arg
         /\ awake \subseteq awake'
         /\ dangling => dangling'
<1>1. ASSUME NEW t \in Threads, NEW p \in Ports, sys_delete_port(t, p)
      PROVE  /\ \A x \in Ports : port'[x] = port[x] \/ port'[x] = "deleting"
             /\ \A u \in Threads : pc'[u] = pc[u] \/ {pc[u], pc'[u]} \subseteq {"idle", "deleting"}
             /\ UNCHANGED <<mp_nCount, sync, ring, arg, awake, dangling>>
  BY <1>1 DEF TypeOK, sys_delete_port, begin_delete, Caller
<1>2. ASSUME NEW r \in Procs, exit_free_ports(r)
      PROVE  /\ \A x \in Ports : port'[x] = port[x] \/ port'[x] = "deleting"
             /\ UNCHANGED <<mp_nCount, sync, ring, pc, arg, awake, dangling>>
  BY <1>2 DEF TypeOK, exit_free_ports, begin_delete, threadVars
<1>3. ASSUME NEW p \in Ports, do_delete_port(p)
      PROVE  /\ \A x \in Ports : x # p =>
                  /\ port'[x] = port[x] \/ port'[x] = "deleting"
                  /\ mp_nCount'[x] = mp_nCount[x] /\ sync'[x] = sync[x] /\ ring'[x] = ring[x]
             /\ /\ port'[p] = "deleted" /\ port[p] = "deleting"
                /\ mp_nCount'[p] = 0 /\ ring'[p] = <<>>
                /\ ~dangling' => Members(ring[p]) \subseteq awake'
             /\ \A u \in Threads : pc'[u] = pc[u] \/ {pc[u], pc'[u]} \subseteq {"idle", "deleting"}
             /\ UNCHANGED arg
             /\ awake \subseteq awake'
             /\ dangling => dangling'
  <2>1. delete_semaphore(p)
    BY <1>3 DEF do_delete_port
  <2>2. /\ awake \subseteq awake' /\ (dangling => dangling')
        /\ ~dangling' => Members(ring[p]) \subseteq awake'
    BY <2>1, DeleteSemaphore
  <2>3. /\ ring'[p] = <<>>
        /\ \A x \in Ports : x # p => sync'[x] = sync[x] /\ ring'[x] = ring[x]
    BY <2>1 DEF TypeOK, delete_semaphore
  <2>4. /\ \A x \in Ports : x # p =>
             (port'[x] = port[x] \/ port'[x] = "deleting") /\ mp_nCount'[x] = mp_nCount[x]
        /\ port'[p] = "deleted" /\ port[p] = "deleting" /\ mp_nCount'[p] = 0
        /\ UNCHANGED arg
    BY <1>3 DEF TypeOK, do_delete_port
  <2>5. \A u \in Threads : pc'[u] = pc[u] \/ {pc[u], pc'[u]} \subseteq {"idle", "deleting"}
    BY <1>3 DEF TypeOK, do_delete_port
  <2> QED BY <2>2, <2>3, <2>4, <2>5
<1>4. CASE \E t \in Threads, p \in Ports : sys_delete_port(t, p)
  BY <1>1, <1>4
<1>5. CASE \E r \in Procs : exit_free_ports(r)
  BY <1>2, <1>5
<1>6. CASE \E p \in Ports : do_delete_port(p)
  <2>1. PICK p \in Ports : do_delete_port(p)
    BY <1>6
  <2>2. \A x \in Ports : x = p \/ x # p
    OBVIOUS
  <2> QED BY <1>3, <2>1, <2>2
<1> QED BY <1>4, <1>5, <1>6 DEF Deletes

\* The first port of a process that has one is linked to it, and is no longer the one
\* that was unlinked.
LEMMA FirstLinked ==
  ASSUME TypeOK, OwnerLists, NEW r \in Procs
  PROVE  /\ pr_ports[r] # <<>> => Linked(Head(pr_ports[r])) /\ Head(pr_ports[r]) \in Ports
         /\ \A p \in Members(pr_ports[r]) :
              LET l == remove_from_waitlist(pr_ports[r], p) IN
              l # <<>> => Head(l) \in Members(pr_ports[r]) \ {p}
<1>1. /\ pr_ports[r] \in Seq(Ports) /\ OneNodeEach(pr_ports[r])
      /\ Members(pr_ports[r]) = {p \in Ports : Linked(p) /\ mp_hOwner[p] = r}
  BY DEF TypeOK, OwnerLists
<1>2. ASSUME pr_ports[r] # <<>>
      PROVE  Linked(Head(pr_ports[r])) /\ Head(pr_ports[r]) \in Ports
  <2>1. Head(pr_ports[r]) \in Members(pr_ports[r])
    BY <1>1, <1>2, FirstMember DEF First
  <2> QED BY <1>1, <2>1
<1>3. ASSUME NEW p \in Members(pr_ports[r]), remove_from_waitlist(pr_ports[r], p) # <<>>
      PROVE  Head(remove_from_waitlist(pr_ports[r], p)) \in Members(pr_ports[r]) \ {p}
  <2> DEFINE l == remove_from_waitlist(pr_ports[r], p)
  <2>1. p \in Ports
    BY <1>1
  <2>2. l \in Seq(Ports) /\ Members(l) = Members(pr_ports[r]) \ {p}
    BY <1>1, <2>1, RingRemoveType, RingRemoveMembers DEF OneNodeEach
  <2> HIDE DEF l
  <2>3. l # <<>>
    BY <1>3 DEF l
  <2>4. Head(l) \in Members(l)
    BY <2>2, <2>3, FirstMember DEF First
  <2> QED BY <2>2, <2>4 DEF l
<1> QED BY <1>2, <1>3

\* Only a linked port begins to be deleted.
LEMMA DeleteLinked ==
  ASSUME TypeOK, OwnerLists, Deletes, NEW x \in Ports, port'[x] = "deleting"
  PROVE  Linked(x)
<1>1. ASSUME NEW t \in Threads, NEW p \in Ports, sys_delete_port(t, p) PROVE Linked(x)
  BY <1>1 DEF TypeOK, sys_delete_port, begin_delete, Linked
<1>2. ASSUME NEW r \in Procs, exit_free_ports(r) PROVE Linked(x)
  <2>1. CASE pr_ports[r] = <<>>
    BY <1>2, <2>1 DEF exit_free_ports, Linked
  <2>2. CASE pr_ports[r] # <<>>
    BY <1>2, <2>2, FirstLinked DEF TypeOK, exit_free_ports, begin_delete, Linked
  <2> QED BY <2>1, <2>2
<1>3. ASSUME NEW p \in Ports, do_delete_port(p) PROVE Linked(x)
  <2> DEFINE r == mp_hOwner[p]
             l == remove_from_waitlist(pr_ports[r], p)
  <2>1. port[p] = "deleting" /\ pr_ports' = [pr_ports EXCEPT ![r] = l]
    BY <1>3 DEF do_delete_port, unlink_port
  <2>2. r \in Procs /\ p \in Members(pr_ports[r])
    BY <2>1 DEF OwnerLists, Linked
  <2>3. pr_ports'[r] = l
    BY <2>1, <2>2 DEF TypeOK
  <2>4. \/ port[x] = "deleting"
        \/ l # <<>> /\ x = Head(l)
    BY <1>3, <2>3 DEF do_delete_port
  <2>5. l # <<>> => Head(l) \in Members(pr_ports[r])
    BY <2>2, FirstLinked
  <2>6. Members(pr_ports[r]) = {y \in Ports : Linked(y) /\ mp_hOwner[y] = r}
    BY <2>2 DEF OwnerLists
  <2> HIDE DEF l
  <2> QED BY <2>4, <2>5, <2>6 DEF Linked
<1> QED BY <1>1, <1>2, <1>3 DEF Deletes

-----------------------------------------------------------------------------
(* Readers and dead ports.                                                 *)

\* Leaving the semaphore's loop leaves the caller a reader of its port.
LEMMA BackReader ==
  ASSUME TypeOK, NEW t \in Threads, NEW e \in Errors, Back(t, e)
  PROVE  /\ \A u \in Threads : arg'[u].hPort = arg[u].hPort
         /\ \A u \in Threads : u # t => pc'[u] = pc[u] /\ arg'[u] = arg[u]
         /\ pc'[t] = "relock" /\ arg'[t].nError = e
<1>1. /\ [arg[t] EXCEPT !.nError = e].hPort = arg[t].hPort
      /\ [arg[t] EXCEPT !.nError = e].nError = e
  BY DEF TypeOK, Args
<1> QED BY <1>1 DEF TypeOK, Back

\* So does a turn of the loop.
LEMMA TryLockReader ==
  ASSUME TypeOK, NEW t \in Threads, NEW p \in Ports, NEW q \in Seq(Threads),
         TryLock(t, p, q)
  PROVE  /\ \A u \in Threads : arg'[u].hPort = arg[u].hPort
         /\ \A u \in Threads : u # t => pc'[u] = pc[u] /\ arg'[u] = arg[u]
         /\ pc'[t] \in {"relock", "blocked"}
<1>1. \/ \E e \in Errors : Back(t, e)
      \/ pc' = [pc EXCEPT ![t] = "blocked"] /\ arg' = arg
  BY DEF TryLock, Errors
<1>2. ASSUME NEW e \in Errors, Back(t, e)
      PROVE  /\ \A u \in Threads : arg'[u].hPort = arg[u].hPort
             /\ \A u \in Threads : u # t => pc'[u] = pc[u] /\ arg'[u] = arg[u]
             /\ pc'[t] \in {"relock", "blocked"}
  BY <1>2, BackReader
<1>3. CASE pc' = [pc EXCEPT ![t] = "blocked"] /\ arg' = arg
  BY <1>3 DEF TypeOK
<1> QED BY <1>1, <1>2, <1>3

\* What the wait on the semaphore does to the calls of all threads.
LEMMA LockSyncFrame ==
  ASSUME TypeOK, ReadersKnowPort, NEW t \in Threads, lock_sync(t) \/ lock_sync_resume(t)
  PROVE  /\ Reading(t) /\ arg[t].hPort \in Ports
         /\ \A u \in Threads : arg'[u].hPort = arg[u].hPort
         /\ \A u \in Threads : u # t => pc'[u] = pc[u] /\ arg'[u] = arg[u]
         /\ pc'[t] \in {"relock", "blocked"}
         /\ UNCHANGED portVars
<1> DEFINE p == arg[t].hPort
           q == remove_from_waitlist(ring[p], t)
<1>1. Reading(t) /\ p \in Ports
  BY DEF lock_sync, lock_sync_resume, ReadersKnowPort, Reading
<1>2. ring[p] \in Seq(Threads) /\ q \in Seq(Threads)
  BY <1>1, RingRemoveType DEF TypeOK
<1>3. \/ Back(t, "EINVAL")
      \/ Back(t, "EINTR")
      \/ TryLock(t, p, ring[p])
      \/ TryLock(t, p, q)
  BY DEF lock_sync, lock_sync_resume
<1>4. "EINVAL" \in Errors /\ "EINTR" \in Errors
  BY DEF Errors
<1>5. UNCHANGED portVars
  BY DEF lock_sync, lock_sync_resume
<1> HIDE DEF q, p
<1>6. CASE Back(t, "EINVAL") \/ Back(t, "EINTR")
  BY <1>1, <1>4, <1>5, <1>6, BackReader DEF p
<1>7. CASE TryLock(t, p, ring[p])
  BY <1>1, <1>2, <1>5, <1>7, TryLockReader DEF p
<1>8. CASE TryLock(t, p, q)
  BY <1>1, <1>2, <1>5, <1>8, TryLockReader DEF p
<1> QED BY <1>3, <1>6, <1>7, <1>8

\* revalidate ends the call, with a message or without, or starts over.
LEMMA RevalidateCases ==
  ASSUME TypeOK, ReadersKnowPort, NEW t \in Threads, revalidate(t)
  PROVE  LET p == arg[t].hPort IN
         /\ pc[t] = "relock" /\ p \in Ports /\ t \in MayRead[p]
         /\ UNCHANGED <<port, mp_hOwner, pr_ports, ring, awake, tr_nSigPend, dangling, exited,
                        nMessagePortCount, sync>>
         /\ \/ /\ arg[t].nError # "0" \/ port[p] # "live"
               /\ pc' = [pc EXCEPT ![t] = "idle"] /\ arg' = [arg EXCEPT ![t] = NoArg]
               /\ UNCHANGED mp_nCount
            \/ /\ arg[t].nError = "0" /\ port[p] = "live"
               /\ mp_nCount[p] > 0
               /\ mp_nCount' = [mp_nCount EXCEPT ![p] = @ - 1]
               /\ pc' = [pc EXCEPT ![t] = "idle"] /\ arg' = [arg EXCEPT ![t] = NoArg]
            \/ /\ arg[t].nError = "0" /\ port[p] = "live"
               /\ mp_nCount[p] = 0
               /\ pc' = [pc EXCEPT ![t] = "unlocked"]
               /\ arg' = [arg EXCEPT ![t] = [hPort |-> p, nTimeOut |-> arg[t].nTimeOut,
                                             nError |-> "0"]]
               /\ UNCHANGED mp_nCount
<1>1. pc[t] = "relock" /\ arg[t].hPort \in Ports /\ t \in MayRead[arg[t].hPort]
  BY DEF revalidate, ReadersKnowPort, Reading
<1> QED BY <1>1, Zenon DEF revalidate, start_waiting

\* What it leaves alone.
LEMMA RevalidateFrame ==
  ASSUME TypeOK, ReadersKnowPort, NEW t \in Threads, revalidate(t)
  PROVE  /\ pc[t] = "relock" /\ UNCHANGED <<port, ring>>
         /\ \A u \in Threads : u # t => pc'[u] = pc[u] /\ arg'[u] = arg[u]
         /\ pc'[t] = "idle" \/ (pc'[t] = "unlocked" /\ arg'[t].hPort = arg[t].hPort)
         /\ \/ UNCHANGED mp_nCount
            \/ /\ port[arg[t].hPort] = "live"
               /\ mp_nCount' = [mp_nCount EXCEPT ![arg[t].hPort] = @ - 1]
<1> DEFINE p == arg[t].hPort
           a == [hPort |-> p, nTimeOut |-> arg[t].nTimeOut, nError |-> "0"]
<1>1. /\ pc[t] = "relock" /\ UNCHANGED <<port, ring>>
      /\ \/ UNCHANGED mp_nCount
         \/ port[p] = "live" /\ mp_nCount' = [mp_nCount EXCEPT ![p] = @ - 1]
      /\ \/ pc' = [pc EXCEPT ![t] = "idle"] /\ arg' = [arg EXCEPT ![t] = NoArg]
         \/ pc' = [pc EXCEPT ![t] = "unlocked"] /\ arg' = [arg EXCEPT ![t] = a]
  BY RevalidateCases, Zenon
<1>2. a.hPort = p
  OBVIOUS
<1> HIDE DEF a
<1> QED BY <1>1, <1>2 DEF TypeOK

\* Every step keeps readers on ports they may read.
LEMMA ReaderStep ==
  ASSUME TypeOK, ReadersKnowPort, [Next]_vars
  PROVE  ReadersKnowPort'
<1>1. ASSUME NEW t \in Threads, NEW p \in Ports, sys_create_port(t, p)
      PROVE ReadersKnowPort'
  BY <1>1 DEF TypeOK, ReadersKnowPort, Reading, sys_create_port
<1>2. CASE Deletes
  BY <1>2, DeleteFrame DEF ReadersKnowPort, Reading
<1>3. ASSUME NEW t \in Threads, NEW p \in Ports, send_msg_x(t, p)
      PROVE ReadersKnowPort'
  BY <1>3 DEF ReadersKnowPort, Reading, send_msg_x, threadVars
<1>4. ASSUME NEW t \in Threads, NEW p \in Ports, NEW o \in Timeouts, get_msg_x(t, p, o)
      PROVE ReadersKnowPort'
  <2>1. CASE take_message(t, p)
    BY <1>4, <2>1 DEF ReadersKnowPort, Reading, get_msg_x, take_message
  <2>2. CASE start_waiting(t, p, o)
    BY <1>4, <2>2 DEF TypeOK, ReadersKnowPort, Reading, get_msg_x, start_waiting
  <2> QED BY <1>4, <2>1, <2>2 DEF get_msg_x
<1>5. ASSUME NEW t \in Threads, lock_sync(t) \/ lock_sync_resume(t)
      PROVE ReadersKnowPort'
  BY <1>5, LockSyncFrame DEF ReadersKnowPort, Reading, portVars
<1>6. ASSUME NEW t \in Threads, revalidate(t) PROVE ReadersKnowPort'
  BY <1>6, RevalidateFrame DEF ReadersKnowPort, Reading
<1>7. ASSUME NEW t \in Threads,
             count_port(t) \/ send_signal(t) \/ handle_signals(t) \/ wake_up_sleepers(t)
      PROVE ReadersKnowPort'
  <2>1. CASE count_port(t)
    BY <2>1 DEF TypeOK, ReadersKnowPort, Reading, count_port, portVars
  <2>2. CASE send_signal(t) \/ handle_signals(t) \/ wake_up_sleepers(t)
    <3>1. UNCHANGED <<port, pc, arg>>
      BY <2>2 DEF send_signal, handle_signals, wake_up_sleepers, portVars
    <3> QED BY <3>1 DEF ReadersKnowPort, Reading
  <2> QED BY <1>7, <2>1, <2>2
<1>8. CASE UNCHANGED vars
  BY <1>8 DEF ReadersKnowPort, Reading, vars, portVars, threadVars
<1> QED BY <1>1, <1>2, <1>3, <1>4, <1>5, <1>6, <1>7, <1>8 DEF Next, Client, Continue, Deletes

\* Every step keeps the handles that are not valid free of messages and waiters.
LEMMA DeadStep ==
  ASSUME TypeOK, ReadersKnowPort, DeadPortsEmpty, [Next]_vars
  PROVE  DeadPortsEmpty'
<1>1. ASSUME NEW t \in Threads, NEW p \in Ports, sys_create_port(t, p)
      PROVE DeadPortsEmpty'
  BY <1>1 DEF TypeOK, DeadPortsEmpty, Linked, sys_create_port
<1>2. CASE Deletes
  BY <1>2, DeleteFrame DEF DeadPortsEmpty, Linked
<1>3. ASSUME NEW t \in Threads, NEW p \in Ports, send_msg_x(t, p)
      PROVE DeadPortsEmpty'
  BY <1>3 DEF TypeOK, DeadPortsEmpty, Linked, send_msg_x
<1>4. ASSUME NEW t \in Threads, NEW p \in Ports, NEW o \in Timeouts, get_msg_x(t, p, o)
      PROVE DeadPortsEmpty'
  BY <1>4 DEF TypeOK, DeadPortsEmpty, Linked, get_msg_x, take_message, start_waiting
<1>5. ASSUME NEW t \in Threads, lock_sync(t) \/ lock_sync_resume(t)
      PROVE DeadPortsEmpty'
  <2> DEFINE p == arg[t].hPort
  <2>1. p \in Ports /\ UNCHANGED portVars
    BY <1>5, LockSyncFrame
  <2>2. \/ UNCHANGED ring
        \/ port[p] = "live" /\ \E q : ring' = [ring EXCEPT ![p] = q]
    BY <1>5 DEF lock_sync, lock_sync_resume, TryLock
  <2> QED BY <2>1, <2>2 DEF TypeOK, DeadPortsEmpty, Linked, portVars
<1>6. ASSUME NEW t \in Threads, revalidate(t) PROVE DeadPortsEmpty'
  BY <1>6, RevalidateFrame DEF TypeOK, DeadPortsEmpty, Linked
<1>7. ASSUME NEW t \in Threads,
             count_port(t) \/ send_signal(t) \/ handle_signals(t) \/ wake_up_sleepers(t)
      PROVE DeadPortsEmpty'
  <2>1. UNCHANGED <<port, mp_nCount, ring>>
    BY <1>7 DEF count_port, send_signal, handle_signals, wake_up_sleepers, portVars
  <2> QED BY <2>1 DEF DeadPortsEmpty, Linked
<1>8. CASE UNCHANGED vars
  BY <1>8 DEF DeadPortsEmpty, Linked, vars, portVars
<1> QED BY <1>1, <1>2, <1>3, <1>4, <1>5, <1>6, <1>7, <1>8 DEF Next, Client, Continue, Deletes

-----------------------------------------------------------------------------
(* Wait queues.                                                            *)

\* What RingMatchesReaders says of a live port.
RingOf(p) == Members(ring[p]) = BlockedOn(p) /\ OneNodeEach(ring[p])

\* A turn of the semaphore's loop, from a ring q that holds the other waiters.
LEMMA TryLockRing ==
  ASSUME TypeOK, NEW t \in Threads, NEW p \in Ports, NEW q \in Seq(Threads),
         arg[t].hPort = p,
         Members(q) = BlockedOn(p) \ {t}, OneNodeEach(q),
         TryLock(t, p, q)
  PROVE  /\ RingOf(p)'
         /\ \A x \in Ports : x # p => ring'[x] = ring[x]
<1>0. /\ \A u \in Threads : arg'[u].hPort = arg[u].hPort
      /\ \A u \in Threads : u # t => pc'[u] = pc[u]
      /\ pc'[t] \in {"relock", "blocked"}
  BY TryLockReader
<1>1. CASE ring' = [ring EXCEPT ![p] = q] /\ pc' = [pc EXCEPT ![t] = "relock"]
  <2>1. ring'[p] = q /\ pc'[t] = "relock"
    BY <1>1 DEF TypeOK
  <2>2. BlockedOn(p)' = BlockedOn(p) \ {t}
    BY <1>0, <2>1 DEF BlockedOn
  <2> QED BY <1>1, <2>1, <2>2 DEF TypeOK, RingOf
<1>2. CASE ring' = [ring EXCEPT ![p] = add_to_waitlist(q, t)] /\ pc' = [pc EXCEPT ![t] = "blocked"]
  <2> DEFINE r == add_to_waitlist(q, t)
  <2>1. ring'[p] = r /\ pc'[t] = "blocked"
    BY <1>2 DEF TypeOK
  <2>2. BlockedOn(p)' = (BlockedOn(p) \ {t}) \cup {t}
    BY <1>0, <2>1 DEF BlockedOn
  <2>3. Members(r) = Members(q) \cup {t} /\ OneNodeEach(r)
    BY RingAppendMembers DEF OneNodeEach
  <2> QED BY <1>2, <2>1, <2>2, <2>3 DEF TypeOK, RingOf
<1> QED BY <1>1, <1>2 DEF TryLock, Back

\* Every step keeps the rings of live ports and the blocked readers in agreement.
LEMMA LiveRingStep ==
  ASSUME TypeOK, ReadersKnowPort, DeadPortsEmpty, RingMatchesReaders, [Next]_vars,
         NEW x \in Ports, port'[x] = "live"
  PROVE  RingOf(x)'
<1>0. \A p \in Ports : port[p] = "live" => RingOf(p)
  BY DEF RingMatchesReaders, RingOf
<1>a. ASSUME port[x] = "live", ring'[x] = ring[x], BlockedOn(x)' = BlockedOn(x)
      PROVE RingOf(x)'
  BY <1>0, <1>a DEF RingOf
<1>1. ASSUME NEW t \in Threads, NEW p \in Ports, sys_create_port(t, p) PROVE RingOf(x)'
  <2>1. ring'[x] = ring[x] /\ BlockedOn(x)' = BlockedOn(x)
    BY <1>1 DEF TypeOK, BlockedOn, sys_create_port, Caller
  <2>2. CASE x # p
    BY <1>1, <1>a, <2>1, <2>2 DEF TypeOK, sys_create_port, link_port
  <2>3. CASE x = p
    <3>1. ring[x] = <<>>
      BY <1>1, <2>3 DEF sys_create_port, DeadPortsEmpty, Linked
    <3>2. BlockedOn(x) = {}
      BY <1>1, <2>3 DEF sys_create_port, BlockedOn, ReadersKnowPort, Reading
    <3>3. Members(<<>>) = {} /\ OneNodeEach(<<>>)
      BY DEF Members, OneNodeEach
    <3> QED BY <2>1, <3>1, <3>2, <3>3 DEF RingOf
  <2> QED BY <2>2, <2>3
<1>2. CASE Deletes
  <2>1. port[x] = "live" /\ ring'[x] = ring[x]
    BY <1>2, DeleteFrame
  <2>2. BlockedOn(x)' = BlockedOn(x)
    BY <1>2, DeleteFrame DEF BlockedOn
  <2> QED BY <1>a, <2>1, <2>2
<1>3. ASSUME NEW t \in Threads, NEW p \in Ports, send_msg_x(t, p) PROVE RingOf(x)'
  BY <1>3, <1>a DEF BlockedOn, send_msg_x, threadVars
<1>4. ASSUME NEW t \in Threads, NEW p \in Ports, NEW o \in Timeouts, get_msg_x(t, p, o)
      PROVE RingOf(x)'
  <2>1. BlockedOn(x)' = BlockedOn(x)
    BY <1>4 DEF TypeOK, BlockedOn, get_msg_x, take_message, start_waiting, Caller
  <2> QED BY <1>4, <1>a, <2>1 DEF get_msg_x
<1>5. ASSUME NEW t \in Threads, lock_sync(t) PROVE RingOf(x)'
  <2>p. PICK p \in Ports : p = arg[t].hPort
    BY <1>5, LockSyncFrame
  <2>0. /\ UNCHANGED portVars
        /\ \A u \in Threads : arg'[u].hPort = arg[u].hPort
        /\ \A u \in Threads : u # t => pc'[u] = pc[u]
        /\ pc[t] = "unlocked"
    BY <1>5, LockSyncFrame DEF lock_sync
  <2>1. port[x] = "live"
    BY <2>p, <2>0 DEF portVars
  <2>2. CASE port[p] # "live" /\ Back(t, "EINVAL") /\ UNCHANGED <<sync, ring>>
    <3>1. BlockedOn(x)' = BlockedOn(x)
      BY <2>p, <2>0, <2>2 DEF TypeOK, BlockedOn, Back
    <3> QED BY <1>a, <2>1, <2>2, <3>1
  <2>3. CASE port[p] = "live" /\ TryLock(t, p, ring[p])
    <3>1. ring[p] \in Seq(Threads) /\ t \notin BlockedOn(p) /\ RingOf(p)
      BY <1>0, <2>p, <2>0, <2>3 DEF TypeOK, BlockedOn
    <3>2. RingOf(p)' /\ \A y \in Ports : y # p => ring'[y] = ring[y]
      BY <2>p, <2>0, <2>3, <3>1, TryLockRing DEF RingOf
    <3>3. x # p => BlockedOn(x)' = BlockedOn(x)
      BY <2>p, <2>0 DEF BlockedOn
    <3> QED BY <1>a, <2>1, <3>2, <3>3
  <2> QED BY <1>5, <2>p, <2>2, <2>3 DEF lock_sync
<1>6. ASSUME NEW t \in Threads, lock_sync_resume(t) PROVE RingOf(x)'
  <2>p. PICK p \in Ports : p = arg[t].hPort
    BY <1>6, LockSyncFrame
  <2> DEFINE q == remove_from_waitlist(ring[p], t)
  <2>0. /\ UNCHANGED portVars
        /\ \A u \in Threads : arg'[u].hPort = arg[u].hPort
        /\ \A u \in Threads : u # t => pc'[u] = pc[u]
        /\ pc[t] = "blocked"
    BY <1>6, LockSyncFrame DEF lock_sync_resume
  <2>1. port[x] = "live"
    BY <2>p, <2>0 DEF portVars
  <2>2. x # p => BlockedOn(x)' = BlockedOn(x)
    BY <2>p, <2>0 DEF BlockedOn
  <2>3. ASSUME port[p] = "live"
        PROVE  q \in Seq(Threads) /\ Members(q) = BlockedOn(p) \ {t} /\ OneNodeEach(q)
    <3>1. ring[p] \in Seq(Threads) /\ RingOf(p) /\ t \in BlockedOn(p)
      BY <1>0, <2>p, <2>0, <2>3 DEF TypeOK, BlockedOn
    <3>2. q \in Seq(Threads)
      BY <3>1, RingRemoveType
    <3>3. Members(q) = Members(ring[p]) \ {t} /\ OneNodeEach(q)
      BY <3>1, RingRemoveMembers DEF RingOf, OneNodeEach
    <3> QED BY <3>1, <3>2, <3>3 DEF RingOf
  <2> HIDE DEF q
  <2>4. CASE port[p] # "live" /\ UNCHANGED <<sync, ring>>
    BY <1>a, <2>1, <2>2, <2>4
  <2>5. CASE port[p] = "live" /\ Back(t, "EINTR") /\ ring' = [ring EXCEPT ![p] = q]
    <3>1. pc'[t] = "relock" /\ ring'[p] = q /\ (x # p => ring'[x] = ring[x])
      BY <2>p, <2>0, <2>5 DEF TypeOK, Back
    <3>2. BlockedOn(p)' = BlockedOn(p) \ {t}
      BY <2>p, <2>0, <3>1 DEF BlockedOn
    <3> QED BY <1>a, <2>1, <2>2, <2>3, <2>5, <3>1, <3>2 DEF RingOf
  <2>6. CASE port[p] = "live" /\ TryLock(t, p, q)
    <3>1. RingOf(p)' /\ \A y \in Ports : y # p => ring'[y] = ring[y]
      BY <2>p, <2>0, <2>3, <2>6, TryLockRing
    <3> QED BY <1>a, <2>1, <2>2, <3>1
  <2> QED BY <1>6, <2>p, <2>4, <2>5, <2>6 DEF lock_sync_resume, q
<1>7. ASSUME NEW t \in Threads, revalidate(t) PROVE RingOf(x)'
  <2>1. /\ pc[t] = "relock" /\ UNCHANGED <<port, ring>>
        /\ \A u \in Threads : u # t => pc'[u] = pc[u] /\ arg'[u] = arg[u]
        /\ pc'[t] # "blocked"
    BY <1>7, RevalidateFrame
  <2>2. BlockedOn(x)' = BlockedOn(x)
    BY <2>1 DEF BlockedOn
  <2> QED BY <1>a, <2>1, <2>2
<1>8. ASSUME NEW t \in Threads,
             count_port(t) \/ send_signal(t) \/ handle_signals(t) \/ wake_up_sleepers(t)
      PROVE RingOf(x)'
  <2>1. UNCHANGED <<port, ring, arg>>
    BY <1>8 DEF count_port, send_signal, handle_signals, wake_up_sleepers, portVars
  <2>2. UNCHANGED pc \/ (pc[t] = "created" /\ pc' = [pc EXCEPT ![t] = "idle"])
    BY <1>8 DEF count_port, send_signal, handle_signals, wake_up_sleepers
  <2>3. BlockedOn(x)' = BlockedOn(x)
    BY <2>1, <2>2 DEF TypeOK, BlockedOn
  <2> QED BY <1>a, <2>1, <2>3
<1>9. CASE UNCHANGED vars
  BY <1>9, <1>a DEF BlockedOn, vars, portVars, threadVars
<1> QED BY <1>1, <1>2, <1>3, <1>4, <1>5, <1>6, <1>7, <1>8, <1>9
        DEF Next, Client, Continue, Deletes

\* A thread blocks only on a live port, and a blocked one that goes on is woken only
\* then to block again.
LEMMA BlocksOnLive ==
  ASSUME TypeOK, ReadersKnowPort, NEW t \in Threads, lock_sync(t) \/ lock_sync_resume(t),
         port[arg[t].hPort] # "live"
  PROVE  pc'[t] = "relock" /\ UNCHANGED ring
<1>1. Back(t, "EINVAL") /\ UNCHANGED ring
  BY DEF lock_sync, lock_sync_resume
<1>2. "EINVAL" \in Errors
  BY DEF Errors
<1> QED BY <1>1, <1>2, BackReader

\* Who is blocked on a port that is not live was so before the step.
LEMMA BlockedBefore ==
  ASSUME TypeOK, ReadersKnowPort, [Next]_vars, NEW x \in Ports, port'[x] # "live"
  PROVE  BlockedOn(x)' \subseteq BlockedOn(x)
<1>1. CASE Deletes
  BY <1>1, DeleteFrame DEF BlockedOn
<1>2. ASSUME NEW t \in Threads, NEW p \in Ports,
             sys_create_port(t, p) \/ send_msg_x(t, p) \/ \E o \in Timeouts : get_msg_x(t, p, o)
      PROVE  BlockedOn(x)' \subseteq BlockedOn(x)
  <2>1. \A u \in Threads : pc'[u] = "blocked" => pc[u] = "blocked" /\ arg'[u] = arg[u]
    BY <1>2 DEF TypeOK, sys_create_port, send_msg_x, get_msg_x, take_message, start_waiting,
                Caller, threadVars
  <2> QED BY <2>1 DEF BlockedOn
<1>3. ASSUME NEW t \in Threads, lock_sync(t) \/ lock_sync_resume(t)
      PROVE  BlockedOn(x)' \subseteq BlockedOn(x)
  <2>1. /\ \A u \in Threads : arg'[u].hPort = arg[u].hPort
        /\ \A u \in Threads : u # t => pc'[u] = pc[u]
        /\ port'[x] = port[x]
    BY <1>3, LockSyncFrame DEF portVars
  <2>2. arg[t].hPort = x => pc'[t] = "relock"
    BY <1>3, <2>1, BlocksOnLive
  <2> QED BY <2>1, <2>2 DEF BlockedOn
<1>4. ASSUME NEW t \in Threads, revalidate(t) PROVE BlockedOn(x)' \subseteq BlockedOn(x)
  BY <1>4, RevalidateFrame DEF BlockedOn
<1>5. ASSUME NEW t \in Threads,
             count_port(t) \/ send_signal(t) \/ handle_signals(t) \/ wake_up_sleepers(t)
      PROVE  BlockedOn(x)' \subseteq BlockedOn(x)
  <2>1. UNCHANGED arg /\ (UNCHANGED pc \/ (pc' = [pc EXCEPT ![t] = "idle"]))
    BY <1>5 DEF count_port, send_signal, handle_signals, wake_up_sleepers
  <2> QED BY <2>1 DEF TypeOK, BlockedOn
<1>6. CASE UNCHANGED vars
  BY <1>6 DEF BlockedOn, vars, threadVars
<1> QED BY <1>1, <1>2, <1>3, <1>4, <1>5, <1>6 DEF Next, Client, Continue, Deletes

\* The ring of a port that is being deleted does not change, whatever the readers do.
LEMMA DeletingRing ==
  ASSUME TypeOK, ReadersKnowPort, OwnerLists, [Next]_vars, NEW x \in Ports, port'[x] = "deleting"
  PROVE  Linked(x) /\ ring'[x] = ring[x]
<1>1. CASE Deletes
  BY <1>1, DeleteFrame, DeleteLinked
<1>2. ASSUME NEW t \in Threads, NEW p \in Ports,
             sys_create_port(t, p) \/ send_msg_x(t, p) \/ \E o \in Timeouts : get_msg_x(t, p, o)
      PROVE  Linked(x) /\ ring'[x] = ring[x]
  BY <1>2 DEF TypeOK, sys_create_port, send_msg_x, get_msg_x, Linked
<1>3. ASSUME NEW t \in Threads, lock_sync(t) \/ lock_sync_resume(t)
      PROVE  Linked(x) /\ ring'[x] = ring[x]
  <2>1. port'[x] = port[x] /\ arg[t].hPort \in Ports
    BY <1>3, LockSyncFrame DEF portVars
  <2>2. \/ UNCHANGED ring
        \/ port[arg[t].hPort] = "live" /\ \E q : ring' = [ring EXCEPT ![arg[t].hPort] = q]
    BY <1>3 DEF lock_sync, lock_sync_resume, TryLock
  <2> QED BY <2>1, <2>2 DEF TypeOK, Linked
<1>4. ASSUME NEW t \in Threads, revalidate(t) PROVE Linked(x) /\ ring'[x] = ring[x]
  BY <1>4, RevalidateFrame DEF Linked
<1>5. ASSUME NEW t \in Threads,
             count_port(t) \/ send_signal(t) \/ handle_signals(t) \/ wake_up_sleepers(t)
      PROVE  Linked(x) /\ ring'[x] = ring[x]
  BY <1>5 DEF count_port, send_signal, handle_signals, wake_up_sleepers, portVars, Linked
<1>6. CASE UNCHANGED vars
  BY <1>6 DEF vars, portVars, Linked
<1> QED BY <1>1, <1>2, <1>3, <1>4, <1>5, <1>6 DEF Next, Client, Continue, Deletes

\* Every step keeps the rings and the blocked readers in agreement.
LEMMA RingStep ==
  ASSUME TypeOK, ReadersKnowPort, DeadPortsEmpty, RingMatchesReaders, OwnerLists, [Next]_vars
  PROVE  RingMatchesReaders'
<1>1. ASSUME NEW x \in Ports, port'[x] = "live" PROVE RingOf(x)'
  BY <1>1, LiveRingStep
<1>2. ASSUME NEW x \in Ports, port'[x] = "deleting"
      PROVE  BlockedOn(x)' \subseteq Members(ring'[x])
  <2>1. Linked(x) /\ ring'[x] = ring[x] /\ BlockedOn(x)' \subseteq BlockedOn(x)
    BY <1>2, DeletingRing, BlockedBefore
  <2>2. BlockedOn(x) \subseteq Members(ring[x])
    BY <2>1 DEF Linked, RingMatchesReaders
  <2> QED BY <2>1, <2>2
<1> QED BY <1>1, <1>2 DEF RingMatchesReaders, RingOf

-----------------------------------------------------------------------------
(* Deleting wakes.                                                         *)

\* Every step keeps whoever is blocked on a deleted port awake, until a walk meets a
\* dead node.
LEMMA DeletionWakesStep ==
  ASSUME TypeOK, ReadersKnowPort, RingMatchesReaders, DeletionWakes, [Next]_vars
  PROVE  DeletionWakes'
<1> SUFFICES ASSUME ~dangling', NEW t \in Threads, pc'[t] = "blocked",
                    port'[arg'[t].hPort] = "deleted"
             PROVE  t \in awake'
  BY DEF DeletionWakes
<1>1. PICK x \in Ports : x = arg'[t].hPort
  <2>1. ReadersKnowPort'
    BY ReaderStep
  <2> QED BY <2>1 DEF ReadersKnowPort, Reading
<1>2. t \in BlockedOn(x)
  <2>1. t \in BlockedOn(x)'
    BY <1>1 DEF BlockedOn
  <2> QED BY <1>1, <2>1, BlockedBefore
<1>3. pc[t] = "blocked" /\ arg[t].hPort = x
  BY <1>2 DEF BlockedOn
<1>a. ASSUME ~dangling, port[x] = "deleted", t \in awake => t \in awake' PROVE t \in awake'
  BY <1>3, <1>a DEF DeletionWakes
<1>4. CASE Deletes
  <2>1. CASE port[x] = "deleted"
    BY <1>4, <1>a, <2>1, DeleteFrame
  <2>2. CASE port[x] # "deleted"
    <3>1. port[x] = "deleting" /\ Members(ring[x]) \subseteq awake'
      BY <1>1, <1>4, <2>2, DeleteFrame
    <3> QED BY <1>2, <3>1 DEF RingMatchesReaders
  <2> QED BY <2>1, <2>2
<1>5. ASSUME NEW u \in Threads, NEW p \in Ports,
             sys_create_port(u, p) \/ send_msg_x(u, p) \/ \E o \in Timeouts : get_msg_x(u, p, o)
      PROVE  t \in awake'
  <2>1. port[x] = "deleted" /\ dangling' = dangling /\ awake \subseteq awake'
    BY <1>1, <1>5 DEF TypeOK, sys_create_port, send_msg_x, get_msg_x
  <2> QED BY <1>a, <2>1
<1>6. ASSUME NEW u \in Threads, lock_sync(u) \/ lock_sync_resume(u) PROVE t \in awake'
  <2>1. port[x] = "deleted" /\ dangling' = dangling
    BY <1>1, <1>6 DEF lock_sync, lock_sync_resume, portVars
  <2>2. u # t
    BY <1>3, <1>6, <2>1, BlocksOnLive
  <2>3. awake \ {u} \subseteq awake'
    BY <1>6 DEF lock_sync, lock_sync_resume
  <2> QED BY <1>a, <2>1, <2>2, <2>3
<1>7. ASSUME NEW u \in Threads,
             \/ revalidate(u)
             \/ count_port(u) \/ send_signal(u) \/ handle_signals(u) \/ wake_up_sleepers(u)
      PROVE  t \in awake'
  <2>1. port[x] = "deleted" /\ dangling' = dangling /\ awake \subseteq awake'
    BY <1>1, <1>7 DEF revalidate, count_port, send_signal, handle_signals, wake_up_sleepers, portVars
  <2> QED BY <1>a, <2>1
<1>8. CASE UNCHANGED vars
  BY <1>1, <1>8, <1>a DEF vars, portVars
<1> QED BY <1>4, <1>5, <1>6, <1>7, <1>8 DEF Next, Client, Continue, Deletes

-----------------------------------------------------------------------------
(* Counts and messages.                                                    *)

\* There are finitely many holders.
LEMMA HoldersFinite ==
  ASSUME NEW p \in Ports
  PROVE  /\ IsFiniteSet(Holders(p)) /\ Cardinality(Holders(p)) \in Nat
         /\ IsFiniteSet(Holders(p)') /\ Cardinality(Holders(p)') \in Nat
<1>1. Holders(p) \in SUBSET Threads /\ Holders(p)' \in SUBSET Threads
  BY DEF Holders
<1>2. IsFiniteSet(Holders(p)) /\ IsFiniteSet(Holders(p)')
  BY <1>1, PortConstants, FS_Subset
<1> QED BY <1>2, FS_CardinalityType

\* The wait on the semaphore takes a count and makes its caller a holder, or
\* does neither.
LEMMA LockSyncResult ==
  ASSUME TypeOK, ReadersKnowPort, NEW t \in Threads, lock_sync(t) \/ lock_sync_resume(t)
  PROVE  /\ pc[t] # "relock"
         /\ \/ UNCHANGED sync /\ (pc'[t] = "blocked" \/ arg'[t].nError # "0")
            \/ /\ sync[arg[t].hPort] > 0
               /\ sync' = [sync EXCEPT ![arg[t].hPort] = @ - 1]
               /\ pc'[t] = "relock" /\ arg'[t].nError = "0"
<1> DEFINE p == arg[t].hPort
<1>1. pc[t] # "relock"
  BY DEF lock_sync, lock_sync_resume
<1>2. \/ UNCHANGED sync /\ pc' = [pc EXCEPT ![t] = "blocked"]
      \/ UNCHANGED sync /\ \E e \in Errors : e # "0" /\ Back(t, e)
      \/ sync[p] > 0 /\ sync' = [sync EXCEPT ![p] = @ - 1] /\ Back(t, "0")
  BY DEF lock_sync, lock_sync_resume, TryLock, Errors
<1>3. CASE UNCHANGED sync /\ pc' = [pc EXCEPT ![t] = "blocked"]
  BY <1>1, <1>3 DEF TypeOK
<1>4. CASE UNCHANGED sync /\ \E e \in Errors : e # "0" /\ Back(t, e)
  BY <1>1, <1>4, BackReader
<1>5. CASE sync[p] > 0 /\ sync' = [sync EXCEPT ![p] = @ - 1] /\ Back(t, "0")
  <2>1. "0" \in Errors
    BY DEF Errors
  <2> QED BY <1>1, <1>5, <2>1, BackReader
<1> QED BY <1>2, <1>3, <1>4, <1>5

\* What TokensCoverMessages says of one port.
Covered(p) == sync[p] + Cardinality(Holders(p)) >= mp_nCount[p]

\* Every step keeps a count for every message.
LEMMA CoverStep ==
  ASSUME TypeOK, ReadersKnowPort, DeadPortsEmpty, TokensCoverMessages, [Next]_vars
  PROVE  TokensCoverMessages'
<1>0. \A p \in Ports : port[p] = "live" => Covered(p)
  BY DEF TokensCoverMessages, Covered
<1> SUFFICES ASSUME NEW x \in Ports, port'[x] = "live" PROVE Covered(x)'
  BY DEF TokensCoverMessages, Covered
<1>t. /\ sync[x] \in Nat /\ mp_nCount[x] \in Nat
      /\ sync'[x] \in Nat /\ mp_nCount'[x] \in Nat
  BY TypeStep DEF TypeOK
<1>h. /\ IsFiniteSet(Holders(x)) /\ Cardinality(Holders(x)) \in Nat
      /\ Cardinality(Holders(x)') \in Nat
  BY HoldersFinite
<1>a. ASSUME port[x] = "live", sync'[x] - mp_nCount'[x] >= sync[x] - mp_nCount[x],
             Holders(x)' = Holders(x)
      PROVE  Covered(x)'
  BY <1>0, <1>a, <1>t, <1>h DEF Covered
<1>b. ASSUME mp_nCount'[x] = 0 PROVE Covered(x)'
  BY <1>b, <1>t, <1>h DEF Covered
<1>1. ASSUME NEW t \in Threads, NEW p \in Ports, sys_create_port(t, p) PROVE Covered(x)'
  <2>1. CASE x = p
    <3>1. mp_nCount'[x] = 0
      BY <1>1, <2>1 DEF sys_create_port, DeadPortsEmpty, Linked
    <3> QED BY <1>b, <3>1
  <2>2. CASE x # p
    <3>1. port[x] = "live" /\ UNCHANGED <<sync, mp_nCount>>
      BY <1>1, <2>2 DEF TypeOK, sys_create_port, link_port
    <3>2. Holders(x)' = Holders(x)
      BY <1>1 DEF TypeOK, Holders, sys_create_port, Caller
    <3> QED BY <1>a, <1>t, <3>1, <3>2
  <2> QED BY <2>1, <2>2
<1>2. CASE Deletes
  <2>1. port[x] = "live" /\ sync'[x] = sync[x] /\ mp_nCount'[x] = mp_nCount[x]
    BY <1>2, DeleteFrame
  <2>2. Holders(x)' = Holders(x)
    BY <1>2, DeleteFrame DEF Holders
  <2> QED BY <1>a, <1>t, <2>1, <2>2
<1>3. ASSUME NEW t \in Threads, NEW p \in Ports, send_msg_x(t, p) PROVE Covered(x)'
  <2>1. /\ port[x] = "live"
        /\ sync'[x] = (IF x = p THEN sync[x] + 1 ELSE sync[x])
        /\ mp_nCount'[x] = (IF x = p THEN mp_nCount[x] + 1 ELSE mp_nCount[x])
    BY <1>3 DEF TypeOK, send_msg_x
  <2>2. Holders(x)' = Holders(x)
    BY <1>3 DEF Holders, send_msg_x, threadVars
  <2> QED BY <1>a, <1>t, <2>1, <2>2
<1>4. ASSUME NEW t \in Threads, NEW p \in Ports, NEW o \in Timeouts, get_msg_x(t, p, o)
      PROVE Covered(x)'
  <2>0. port[x] = "live"
    BY <1>4 DEF get_msg_x
  <2>1. CASE take_message(t, p)
    <3>1. /\ sync'[x] >= (IF x = p THEN sync[x] - 1 ELSE sync[x])
          /\ mp_nCount'[x] = (IF x = p THEN mp_nCount[x] - 1 ELSE mp_nCount[x])
      BY <2>1 DEF TypeOK, take_message, TokenLeft
    <3>2. Holders(x)' = Holders(x)
      BY <2>1 DEF Holders, take_message
    <3> QED BY <1>a, <1>t, <2>0, <3>1, <3>2
  <2>2. CASE start_waiting(t, p, o)
    <3>1. UNCHANGED <<sync, mp_nCount>>
      BY <2>2 DEF start_waiting
    <3>2. Holders(x)' = Holders(x)
      BY <1>4, <2>2 DEF TypeOK, Holders, start_waiting, get_msg_x, Caller
    <3> QED BY <1>a, <1>t, <2>0, <3>1, <3>2
  <2> QED BY <1>4, <2>1, <2>2 DEF get_msg_x
<1>5. ASSUME NEW t \in Threads, lock_sync(t) \/ lock_sync_resume(t) PROVE Covered(x)'
  <2>p. PICK p \in Ports : p = arg[t].hPort
    BY <1>5, LockSyncFrame
  <2>0. /\ port[x] = "live" /\ mp_nCount'[x] = mp_nCount[x]
        /\ \A u \in Threads : arg'[u].hPort = arg[u].hPort
        /\ \A u \in Threads : u # t => pc'[u] = pc[u] /\ arg'[u] = arg[u]
        /\ pc[t] # "relock"
    BY <1>5, LockSyncFrame, LockSyncResult DEF portVars
  <2>1. CASE UNCHANGED sync /\ (pc'[t] = "blocked" \/ arg'[t].nError # "0")
    <3>1. Holders(x)' = Holders(x)
      BY <2>0, <2>1 DEF Holders
    <3> QED BY <1>a, <1>t, <2>0, <2>1, <3>1
  <2>2. CASE /\ sync' = [sync EXCEPT ![p] = @ - 1]
             /\ pc'[t] = "relock" /\ arg'[t].nError = "0"
    <3>1. CASE x # p
      <4>1. sync'[x] = sync[x]
        BY <2>2, <3>1 DEF TypeOK
      <4>2. Holders(x)' = Holders(x)
        BY <2>p, <2>0, <3>1 DEF Holders
      <4> QED BY <1>a, <1>t, <2>0, <4>1, <4>2
    <3>2. CASE x = p
      <4>1. sync'[x] = sync[x] - 1
        BY <2>2, <3>2 DEF TypeOK
      <4>2. Holders(x)' = Holders(x) \cup {t} /\ t \notin Holders(x)
        BY <2>p, <2>0, <2>2, <3>2 DEF Holders
      <4>3. Cardinality(Holders(x)') = Cardinality(Holders(x)) + 1
        BY <1>h, <4>2, FS_AddElement
      <4> QED BY <1>0, <1>t, <1>h, <2>0, <4>1, <4>3 DEF Covered
    <3> QED BY <3>1, <3>2
  <2> QED BY <1>5, <2>p, <2>1, <2>2, LockSyncResult
<1>6. ASSUME NEW t \in Threads, revalidate(t) PROVE Covered(x)'
  <2>p. PICK p \in Ports : p = arg[t].hPort
    BY <1>6, RevalidateCases
  <2>0. /\ port[x] = "live" /\ sync'[x] = sync[x] /\ pc[t] = "relock"
        /\ \A u \in Threads : u # t => pc'[u] = pc[u] /\ arg'[u] = arg[u]
        /\ pc'[t] # "relock"
    BY <1>6, RevalidateCases, RevalidateFrame
  <2>1. Holders(x)' = Holders(x) \ {t}
    BY <2>0 DEF Holders
  <2>2. CASE (arg[t].nError # "0" \/ port[p] # "live") /\ UNCHANGED mp_nCount
    <3>1. t \notin Holders(x)
      BY <2>p, <2>0, <2>2 DEF Holders
    <3> QED BY <1>a, <1>t, <2>0, <2>1, <2>2, <3>1
  <2>3. CASE /\ arg[t].nError = "0" /\ mp_nCount[p] > 0
             /\ mp_nCount' = [mp_nCount EXCEPT ![p] = @ - 1]
    <3>1. CASE x = p
      <4>1. mp_nCount'[x] = mp_nCount[x] - 1
        BY <2>3, <3>1 DEF TypeOK
      <4>2. Cardinality(Holders(x)') = Cardinality(Holders(x)) - 1
        <5>1. t \in Holders(x)
          BY <2>p, <2>0, <2>3, <3>1 DEF Holders
        <5> QED BY <1>h, <2>1, <5>1, FS_RemoveElement
      <4> QED BY <1>0, <1>t, <1>h, <2>0, <4>1, <4>2 DEF Covered
    <3>2. CASE x # p
      <4>1. mp_nCount'[x] = mp_nCount[x] /\ t \notin Holders(x)
        BY <2>p, <2>3, <3>2 DEF TypeOK, Holders
      <4> QED BY <1>a, <1>t, <2>0, <2>1, <4>1
    <3> QED BY <3>1, <3>2
  <2>4. CASE arg[t].nError = "0" /\ mp_nCount[p] = 0 /\ UNCHANGED mp_nCount
    <3>1. CASE x = p
      BY <1>b, <2>4, <3>1
    <3>2. CASE x # p
      <4>1. t \notin Holders(x)
        BY <2>p, <3>2 DEF Holders
      <4> QED BY <1>a, <1>t, <2>0, <2>1, <2>4, <4>1
    <3> QED BY <3>1, <3>2
  <2>5. \/ (arg[t].nError # "0" \/ port[p] # "live") /\ UNCHANGED mp_nCount
        \/ /\ arg[t].nError = "0" /\ mp_nCount[p] > 0
           /\ mp_nCount' = [mp_nCount EXCEPT ![p] = @ - 1]
        \/ arg[t].nError = "0" /\ mp_nCount[p] = 0 /\ UNCHANGED mp_nCount
    BY <1>6, <2>p, RevalidateCases
  <2> QED BY <2>2, <2>3, <2>4, <2>5
<1>7. ASSUME NEW t \in Threads,
             count_port(t) \/ send_signal(t) \/ handle_signals(t) \/ wake_up_sleepers(t)
      PROVE Covered(x)'
  <2>1. UNCHANGED <<port, sync, mp_nCount, arg>>
    BY <1>7 DEF count_port, send_signal, handle_signals, wake_up_sleepers, portVars
  <2>2. UNCHANGED pc \/ (pc[t] = "created" /\ pc' = [pc EXCEPT ![t] = "idle"])
    BY <1>7 DEF count_port, send_signal, handle_signals, wake_up_sleepers
  <2>3. Holders(x)' = Holders(x)
    BY <2>1, <2>2 DEF TypeOK, Holders
  <2> QED BY <1>a, <1>t, <2>1, <2>3
<1>8. CASE UNCHANGED vars
  <2>1. UNCHANGED <<port, sync, mp_nCount>> /\ Holders(x)' = Holders(x)
    BY <1>8 DEF Holders, vars, portVars, threadVars
  <2> QED BY <1>a, <1>t, <2>1
<1> QED BY <1>1, <1>2, <1>3, <1>4, <1>5, <1>6, <1>7, <1>8 DEF Next, Client, Continue, Deletes

-----------------------------------------------------------------------------
(* The lists of the processes.                                             *)

\* The ports of a process.
OwnedBy(r) == {p \in Ports : Linked(p) /\ mp_hOwner[p] = r}

\* What OwnerLists says of one process: its list, and its end.
ListOf(r) == Members(pr_ports[r]) = OwnedBy(r) /\ OneNodeEach(pr_ports[r])
EndOf(r) == r \in exited /\ pr_ports[r] # <<>> => port[Head(pr_ports[r])] = "deleting"

\* Every step keeps the lists of the processes equal to the ports they own.
LEMMA OwnerStep ==
  ASSUME TypeOK, OwnerLists, [Next]_vars
  PROVE  OwnerLists'
<1> DEFINE Goal == /\ \A r \in Procs : ListOf(r)' /\ EndOf(r)'
                   /\ \A p \in Ports : Linked(p)' => mp_hOwner'[p] \in Procs
<1>0. /\ \A r \in Procs : ListOf(r) /\ EndOf(r)
      /\ \A p \in Ports : Linked(p) => mp_hOwner[p] \in Procs
  BY DEF OwnerLists, OwnedBy, ListOf, EndOf
<1> SUFFICES Goal
  BY DEF OwnerLists, OwnedBy, ListOf, EndOf
<1>1. ASSUME NEW t \in Threads, NEW p \in Ports, sys_create_port(t, p) PROVE Goal
  <2> DEFINE o == ProcOf[t]
             l == add_to_waitlist(pr_ports[o], p)
  <2>1. o \in Procs /\ o \notin exited /\ ~Linked(p) /\ exited' = exited
    BY <1>1, PortConstants DEF sys_create_port, Caller, Linked
  <2>2. pr_ports[o] \in Seq(Ports) /\ p \notin Members(pr_ports[o])
    BY <1>0, <2>1 DEF TypeOK, OwnedBy, ListOf
  <2>3. Members(l) = Members(pr_ports[o]) \cup {p} /\ OneNodeEach(l)
    BY <1>0, <2>1, <2>2, RingAppendMembers DEF OneNodeEach, ListOf
  <2>4. pr_ports'[o] = l /\ \A r \in Procs : r # o => pr_ports'[r] = pr_ports[r]
    BY <1>1, <2>1 DEF TypeOK, sys_create_port, link_port, add_to_waitlist
  <2>5. \A x \in Ports : /\ port'[x] = IF x = p THEN "live" ELSE port[x]
                         /\ mp_hOwner'[x] = IF x = p THEN o ELSE mp_hOwner[x]
    BY <1>1 DEF TypeOK, sys_create_port, link_port
  <2> HIDE DEF l, o
  <2>6. OwnedBy(o)' = OwnedBy(o) \cup {p}
    BY <2>1, <2>5 DEF OwnedBy, Linked
  <2>7. \A r \in Procs : r # o => OwnedBy(r)' = OwnedBy(r)
    BY <2>1, <2>5 DEF OwnedBy, Linked
  <2>8. \A x \in Ports : Linked(x)' => mp_hOwner'[x] \in Procs
    BY <1>0, <2>1, <2>5 DEF Linked
  <2>9. \A r \in Procs : ListOf(r)'
    BY <1>0, <2>3, <2>4, <2>6, <2>7 DEF ListOf
  <2>10. \A r \in Procs : EndOf(r)'
    <3> SUFFICES ASSUME NEW r \in Procs, r \in exited, pr_ports'[r] # <<>>
                 PROVE  port'[Head(pr_ports'[r])] = "deleting"
      BY <2>1 DEF EndOf
    <3>1. pr_ports'[r] = pr_ports[r]
      BY <2>1, <2>4
    <3>2. Head(pr_ports[r]) \in Ports /\ port[Head(pr_ports[r])] = "deleting"
      BY <1>0, <3>1, FirstLinked DEF EndOf
    <3>3. Head(pr_ports[r]) # p
      BY <2>1, <3>2 DEF Linked
    <3> QED BY <2>5, <3>1, <3>2, <3>3
  <2> QED BY <2>8, <2>9, <2>10
<1>2. ASSUME UNCHANGED <<mp_hOwner, pr_ports>>,
             \A x \in Ports : port'[x] = port[x] \/ (port'[x] = "deleting" /\ Linked(x)),
             \A r \in Procs : r \in exited' \ exited /\ pr_ports[r] # <<>>
                                => port'[Head(pr_ports[r])] = "deleting"
      PROVE  Goal
  <2>1. \A x \in Ports : Linked(x)' = Linked(x)
    BY <1>2 DEF Linked
  <2>2. \A r \in Procs : OwnedBy(r)' = OwnedBy(r)
    BY <1>2, <2>1 DEF OwnedBy
  <2>3. \A r \in Procs : ListOf(r)'
    BY <1>0, <1>2, <2>2 DEF ListOf
  <2>4. ASSUME NEW r \in Procs PROVE EndOf(r)'
    <3> SUFFICES ASSUME r \in exited', pr_ports[r] # <<>>
                 PROVE  port'[Head(pr_ports[r])] = "deleting"
      BY <1>2 DEF EndOf
    <3>1. CASE r \in exited
      <4>1. Head(pr_ports[r]) \in Ports /\ port[Head(pr_ports[r])] = "deleting"
        BY <1>0, <3>1, FirstLinked DEF EndOf
      <4> QED BY <1>2, <4>1
    <3> QED BY <1>2, <3>1
  <2> QED BY <1>0, <1>2, <2>1, <2>3, <2>4
<1>3. ASSUME NEW t \in Threads, NEW p \in Ports, sys_delete_port(t, p) PROVE Goal
  <2>1. /\ UNCHANGED <<mp_hOwner, pr_ports>> /\ exited' = exited
        /\ \A x \in Ports : port'[x] = port[x] \/ (port'[x] = "deleting" /\ Linked(x))
    BY <1>3 DEF TypeOK, sys_delete_port, begin_delete, Linked
  <2> QED BY <1>2, <2>1
<1>4. ASSUME NEW r \in Procs, exit_free_ports(r) PROVE Goal
  <2>1. /\ UNCHANGED <<mp_hOwner, pr_ports>> /\ exited' = exited \cup {r}
        /\ pr_ports[r] = <<>> => port' = port
        /\ pr_ports[r] # <<>> => port' = [port EXCEPT ![Head(pr_ports[r])] = "deleting"]
    BY <1>4 DEF exit_free_ports, begin_delete
  <2>2. pr_ports[r] # <<>> => Linked(Head(pr_ports[r])) /\ Head(pr_ports[r]) \in Ports
    BY FirstLinked
  <2>3. \A x \in Ports : port'[x] = port[x] \/ (port'[x] = "deleting" /\ Linked(x))
    BY <2>1, <2>2 DEF TypeOK
  <2>4. pr_ports[r] # <<>> => port'[Head(pr_ports[r])] = "deleting"
    BY <2>1, <2>2 DEF TypeOK
  <2> QED BY <1>2, <2>1, <2>3, <2>4
<1>5. ASSUME NEW p \in Ports, do_delete_port(p) PROVE Goal
  <2>0. PICK o \in Procs : o = mp_hOwner[p]
    BY <1>0, <1>5 DEF do_delete_port, Linked
  <2> DEFINE l == remove_from_waitlist(pr_ports[o], p)
  <2>1. /\ port[p] = "deleting" /\ exited' = exited
        /\ mp_hOwner' = [mp_hOwner EXCEPT ![p] = NoProc]
        /\ pr_ports' = [pr_ports EXCEPT ![o] = l]
    BY <1>5, <2>0 DEF do_delete_port, unlink_port
  <2>2. pr_ports[o] \in Seq(Ports) /\ p \in Members(pr_ports[o])
    BY <1>0, <2>0, <2>1 DEF TypeOK, OwnedBy, ListOf, Linked
  <2>3. Members(l) = Members(pr_ports[o]) \ {p} /\ OneNodeEach(l)
    BY <1>0, <2>2, RingRemoveMembers DEF OneNodeEach, ListOf
  <2>4. l # <<>> => Head(l) \in Members(pr_ports[o]) \ {p}
    BY <2>2, FirstLinked
  <2>5. pr_ports'[o] = l /\ \A r \in Procs : r # o => pr_ports'[r] = pr_ports[r]
    BY <2>1, <2>2 DEF TypeOK
  <2>6. \A x \in Ports : port'[x] = IF x = p THEN "deleted"
                                    ELSE IF o \in exited /\ l # <<>> /\ x = Head(l) THEN "deleting"
                                    ELSE port[x]
    BY <1>5, <2>0, <2>5 DEF do_delete_port
  <2>7. \A x \in Ports : mp_hOwner'[x] = IF x = p THEN NoProc ELSE mp_hOwner[x]
    BY <2>1 DEF TypeOK
  <2> HIDE DEF l
  <2>8. Members(pr_ports[o]) = OwnedBy(o)
    BY <1>0, <2>2 DEF ListOf
  <2>9. \A x \in Ports : Linked(x)' <=> Linked(x) /\ x # p
    BY <2>4, <2>6, <2>8 DEF Linked, OwnedBy
  <2>10. OwnedBy(o)' = OwnedBy(o) \ {p}
    BY <2>7, <2>9 DEF OwnedBy
  <2>11. \A r \in Procs : r # o => OwnedBy(r)' = OwnedBy(r)
    BY <2>0, <2>7, <2>9 DEF OwnedBy
  <2>12. \A r \in Procs : ListOf(r)'
    BY <1>0, <2>3, <2>5, <2>10, <2>11 DEF ListOf
  <2>13. \A x \in Ports : Linked(x)' => mp_hOwner'[x] \in Procs
    BY <1>0, <2>7, <2>9
  <2>14. ASSUME NEW r \in Procs PROVE EndOf(r)'
    <3> SUFFICES ASSUME r \in exited, pr_ports'[r] # <<>>
                 PROVE  port'[Head(pr_ports'[r])] = "deleting"
      BY <2>1 DEF EndOf
    <3>1. CASE r = o
      <4>1. Head(l) \in Ports /\ Head(l) # p /\ l # <<>>
        BY <2>4, <2>5, <2>8, <3>1 DEF OwnedBy
      <4> QED BY <2>5, <2>6, <3>1, <4>1
    <3>2. CASE r # o
      <4>1. pr_ports'[r] = pr_ports[r]
        BY <2>5, <3>2
      <4>2. Head(pr_ports[r]) \in Ports /\ port[Head(pr_ports[r])] = "deleting"
        BY <1>0, <4>1, FirstLinked DEF EndOf
      <4>3. Head(pr_ports[r]) # p
        <5>1. pr_ports[r] \in Seq(Ports) /\ pr_ports[r] # <<>>
          BY <4>1 DEF TypeOK
        <5>2. Head(pr_ports[r]) \in OwnedBy(r)
          BY <1>0, <5>1, FirstMember DEF First, ListOf
        <5> QED BY <2>0, <3>2, <5>2 DEF OwnedBy
      <4> QED BY <2>6, <4>1, <4>2, <4>3
    <3> QED BY <3>1, <3>2
  <2> QED BY <2>12, <2>13, <2>14
<1>6. ASSUME NEW t \in Threads,
             \/ \E p \in Ports : send_msg_x(t, p) \/ \E o \in Timeouts : get_msg_x(t, p, o)
             \/ handle_signals(t) \/ send_signal(t) \/ wake_up_sleepers(t) \/ Continue(t)
      PROVE UNCHANGED <<port, mp_hOwner, pr_ports, exited>>
  <2>1. CASE \E p \in Ports : send_msg_x(t, p) \/ \E o \in Timeouts : get_msg_x(t, p, o)
    BY <2>1 DEF send_msg_x, get_msg_x
  <2>2. CASE handle_signals(t) \/ send_signal(t) \/ wake_up_sleepers(t) \/ count_port(t)
    BY <2>2 DEF handle_signals, send_signal, wake_up_sleepers, count_port, portVars
  <2>3. CASE lock_sync(t) \/ lock_sync_resume(t)
    BY <2>3 DEF lock_sync, lock_sync_resume, portVars
  <2>4. CASE revalidate(t)
    BY <2>4 DEF revalidate
  <2> QED BY <1>6, <2>1, <2>2, <2>3, <2>4 DEF Continue
<1>7. CASE UNCHANGED <<port, mp_hOwner, pr_ports, exited>>
  BY <1>2, <1>7
<1> HIDE DEF Goal
<1>8. \/ \E t \in Threads, p \in Ports : sys_create_port(t, p) \/ sys_delete_port(t, p)
      \/ \E r \in Procs : exit_free_ports(r)
      \/ \E p \in Ports : do_delete_port(p)
      \/ UNCHANGED <<port, mp_hOwner, pr_ports, exited>>
  <2>1. CASE UNCHANGED vars
    BY <2>1 DEF vars, portVars
  <2> QED BY <1>6, <2>1 DEF Next, Client
<1> QED BY <1>1, <1>3, <1>4, <1>5, <1>7, <1>8

-----------------------------------------------------------------------------
(* The invariant.                                                          *)

\* The initial states satisfy it.
LEMMA InvInit == Init => Inv
<1> SUFFICES ASSUME Init PROVE Inv
  OBVIOUS
<1>1. <<>> \in Seq(Ports) /\ <<>> \in Seq(Threads)
  OBVIOUS
<1>2. TypeOK
  <2>1. dangling \in BOOLEAN
    BY DEF Init
  <2>2. /\ mp_nCount \in [Ports -> Nat] /\ sync \in [Ports -> Nat] /\ nMessagePortCount \in Int
        /\ port \in [Ports -> {"none", "live", "deleting", "deleted"}]
        /\ pc \in [Threads -> Places] /\ arg \in [Threads -> Args]
    BY NoArgType DEF Init, Places
  <2> QED BY <1>1, <2>1, <2>2 DEF Init, TypeOK
<1>3. Members(<<>>) = {} /\ OneNodeEach(<<>>)
  BY DEF Members, OneNodeEach
<1>4. ReadersKnowPort
  BY DEF Init, ReadersKnowPort, Reading
<1>5. DeadPortsEmpty /\ RingMatchesReaders /\ DeletionWakes /\ TokensCoverMessages
  BY DEF Init, DeadPortsEmpty, RingMatchesReaders, DeletionWakes, TokensCoverMessages
<1>6. OwnerLists
  BY <1>3 DEF Init, OwnerLists, Linked
<1> QED BY <1>2, <1>4, <1>5, <1>6 DEF Inv

\* Every step keeps it.
LEMMA InvStep == Inv /\ [Next]_vars => Inv'
<1> SUFFICES ASSUME Inv, [Next]_vars PROVE Inv'
  OBVIOUS
<1>1. /\ TypeOK /\ ReadersKnowPort /\ DeadPortsEmpty
      /\ RingMatchesReaders /\ DeletionWakes /\ TokensCoverMessages /\ OwnerLists
  BY DEF Inv
<1> QED BY <1>1, TypeStep, ReaderStep, DeadStep, RingStep, DeletionWakesStep, CoverStep, OwnerStep
        DEF Inv

\* The inductive invariant of message ports holds for any threads, processes
\* and ports: msgport.c keeps its lists, counts and wait queues in agreement
\* although get_msg_x lets go of the lock in the middle and readers return while
\* delete_semaphore is between its two halves.
THEOREM PortInvariance == Spec => []Inv
BY InvInit, InvStep, PTL DEF Spec

\* No message of a port is left without a count of mp_hSyncSema that leads a
\* reader to it, however many readers take messages without taking a count.
THEOREM TokensCover == Spec => []TokensCoverMessages
<1>1. Inv => TokensCoverMessages
  BY DEF Inv
<1> QED BY <1>1, PortInvariance, PTL

\* The wait queue of every valid port holds exactly the blocked readers of it, and that
\* of a port being deleted at least these.
THEOREM PortRings == Spec => []RingMatchesReaders
<1>1. Inv => RingMatchesReaders
  BY DEF Inv
<1> QED BY <1>1, PortInvariance, PTL

\* Whoever is asleep on a port when its semaphore is deleted is awake afterwards, unless
\* the walk of do_delete_semaphore met the node of a reader that had returned.
THEOREM DeletedPortWakes == Spec => []DeletionWakes
<1>1. Inv => DeletionWakes
  BY DEF Inv
<1> QED BY <1>1, PortInvariance, PTL

\* unlink_port never meets a port of another process or one that is not
\* linked, and a process that has exited has no port but those being deleted.
THEOREM ProcessesListTheirPorts == Spec => []OwnerLists
<1>1. Inv => OwnerLists
  BY DEF Inv
<1> QED BY <1>1, PortInvariance, PTL

-----------------------------------------------------------------------------
(* The single reader.                                                      *)

\* A set of at most one element has no two.
LEMMA AtMostOne ==
  ASSUME NEW S, IsFiniteSet(S), Cardinality(S) <= 1, NEW a \in S, NEW b \in S
  PROVE  a = b
<1>1. Cardinality(S) \in Nat /\ (Cardinality(S) = 0 => S = {})
  BY FS_CardinalityType, FS_EmptySet
<1>2. Cardinality(S) = 1
  BY <1>1
<1>3. PICK x : S = {x}
  BY <1>2, FS_Singleton
<1> QED BY <1>3

\* While the only reader of a port is not about to take a message, a port
\* whose semaphore is 0 has none.
LEMMA NoneForReader ==
  ASSUME Inv, NEW t \in Threads, NEW p \in Ports, port[p] = "live",
         Cardinality(MayRead[p]) <= 1, t \in MayRead[p], pc[t] # "relock", sync[p] <= 0
  PROVE  mp_nCount[p] = 0
<1>1. MayRead[p] \in SUBSET Threads /\ IsFiniteSet(MayRead[p])
  BY PortConstants, FS_Subset
<1>2. Holders(p) = {}
  <2> SUFFICES ASSUME NEW u \in Holders(p) PROVE FALSE
    OBVIOUS
  <2>1. u \in MayRead[p] /\ pc[u] = "relock"
    BY DEF Holders, Inv, ReadersKnowPort, Reading
  <2> QED BY <1>1, <2>1, AtMostOne
<1>3. Cardinality(Holders(p)) = 0
  BY <1>2, FS_EmptySet
<1>4. sync[p] \in Nat /\ mp_nCount[p] \in Nat
  BY DEF Inv, TypeOK
<1> QED BY <1>3, <1>4 DEF Inv, TokensCoverMessages

\* Every step keeps the only reader of a port awake beside a message.
LEMMA WakeStep ==
  ASSUME Inv, MessageWakesReader, [Next]_vars
  PROVE  MessageWakesReader'
<1> SUFFICES ASSUME NEW x \in Ports, port'[x] = "live", Cardinality(MayRead[x]) <= 1,
                    mp_nCount'[x] > 0
             PROVE  Members(ring'[x]) \subseteq awake'
  BY DEF MessageWakesReader
<1>0. TypeOK /\ ReadersKnowPort /\ DeadPortsEmpty /\ RingMatchesReaders /\ OwnerLists
  BY DEF Inv
<1>a. ASSUME port[x] = "live", mp_nCount[x] > 0, ring'[x] = ring[x], awake \subseteq awake'
      PROVE  Members(ring'[x]) \subseteq awake'
  BY <1>a DEF MessageWakesReader
<1>1. ASSUME NEW t \in Threads, NEW p \in Ports, sys_create_port(t, p)
      PROVE  Members(ring'[x]) \subseteq awake'
  <2>1. UNCHANGED <<mp_nCount, ring, awake>> /\ (x # p => port[x] = "live")
    BY <1>0, <1>1 DEF TypeOK, sys_create_port, link_port
  <2>2. x # p
    BY <1>0, <1>1, <2>1 DEF sys_create_port, DeadPortsEmpty, Linked
  <2> QED BY <1>a, <2>1, <2>2
<1>2. CASE Deletes
  <2>1. /\ port[x] = "live" /\ mp_nCount'[x] = mp_nCount[x] /\ ring'[x] = ring[x]
        /\ awake \subseteq awake'
    BY <1>0, <1>2, DeleteFrame
  <2> QED BY <1>a, <2>1
<1>3. ASSUME NEW t \in Threads, NEW p \in Ports, send_msg_x(t, p)
      PROVE  Members(ring'[x]) \subseteq awake'
  <2>1. CASE x # p
    <3>1. port[x] = "live" /\ mp_nCount'[x] = mp_nCount[x] /\ ring' = ring /\ awake \subseteq awake'
      BY <1>0, <1>3, <2>1 DEF TypeOK, send_msg_x
    <3> QED BY <1>a, <3>1
  <2>2. CASE x = p
    <3>1. port[x] = "live" /\ ring' = ring /\ First(ring[x]) \subseteq awake'
      BY <1>3, <2>2 DEF send_msg_x
    <3>2. MayRead[x] \in SUBSET Threads /\ IsFiniteSet(MayRead[x])
      BY PortConstants, FS_Subset
    <3>3. Members(ring[x]) \subseteq MayRead[x]
      BY <1>0, <3>1 DEF RingMatchesReaders, BlockedOn, ReadersKnowPort, Reading
    <3>4. ring[x] \in Seq(Threads)
      BY <1>0 DEF TypeOK
    <3>5. SUFFICES ASSUME NEW u \in Members(ring[x]) PROVE u \in awake'
      BY <3>1
    <3>6. ring[x] # <<>>
      BY DEF Members
    <3>7. Head(ring[x]) \in Members(ring[x]) /\ First(ring[x]) = {Head(ring[x])}
      BY <3>4, <3>6, FirstMember DEF First
    <3>8. u = Head(ring[x])
      BY <3>2, <3>3, <3>7, AtMostOne
    <3> QED BY <3>1, <3>7, <3>8
  <2> QED BY <2>1, <2>2
<1>4. ASSUME NEW t \in Threads, NEW p \in Ports, NEW o \in Timeouts, get_msg_x(t, p, o)
      PROVE  Members(ring'[x]) \subseteq awake'
  <2>1. UNCHANGED <<port, ring, awake>>
    BY <1>4 DEF get_msg_x
  <2>2. mp_nCount' = mp_nCount \/ mp_nCount' = [mp_nCount EXCEPT ![p] = @ - 1]
    BY <1>4 DEF get_msg_x, take_message, start_waiting
  <2>3. mp_nCount[x] > 0
    <3>1. mp_nCount \in [Ports -> Nat] /\ mp_nCount[x] \in Nat
      BY <1>0 DEF TypeOK
    <3>2. mp_nCount'[x] = mp_nCount[x] \/ mp_nCount'[x] = mp_nCount[x] - 1
      BY <2>2, <3>1
    <3> QED BY <3>1, <3>2
  <2> QED BY <1>a, <2>1, <2>3
<1>5. ASSUME NEW t \in Threads, lock_sync(t) \/ lock_sync_resume(t)
      PROVE  Members(ring'[x]) \subseteq awake'
  <2>p. PICK p \in Ports : p = arg[t].hPort
    BY <1>0, <1>5, LockSyncFrame
  <2> DEFINE q == remove_from_waitlist(ring[p], t)
  <2>0. /\ port[x] = "live" /\ mp_nCount[x] > 0 /\ t \in MayRead[p] /\ pc[t] # "relock"
    BY <1>0, <1>5, <2>p, LockSyncFrame, LockSyncResult DEF portVars, ReadersKnowPort
  <2>1. awake' = awake \/ awake' = awake \ {t} \/ awake' = (awake \ {t}) \cup First(q)
    BY <1>5, <2>p DEF lock_sync, lock_sync_resume
  <2>2. CASE x # p
    <3>1. ring'[x] = ring[x]
      BY <1>0, <1>5, <2>p, <2>2 DEF lock_sync, lock_sync_resume, TryLock, TypeOK
    <3>2. t \notin Members(ring[x])
      BY <1>0, <2>p, <2>0, <2>2 DEF RingMatchesReaders, BlockedOn
    <3>3. Members(ring[x]) \subseteq awake
      BY <2>0 DEF MessageWakesReader
    <3> QED BY <2>1, <3>1, <3>2, <3>3
  <2>3. CASE x = p
    <3>1. sync[p] > 0
      BY <2>0, <2>3, NoneForReader DEF Inv, TypeOK
    <3>2. RingMatchesReaders'
      BY <1>0, RingStep
    <3>3. pc'[t] = "relock"
      <4>1. port[p] = "live" /\ ~(sync[p] <= 0)
        BY <1>0, <2>0, <2>3, <3>1 DEF TypeOK
      <4>2. \E e \in Errors : Back(t, e)
        BY <1>5, <2>p, <4>1 DEF lock_sync, lock_sync_resume, TryLock, Errors
      <4> QED BY <1>0, <4>2, BackReader
    <3>4. Members(ring'[x]) \subseteq MayRead[x] /\ t \notin Members(ring'[x])
      <4>1. ReadersKnowPort'
        BY <1>0, ReaderStep
      <4> QED BY <3>2, <3>3, <4>1 DEF RingMatchesReaders, BlockedOn, ReadersKnowPort, Reading
    <3>5. MayRead[x] \in SUBSET Threads /\ IsFiniteSet(MayRead[x])
      BY PortConstants, FS_Subset
    <3> QED BY <2>0, <2>3, <3>4, <3>5, AtMostOne
  <2> QED BY <2>2, <2>3
<1>6. ASSUME NEW t \in Threads, revalidate(t) PROVE Members(ring'[x]) \subseteq awake'
  <2>1. UNCHANGED <<port, ring, awake>>
    BY <1>6 DEF revalidate
  <2>2. mp_nCount' = mp_nCount \/ mp_nCount' = [mp_nCount EXCEPT ![arg[t].hPort] = @ - 1]
    BY <1>0, <1>6, RevalidateFrame
  <2>3. mp_nCount[x] > 0
    <3>1. mp_nCount \in [Ports -> Nat] /\ mp_nCount[x] \in Nat
      BY <1>0 DEF TypeOK
    <3>2. mp_nCount'[x] = mp_nCount[x] \/ mp_nCount'[x] = mp_nCount[x] - 1
      BY <2>2, <3>1
    <3> QED BY <3>1, <3>2
  <2> QED BY <1>a, <2>1, <2>3
<1>7. ASSUME NEW t \in Threads,
             count_port(t) \/ send_signal(t) \/ handle_signals(t) \/ wake_up_sleepers(t)
      PROVE  Members(ring'[x]) \subseteq awake'
  <2>1. UNCHANGED <<port, mp_nCount, ring>> /\ awake \subseteq awake'
    BY <1>7 DEF count_port, send_signal, handle_signals, wake_up_sleepers, portVars
  <2> QED BY <1>a, <2>1
<1>8. CASE UNCHANGED vars
  BY <1>a, <1>8 DEF vars, portVars
<1> QED BY <1>1, <1>2, <1>3, <1>4, <1>5, <1>6, <1>7, <1>8 DEF Next, Client, Continue, Deletes

\* The only reader of a port never sleeps while the port has a message, through
\* timeouts, signals and the window in which get_msg_x has let go of the lock.
THEOREM OnlyReaderWakes == Spec => []MessageWakesReader
<1>1. Init => MessageWakesReader
  BY DEF Init, MessageWakesReader
<1>2. Inv /\ MessageWakesReader /\ [Next]_vars => MessageWakesReader'
  BY WakeStep
<1> QED BY <1>1, <1>2, PortInvariance, PTL DEF Spec

-----------------------------------------------------------------------------
(* The count of all ports.                                                 *)

Uncounted == {t \in Threads : pc[t] = "created"}
Live      == {p \in Ports : Linked(p)}

\* Every step keeps ex_nMessagePortCount right, up to the ports about to be
\* counted.
LEMMA CountStep ==
  ASSUME Inv, PortCount, [Next]_vars
  PROVE  PortCount'
<1>0. TypeOK /\ ReadersKnowPort /\ OwnerLists
  BY DEF Inv
<1>1. /\ nMessagePortCount \in Int
      /\ nMessagePortCount + Cardinality(Uncounted) = Cardinality(Live)
  BY <1>0 DEF TypeOK, PortCount, Uncounted, Live
<1>2. IsFiniteSet(Uncounted) /\ IsFiniteSet(Live)
  <2>1. Uncounted \in SUBSET Threads /\ Live \in SUBSET Ports
    BY DEF Uncounted, Live
  <2> QED BY <2>1, PortConstants, FS_Subset
<1>3. Cardinality(Uncounted) \in Nat /\ Cardinality(Live) \in Nat
  BY <1>2, FS_CardinalityType
<1> SUFFICES nMessagePortCount' + Cardinality(Uncounted') = Cardinality(Live')
  BY DEF PortCount, Uncounted, Live
<1>4. ASSUME NEW t \in Threads, NEW p \in Ports, sys_create_port(t, p)
      PROVE  nMessagePortCount' + Cardinality(Uncounted') = Cardinality(Live')
  <2>1. Uncounted' = Uncounted \cup {t} /\ t \notin Uncounted
    BY <1>0, <1>4 DEF TypeOK, Uncounted, sys_create_port, Caller
  <2>2. Live' = Live \cup {p} /\ p \notin Live
    BY <1>0, <1>4 DEF TypeOK, Live, Linked, sys_create_port
  <2>3. /\ Cardinality(Uncounted') = Cardinality(Uncounted) + 1
        /\ Cardinality(Live') = Cardinality(Live) + 1
    BY <1>2, <2>1, <2>2, FS_AddElement
  <2> QED BY <1>1, <1>3, <1>4, <2>3 DEF sys_create_port
<1>5. ASSUME NEW t \in Threads, count_port(t)
      PROVE  nMessagePortCount' + Cardinality(Uncounted') = Cardinality(Live')
  <2>1. Uncounted' = Uncounted \ {t} /\ t \in Uncounted
    BY <1>0, <1>5 DEF TypeOK, Uncounted, count_port
  <2>2. Live' = Live
    BY <1>5 DEF Live, Linked, count_port, portVars
  <2>3. Cardinality(Uncounted') = Cardinality(Uncounted) - 1
    BY <1>2, <2>1, FS_RemoveElement
  <2> QED BY <1>1, <1>3, <1>5, <2>2, <2>3 DEF count_port
<1>6. ASSUME NEW p \in Ports, do_delete_port(p)
      PROVE  nMessagePortCount' + Cardinality(Uncounted') = Cardinality(Live')
  <2>1. Uncounted' = Uncounted
    BY <1>6 DEF Uncounted, do_delete_port
  <2>2. Deletes
    BY <1>6 DEF Deletes
  <2>3. port[p] = "deleting" /\ port'[p] = "deleted" /\ nMessagePortCount' = nMessagePortCount - 1
    BY <1>6 DEF do_delete_port
  <2>4. \A x \in Ports : x # p => port'[x] = port[x] \/ port'[x] = "deleting"
    BY <1>6 DEF do_delete_port
  <2>5. Live' = Live \ {p} /\ p \in Live
    BY <1>0, <2>2, <2>3, <2>4, DeleteLinked DEF Live, Linked
  <2>6. Cardinality(Live') = Cardinality(Live) - 1
    BY <1>2, <2>5, FS_RemoveElement
  <2> QED BY <1>1, <1>3, <2>1, <2>3, <2>6
<1>7. ASSUME NEW t \in Threads, NEW p \in Ports, sys_delete_port(t, p)
      PROVE  nMessagePortCount' + Cardinality(Uncounted') = Cardinality(Live')
  <2>1. Uncounted' = Uncounted /\ nMessagePortCount' = nMessagePortCount
    BY <1>0, <1>7 DEF TypeOK, Uncounted, sys_delete_port, Caller
  <2>2. Live' = Live
    BY <1>0, <1>7 DEF TypeOK, Live, Linked, sys_delete_port, begin_delete
  <2> QED BY <1>1, <2>1, <2>2
<1>8. ASSUME NEW r \in Procs, exit_free_ports(r)
      PROVE  nMessagePortCount' + Cardinality(Uncounted') = Cardinality(Live')
  <2>1. Uncounted' = Uncounted /\ nMessagePortCount' = nMessagePortCount
    BY <1>8 DEF Uncounted, exit_free_ports, threadVars
  <2>2. Deletes
    BY <1>8 DEF Deletes
  <2>3. \A x \in Ports : port'[x] = port[x] \/ port'[x] = "deleting"
    BY <1>0, <1>8 DEF TypeOK, exit_free_ports, begin_delete
  <2>4. Live' = Live
    BY <1>0, <2>2, <2>3, DeleteLinked DEF Live, Linked
  <2> QED BY <1>1, <2>1, <2>4
<1>9. CASE /\ UNCHANGED <<port, nMessagePortCount>>
           /\ \A u \in Threads : pc'[u] = "created" <=> pc[u] = "created"
  <2>1. Uncounted' = Uncounted /\ Live' = Live
    BY <1>9 DEF Uncounted, Live, Linked
  <2> QED BY <1>1, <1>9, <2>1
<1>10. ASSUME NEW t \in Threads,
              \/ \E p \in Ports : send_msg_x(t, p) \/ \E o \in Timeouts : get_msg_x(t, p, o)
              \/ handle_signals(t) \/ send_signal(t) \/ wake_up_sleepers(t)
              \/ lock_sync(t) \/ lock_sync_resume(t) \/ revalidate(t)
       PROVE  /\ UNCHANGED <<port, nMessagePortCount>>
              /\ \A u \in Threads : pc'[u] = "created" <=> pc[u] = "created"
  <2>1. CASE \E p \in Ports : send_msg_x(t, p) \/ \E o \in Timeouts : get_msg_x(t, p, o)
    BY <1>0, <2>1 DEF TypeOK, send_msg_x, get_msg_x, take_message, start_waiting, Caller, threadVars
  <2>2. CASE handle_signals(t) \/ send_signal(t) \/ wake_up_sleepers(t)
    BY <2>2 DEF handle_signals, send_signal, wake_up_sleepers, portVars
  <2>3. CASE lock_sync(t) \/ lock_sync_resume(t)
    <3>1. UNCHANGED nMessagePortCount
      BY <2>3 DEF lock_sync, lock_sync_resume
    <3> QED BY <1>0, <2>3, <3>1, LockSyncFrame DEF Reading, portVars
  <2>4. CASE revalidate(t)
    <3>1. UNCHANGED nMessagePortCount
      BY <2>4 DEF revalidate
    <3> QED BY <1>0, <2>4, <3>1, RevalidateFrame
  <2> QED BY <1>10, <2>1, <2>2, <2>3, <2>4
<1>11. \/ \E t \in Threads, p \in Ports : sys_create_port(t, p) \/ sys_delete_port(t, p)
       \/ \E t \in Threads : count_port(t)
       \/ \E r \in Procs : exit_free_ports(r)
       \/ \E p \in Ports : do_delete_port(p)
       \/ /\ UNCHANGED <<port, nMessagePortCount>>
          /\ \A u \in Threads : pc'[u] = "created" <=> pc[u] = "created"
  <2>1. CASE UNCHANGED vars
    BY <2>1 DEF vars, portVars, threadVars
  <2> QED BY <1>10, <2>1 DEF Next, Client, Continue
<1> QED BY <1>4, <1>5, <1>6, <1>7, <1>8, <1>9, <1>11

\* ex_nMessagePortCount counts the ports, although it is changed outside the
\* lock when a port is created.
THEOREM PortsCounted == Spec => []PortCount
<1>1. Init => PortCount
  <2> SUFFICES ASSUME Init PROVE PortCount
    OBVIOUS
  <2>1. /\ {t \in Threads : pc[t] = "created"} = {}
        /\ {p \in Ports : Linked(p)} = {}
    BY DEF Init, Linked
  <2>2. Cardinality({}) = 0 /\ nMessagePortCount = 0
    BY FS_EmptySet DEF Init
  <2> QED BY <2>1, <2>2 DEF PortCount
<1>2. Inv /\ PortCount /\ [Next]_vars => PortCount'
  BY CountStep
<1> QED BY <1>1, <1>2, PortInvariance, PTL DEF Spec
=============================================================================
