------------------------------- MODULE MsgPort -------------------------------
(***************************************************************************)
(* Message ports, kernel/kernel/msgport.c: a port is a list of messages    *)
(* and a counting semaphore, mp_hSyncSema, that is meant to count them.    *)
(*                                                                         *)
(* Everything that touches a port does so with g_hPortListSema held, a     *)
(* mutex (theorem MutexesExclude of SemaphoreProofs), so each stretch      *)
(* between locking and unlocking it is one step here, but for deleting:    *)
(* delete_semaphore lets go of its own lock between the removal of the     *)
(* handle and the walk that wakes the readers, and these go on meanwhile.  *)
(* get_msg_x lets go of g_hPortListSema to wait on mp_hSyncSema; the steps *)
(* of that wait are those of do_lock_semaphore_ex, as in module Semaphore. *)
(*                                                                         *)
(* Messages are counted and not told apart: they are linked in at the end  *)
(* and taken from the front within one step.                               *)
(***************************************************************************)
EXTENDS Integers, Sequences, FiniteSets, WaitQueue

CONSTANTS
  Threads,    \* thread ids
  Procs,      \* process ids
  NoProc,     \* the -1 of mp_hOwner
  ProcOf,     \* the process of each thread
  Ports,      \* port handles; a handle is not given out twice
  MayRead,    \* the threads that read each port
  Signalled,  \* the threads signals are sent to
  Timeouts,   \* the nTimeOut arguments used, a subset of TimeoutKinds
  MaxMsgs     \* bound on the messages of a port and on its semaphore

TimeoutKinds == {"zero", "finite", "INFINITE_TIMEOUT"}

ASSUME PortConstants ==
  /\ IsFiniteSet(Threads) /\ IsFiniteSet(Ports)
  /\ NoProc \notin Procs
  /\ ProcOf \in [Threads -> Procs]
  /\ MayRead \in [Ports -> SUBSET Threads]
  /\ Timeouts \subseteq TimeoutKinds
  /\ MaxMsgs \in Nat

VARIABLES
  port,          \* g_sMsgPorts: which handles are valid; the one being deleted
  mp_nCount,     \* messages of a port
  mp_hOwner,     \* the process a port belongs to
  pr_ports,      \* the ports linked to a process, pr_psFirstPort first
  sync,          \* the counter of mp_hSyncSema
  ring,          \* its wait queue
  dangling,      \* a walk of a queue met the node of a thread that had returned
  awake,         \* threads of a ring that were made ready
  tr_nSigPend,   \* threads with a pending signal
  expired,       \* threads whose timeout has run out
  pc,            \* where a thread is
  arg,           \* its arguments and the result of lock_semaphore
  exited,        \* processes that are gone
  nMessagePortCount   \* g_sSysBase.ex_nMessagePortCount

portVars   == <<port, mp_nCount, mp_hOwner, pr_ports>>
threadVars == <<tr_nSigPend, expired, pc, arg>>
vars == <<portVars, sync, ring, dangling, awake, threadVars, exited, nMessagePortCount>>

Errors == {"0", "EINVAL", "EWOULDBLOCK", "ETIME", "EINTR"}
Places == {"idle",       \* outside the kernel
           "created",    \* about to count the new port
           "deleting",   \* in do_delete_port, about to wake the readers
           "unlocked",   \* about to call lock_semaphore( hSyncSema, ... )
           "blocked",    \* in its wait queue
           "relock"}     \* back from it, about to lock g_hPortListSema
NoPort == "no port"
Args   == [hPort : Ports \cup {NoPort}, nTimeOut : TimeoutKinds, nError : Errors]
NoArg  == [hPort |-> NoPort, nTimeOut |-> "zero", nError |-> "0"]

Init ==
  /\ port = [p \in Ports |-> "none"]
  /\ mp_nCount = [p \in Ports |-> 0]
  /\ mp_hOwner = [p \in Ports |-> NoProc]
  /\ pr_ports = [r \in Procs |-> <<>>]
  /\ sync = [p \in Ports |-> 0]
  /\ ring = [p \in Ports |-> <<>>]
  /\ dangling = FALSE
  /\ awake = {}
  /\ tr_nSigPend = {}
  /\ expired = {}
  /\ pc = [t \in Threads |-> "idle"]
  /\ arg = [t \in Threads |-> NoArg]
  /\ exited = {}
  /\ nMessagePortCount = 0

\* A thread that may make a call.
Caller(t) == pc[t] = "idle" /\ ProcOf[t] \notin exited

\* Nobody is inside do_delete_port, with g_hPortListSema held.
PortListFree == \A p \in Ports : port[p] # "deleting"
-----------------------------------------------------------------------------
(* Creating and deleting.                                                  *)

\* The port goes to the end of the list of process r.
link_port(r, p) ==
  /\ mp_hOwner' = [mp_hOwner EXCEPT ![p] = r]
  /\ pr_ports' = [pr_ports EXCEPT ![r] = Append(@, p)]

\* sys_create_port up to the release of g_hPortListSema ...
sys_create_port(t, p) ==
  /\ Caller(t) /\ PortListFree
  /\ port[p] = "none"
  /\ port' = [port EXCEPT ![p] = "live"]
  /\ link_port(ProcOf[t], p)
  /\ pc' = [pc EXCEPT ![t] = "created"]
  /\ UNCHANGED <<mp_nCount, sync, ring, awake, tr_nSigPend, expired, arg, dangling, exited,
                 nMessagePortCount>>

\* ... and after it.
count_port(t) ==
  /\ pc[t] = "created"
  /\ nMessagePortCount' = nMessagePortCount + 1
  /\ pc' = [pc EXCEPT ![t] = "idle"]
  /\ UNCHANGED <<portVars, sync, ring, awake, tr_nSigPend, expired, arg, dangling, exited>>

\* do_delete_port begins: MArray_Remove, and the first half of delete_semaphore,
\* which takes the handle of mp_hSyncSema out of its table.
begin_delete(p) == port' = [port EXCEPT ![p] = "deleting"]

\* Only the owner may delete a port.
sys_delete_port(t, p) ==
  /\ Caller(t) /\ PortListFree
  /\ port[p] = "live" /\ mp_hOwner[p] = ProcOf[t]
  /\ begin_delete(p)
  /\ pc' = [pc EXCEPT ![t] = "deleting"]
  /\ UNCHANGED <<mp_nCount, mp_hOwner, pr_ports, sync, ring, dangling, awake, tr_nSigPend, expired, arg,
                 exited, nMessagePortCount>>

\* The last thread of process r ends: it deletes the ports of r, the first one first.
exit_free_ports(r) ==
  /\ PortListFree
  /\ r \notin exited
  /\ \A t \in Threads : ProcOf[t] = r => pc[t] = "idle"
  /\ IF pr_ports[r] = <<>> THEN UNCHANGED port ELSE begin_delete(Head(pr_ports[r]))
  /\ exited' = exited \cup {r}
  /\ UNCHANGED <<mp_nCount, mp_hOwner, pr_ports, sync, ring, dangling, awake, threadVars, nMessagePortCount>>

\* Mutant: the readers are not woken.
delete_semaphore_quietly(p) ==
  /\ ring' = [ring EXCEPT ![p] = <<>>]
  /\ sync' = [sync EXCEPT ![p] = 0]
  /\ UNCHANGED <<awake, dangling>>

\* The second half of delete_semaphore walks the ring of p and wakes everybody in it.
\* The node of a reader that has returned meanwhile is dead stack memory: what the
\* walk does from there on is undefined.
delete_semaphore(p) ==
  LET q == ring[p]
      Dead == {t \in Members(q) : pc[t] # "blocked"}
      Intact == {i \in 1..Len(q) : \A j \in 1..i : q[j] \notin Dead}
  IN
  /\ \E W \in SUBSET (Members(q) \ Dead) :
       /\ {q[i] : i \in Intact} \subseteq W
       /\ Dead = {} => W = Members(q)
       /\ awake' = awake \cup W
  /\ dangling' = (dangling \/ Dead # {})
  /\ ring' = [ring EXCEPT ![p] = <<>>]
  /\ sync' = [sync EXCEPT ![p] = 0]

\* The port leaves the list of process r, which is linked the way wait nodes are.
unlink_port(r, p) ==
  /\ mp_hOwner' = [mp_hOwner EXCEPT ![p] = NoProc]
  /\ pr_ports' = [pr_ports EXCEPT ![r] = remove_from_waitlist(@, p)]

\* do_delete_port ends: the semaphore, the messages, the links and the count.  The
\* loop of exit_free_ports goes on with the next port of the process.
do_delete_port(p) ==
  /\ port[p] = "deleting"
  /\ delete_semaphore(p)
  /\ mp_nCount' = [mp_nCount EXCEPT ![p] = 0]
  /\ LET r == mp_hOwner[p] IN
     /\ unlink_port(r, p)
     /\ port' = [x \in Ports |->
                   IF x = p THEN "deleted"
                   ELSE IF r \in exited /\ pr_ports'[r] # <<>> /\ x = Head(pr_ports'[r]) THEN "deleting"
                   ELSE port[x]]
  /\ nMessagePortCount' = nMessagePortCount - 1
  /\ pc' = [t \in Threads |-> IF pc[t] = "deleting" THEN "idle" ELSE pc[t]]
  /\ UNCHANGED <<tr_nSigPend, expired, arg, exited>>
-----------------------------------------------------------------------------
(* Sending and receiving.                                                  *)

\* wake_up_queue( ..., false ): the first thread of a ring, if it sleeps.
First(q) == IF q = <<>> THEN {} ELSE {Head(q)}

\* Mutant: the semaphore is released only for the first message of a list.
send_msg_x_first(t, p) ==
  /\ Caller(t) /\ PortListFree
  /\ port[p] = "live"
  /\ mp_nCount[p] < MaxMsgs /\ sync[p] < MaxMsgs
  /\ mp_nCount' = [mp_nCount EXCEPT ![p] = @ + 1]
  /\ sync' = [sync EXCEPT ![p] = IF mp_nCount[p] = 0 THEN @ + 1 ELSE @]
  /\ awake' = awake \cup First(ring[p])
  /\ UNCHANGED <<port, mp_hOwner, pr_ports, ring, threadVars, dangling, exited, nMessagePortCount>>

\* Mutant: the semaphore is counted up and nobody is woken.
send_msg_x_quietly(t, p) ==
  /\ Caller(t) /\ PortListFree
  /\ port[p] = "live"
  /\ mp_nCount[p] < MaxMsgs /\ sync[p] < MaxMsgs
  /\ mp_nCount' = [mp_nCount EXCEPT ![p] = @ + 1]
  /\ sync' = [sync EXCEPT ![p] = @ + 1]
  /\ UNCHANGED <<port, mp_hOwner, pr_ports, ring, awake, threadVars, dangling, exited, nMessagePortCount>>

\* Neither nMaxCount nor nTimeOut is looked at.
send_msg_x(t, p) ==
  /\ Caller(t) /\ PortListFree
  /\ port[p] = "live"
  /\ mp_nCount[p] < MaxMsgs /\ sync[p] < MaxMsgs
  /\ mp_nCount' = [mp_nCount EXCEPT ![p] = @ + 1]
  /\ sync' = [sync EXCEPT ![p] = @ + 1]
  /\ awake' = awake \cup First(ring[p])
  /\ UNCHANGED <<port, mp_hOwner, pr_ports, ring, threadVars, dangling, exited, nMessagePortCount>>

\* lock_semaphore( mp_hSyncSema, SEM_NOSIG, 0 ), whose failure is reported
\* and then ignored.
TokenLeft(n) == IF n > 0 THEN n - 1 ELSE n

\* get_msg_x finds a message at once: it takes it and a count.
take_message(t, p) ==
  /\ mp_nCount[p] > 0
  /\ sync' = [sync EXCEPT ![p] = TokenLeft(@)]
  /\ mp_nCount' = [mp_nCount EXCEPT ![p] = @ - 1]
  /\ UNCHANGED <<expired, pc, arg>>

\* It finds none and lets go of g_hPortListSema to wait.
start_waiting(t, p, nTimeOut) ==
  /\ mp_nCount[p] = 0
  /\ pc' = [pc EXCEPT ![t] = "unlocked"]
  /\ arg' = [arg EXCEPT ![t] = [hPort |-> p, nTimeOut |-> nTimeOut, nError |-> "0"]]
  /\ expired' = expired \ {t}
  /\ UNCHANGED <<sync, mp_nCount>>

get_msg_x(t, p, nTimeOut) ==
  /\ Caller(t) /\ PortListFree
  /\ t \in MayRead[p]
  /\ port[p] = "live"
  /\ take_message(t, p) \/ start_waiting(t, p, nTimeOut)
  /\ UNCHANGED <<port, mp_hOwner, pr_ports, ring, awake, tr_nSigPend, dangling, exited,
                 nMessagePortCount>>

\* lock_semaphore returns.
Back(t, nError) ==
  /\ pc' = [pc EXCEPT ![t] = "relock"]
  /\ arg' = [arg EXCEPT ![t].nError = nError]

\* One turn of the loop of do_lock_semaphore_ex; q is the ring without t.
TryLock(t, p, q) ==
  \/ /\ sync[p] > 0
     /\ sync' = [sync EXCEPT ![p] = @ - 1]
     /\ ring' = [ring EXCEPT ![p] = q]
     /\ Back(t, "0")
  \/ /\ sync[p] <= 0
     /\ arg[t].nTimeOut = "zero" \/ t \in expired
     /\ ring' = [ring EXCEPT ![p] = q]
     /\ Back(t, IF arg[t].nTimeOut = "zero" THEN "EWOULDBLOCK" ELSE "ETIME")
     /\ UNCHANGED sync
  \/ /\ sync[p] <= 0
     /\ arg[t].nTimeOut # "zero" /\ t \notin expired
     /\ ring' = [ring EXCEPT ![p] = add_to_waitlist(q, t)]
     /\ pc' = [pc EXCEPT ![t] = "blocked"]
     /\ UNCHANGED <<sync, arg>>

lock_sync(t) ==
  LET p == arg[t].hPort IN
  /\ pc[t] = "unlocked"
  /\ \/ port[p] # "live" /\ Back(t, "EINVAL") /\ UNCHANGED <<sync, ring>>
     \/ port[p] = "live" /\ TryLock(t, p, ring[p])
  /\ UNCHANGED <<portVars, awake, tr_nSigPend, expired, dangling, exited, nMessagePortCount>>

\* After Schedule(): the semaphore may be gone; a signal ends the wait and
\* passes the wake-up on.
lock_sync_resume(t) ==
  LET p == arg[t].hPort
      q == remove_from_waitlist(ring[p], t)
  IN
  /\ pc[t] = "blocked" /\ t \in awake
  /\ \/ /\ port[p] # "live"
        /\ Back(t, "EINVAL")
        /\ awake' = awake \ {t}
        /\ UNCHANGED <<sync, ring>>
     \/ /\ port[p] = "live" /\ t \in tr_nSigPend
        /\ Back(t, "EINTR")
        /\ ring' = [ring EXCEPT ![p] = q]
        /\ awake' = (awake \ {t}) \cup First(q)
        /\ UNCHANGED sync
     \/ /\ port[p] = "live" /\ t \notin tr_nSigPend
        /\ TryLock(t, p, q)
        /\ awake' = awake \ {t}
  /\ UNCHANGED <<portVars, tr_nSigPend, expired, dangling, exited, nMessagePortCount>>

\* Mutant: the handle is not looked up again.
revalidate_trusting(t) ==
  LET p == arg[t].hPort IN
  /\ pc[t] = "relock" /\ PortListFree
  /\ \/ /\ arg[t].nError # "0"
        /\ pc' = [pc EXCEPT ![t] = "idle"] /\ arg' = [arg EXCEPT ![t] = NoArg]
        /\ UNCHANGED <<mp_nCount, sync, expired>>
     \/ /\ arg[t].nError = "0"
        /\ mp_nCount' = [mp_nCount EXCEPT ![p] = @ - 1]
        /\ pc' = [pc EXCEPT ![t] = "idle"] /\ arg' = [arg EXCEPT ![t] = NoArg]
        /\ UNCHANGED <<sync, expired>>
  /\ UNCHANGED <<port, mp_hOwner, pr_ports, ring, awake, tr_nSigPend, dangling, exited,
                 nMessagePortCount>>

\* With g_hPortListSema held again: give up, take the message, or find that
\* another reader took it and start over, with the full timeout.
revalidate(t) ==
  LET p == arg[t].hPort IN
  /\ pc[t] = "relock" /\ PortListFree
  /\ \/ /\ arg[t].nError # "0" \/ port[p] # "live"
        /\ pc' = [pc EXCEPT ![t] = "idle"] /\ arg' = [arg EXCEPT ![t] = NoArg]
        /\ UNCHANGED <<mp_nCount, sync, expired>>
     \/ /\ arg[t].nError = "0" /\ port[p] = "live"
        /\ mp_nCount[p] > 0
        /\ mp_nCount' = [mp_nCount EXCEPT ![p] = @ - 1]
        /\ pc' = [pc EXCEPT ![t] = "idle"] /\ arg' = [arg EXCEPT ![t] = NoArg]
        /\ UNCHANGED <<sync, expired>>
     \/ /\ arg[t].nError = "0" /\ port[p] = "live"
        /\ start_waiting(t, p, arg[t].nTimeOut)
  /\ UNCHANGED <<port, mp_hOwner, pr_ports, ring, awake, tr_nSigPend, dangling, exited,
                 nMessagePortCount>>
-----------------------------------------------------------------------------
(* Signals and time.                                                       *)

send_signal(t) ==
  /\ t \in Signalled /\ t \notin tr_nSigPend
  /\ tr_nSigPend' = tr_nSigPend \cup {t}
  /\ awake' = IF pc[t] = "blocked" THEN awake \cup {t} ELSE awake
  /\ UNCHANGED <<portVars, sync, ring, expired, pc, arg, dangling, exited, nMessagePortCount>>

handle_signals(t) ==
  /\ pc[t] = "idle"
  /\ t \in tr_nSigPend
  /\ tr_nSigPend' = tr_nSigPend \ {t}
  /\ UNCHANGED <<portVars, sync, ring, awake, expired, pc, arg, dangling, exited, nMessagePortCount>>

\* The resume time of t passes, and wake_up_sleepers finds it.
wake_up_sleepers(t) ==
  /\ pc[t] \in {"unlocked", "blocked"}
  /\ arg[t].nTimeOut = "finite"
  /\ t \notin expired
  /\ expired' = expired \cup {t}
  /\ awake' = IF pc[t] = "blocked" THEN awake \cup {t} ELSE awake
  /\ UNCHANGED <<portVars, sync, ring, tr_nSigPend, pc, arg, dangling, exited, nMessagePortCount>>
-----------------------------------------------------------------------------
Client(t) ==
  \/ \E p \in Ports :
       \/ sys_create_port(t, p)
       \/ sys_delete_port(t, p)
       \/ send_msg_x(t, p)
       \/ \E o \in Timeouts : get_msg_x(t, p, o)
  \/ handle_signals(t)

\* The steps of a thread inside a call.
Continue(t) == count_port(t) \/ lock_sync(t) \/ lock_sync_resume(t) \/ revalidate(t)

Next ==
  \/ \E t \in Threads : Client(t) \/ Continue(t) \/ send_signal(t) \/ wake_up_sleepers(t)
  \/ \E r \in Procs : exit_free_ports(r)
  \/ \E p \in Ports : do_delete_port(p)

Spec == Init /\ [][Next]_vars

\* Every ready thread gets a CPU, also the one that deletes a port.
FairSpec ==
  /\ Spec
  /\ \A t \in Threads : WF_vars(Continue(t))
  /\ \A p \in Ports : WF_vars(do_delete_port(p))
-----------------------------------------------------------------------------
(* Properties.                                                             *)

\* The values of the state, as the code declares them.
TypeOK ==
  /\ port \in [Ports -> {"none", "live", "deleting", "deleted"}]
  /\ mp_nCount \in [Ports -> Nat]
  /\ mp_hOwner \in [Ports -> Procs \cup {NoProc}]
  /\ pr_ports \in [Procs -> Seq(Ports)]
  /\ sync \in [Ports -> Nat]
  /\ ring \in [Ports -> Seq(Threads)]
  /\ dangling \in BOOLEAN
  /\ awake \subseteq Threads
  /\ tr_nSigPend \subseteq Threads
  /\ expired \subseteq Threads
  /\ pc \in [Threads -> Places]
  /\ arg \in [Threads -> Args]
  /\ exited \subseteq Procs
  /\ nMessagePortCount \in Int

\* The readers that have taken a count of p's semaphore and not yet a message.
Holders(p) == {t \in Threads : pc[t] = "relock" /\ arg[t].nError = "0" /\ arg[t].hPort = p}

\* There is a count, on the semaphore or in the hands of a reader, for every
\* message: although a reader that finds a message takes it without a count
\* when a waiting reader was faster at the semaphore, and the waiting reader
\* then finds nothing, no message is left that no count will lead a reader to.
TokensCoverMessages ==
  \A p \in Ports : port[p] = "live" => sync[p] + Cardinality(Holders(p)) >= mp_nCount[p]

\* The threads that wait, or have waited, for a message inside get_msg_x.
Reading(t) == pc[t] \in {"unlocked", "blocked", "relock"}

\* A call inside get_msg_x is on a port that exists or existed, by one of its
\* readers.
ReadersKnowPort ==
  \A t \in Threads : Reading(t) =>
    arg[t].hPort \in Ports /\ t \in MayRead[arg[t].hPort] /\ port[arg[t].hPort] # "none"

\* The threads asleep, or woken and not yet back, in the wait on port p.
BlockedOn(p) == {t \in Threads : pc[t] = "blocked" /\ arg[t].hPort = p}

\* The wait queue of a port holds exactly the threads that are blocked on it,
\* one node each: timeouts and signals leave no dead node behind.  While the port
\* is being deleted it may also hold nodes of threads that have just returned.
RingMatchesReaders ==
  \A p \in Ports :
    /\ port[p] = "live" => Members(ring[p]) = BlockedOn(p) /\ OneNodeEach(ring[p])
    /\ port[p] = "deleting" => BlockedOn(p) \subseteq Members(ring[p])

\* When a port is deleted nobody sleeps on it for ever: do_delete_semaphore wakes all
\* who wait, unless its walk met the node of a reader that had left by a timeout or
\* a signal after the handle was gone (the window of sema.c:448).
DeletionWakes ==
  ~dangling => \A t \in Threads : pc[t] = "blocked" /\ port[arg[t].hPort] = "deleted" => t \in awake

\* A port with a single reader never leaves it asleep beside a message.
MessageWakesReader ==
  \A p \in Ports : port[p] = "live" /\ Cardinality(MayRead[p]) <= 1 /\ mp_nCount[p] > 0
    => Members(ring[p]) \subseteq awake

\* A port is linked to its process until do_delete_port unlinks it.
Linked(p) == port[p] \in {"live", "deleting"}

\* The lists of the processes hold exactly the ports they own, also after a
\* port is gone (the panic and the assertion of unlink_port), and a process that has
\* ended has no ports but those its last thread is just deleting.
OwnerLists ==
  /\ \A r \in Procs :
       /\ Members(pr_ports[r]) = {p \in Ports : Linked(p) /\ mp_hOwner[p] = r}
       /\ OneNodeEach(pr_ports[r])
       /\ r \in exited /\ pr_ports[r] # <<>> => port[Head(pr_ports[r])] = "deleting"
  /\ \A p \in Ports : Linked(p) => mp_hOwner[p] \in Procs

\* ex_nMessagePortCount counts the ports, but for those about to be counted.
PortCount ==
  nMessagePortCount + Cardinality({t \in Threads : pc[t] = "created"})
    = Cardinality({p \in Ports : Linked(p)})

\* A handle that was not given out, or is deleted, has no messages and an empty
\* wait queue.
DeadPortsEmpty ==
  \A p \in Ports : ~Linked(p) => mp_nCount[p] = 0 /\ ring[p] = <<>>

\* The inductive invariant: the parts above that need each other.
Inv ==
  /\ TypeOK
  /\ ReadersKnowPort
  /\ DeadPortsEmpty
  /\ RingMatchesReaders
  /\ DeletionWakes
  /\ TokensCoverMessages
  /\ OwnerLists

\* Whoever reads a port that is deleted returns, even if its signal, its timeout and
\* the walk of delete_semaphore come together, unless the walk met a dead node.
DeletedGetEnds ==
  \A t \in Threads :
    Reading(t) /\ port[arg[t].hPort] \in {"deleting", "deleted"} ~> pc[t] = "idle" \/ dangling

\* The only reader of a port returns when there is a message.
MessageReceived ==
  \A t \in Threads :
    Reading(t) /\ Cardinality(MayRead[arg[t].hPort]) = 1 /\ mp_nCount[arg[t].hPort] > 0
      ~> pc[t] = "idle"
=============================================================================
