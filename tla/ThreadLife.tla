----------------------------- MODULE ThreadLife ------------------------------
(***************************************************************************)
(* The life of threads and processes: do_exit and sys_Fork of              *)
(* kernel/kernel/fork.c, Thread_New, Thread_Delete and sys_spawn_thread of *)
(* threads.c, sys_wait4 and sys_wait_for_thread of schedule.c, and the     *)
(* signals of psignals.c that bear on them.                                *)
(*                                                                         *)
(* The tables of threads and the signals are protected by the scheduler's  *)
(* spinlock; a stretch with it is one step.  The counters of a process are *)
(* changed by atomic_add without it, and each such access is a step.       *)
(*                                                                         *)
(* TS_RUN stands for running and ready.  A thread that was spawned and not *)
(* started is in TS_WAIT outside of any call.                              *)
(***************************************************************************)
EXTENDS Integers, FiniteSets

CONSTANTS
  MaxThreads,         \* bound: handles, given out in order and not used twice
  MaxProcs,           \* bound: processes, as the handles
  MultiThreaded,      \* the processes that spawn threads
  PGroup,             \* pr_hPGroupID of the processes
  WaitArgs,           \* the <<hPid, nOptions>> of wait4
  Sent,               \* signals that programs send
  Masks               \* sets of threads that block, and that ignore, SIGCHLD

Threads == 1..MaxThreads
Procs   == 1..MaxProcs
init == 1
None == 0
Signals == {"SIGKILL", "SIGCHLD", "SIGCONT", "SIGSTOP"}
Options == {"WNOHANG", "WUNTRACED"}

ASSUME ThreadLifeTypes ==
  /\ MaxThreads \in Nat \ {0} /\ MaxProcs \in Nat \ {0}
  /\ MultiThreaded \subseteq Procs
  /\ WaitArgs \subseteq (Threads \cup {-1, 0}) \X SUBSET Options
  /\ Sent \subseteq Signals
  /\ Masks \subseteq (SUBSET Threads) \X (SUBSET Threads)

VARIABLES
  tr_nState, tr_hParent, tr_psProcess, tr_nSigPend,
  Blocking, Ignoring, \* threads that block, and that ignore, SIGCHLD
  unreported,         \* stopped threads whose tr_nExitCode is not 0
  tr_psTermWaitList,  \* the nodes of those who wait for a thread to end
  pc,                 \* where a thread is
  wait,               \* the arguments of its wait4, or what wait_for_thread waits for
  psChild,            \* the thread it creates or collects
  reaping,            \* threads whose wait4 is called by handle_signals
  pr_nThreadCount, pr_nLivingThreadCount,
  process             \* not created, live, closed by its last thread, freed, freed twice

thread == <<tr_hParent, tr_psProcess, tr_psTermWaitList>>
counts == <<pr_nThreadCount, pr_nLivingThreadCount, process>>
call   == <<wait, psChild, reaping>>
mask   == <<Blocking, Ignoring>>
vars   == <<mask, tr_nState, tr_nSigPend, unreported, pc, thread, call, counts>>

Alive   == {t \in Threads : tr_nState[t] \in {"TS_RUN", "TS_WAIT", "TS_STOPPED"}}
InTable == {t \in Threads : tr_nState[t] \in {"TS_RUN", "TS_WAIT", "TS_STOPPED", "TS_ZOMBIE"}}

\* The arguments matter during the call only.
NoCall == <<None, {}>>

At(t, place) == tr_nState[t] = "TS_RUN" /\ pc[t] = place
Goes(t, place) == pc' = [pc EXCEPT ![t] = place]
Returns(t) == Goes(t, "user") /\ wait' = [wait EXCEPT ![t] = NoCall]

Init ==
  /\ tr_nState = [t \in Threads |-> IF t = init THEN "TS_RUN" ELSE "none"]
  /\ tr_hParent = [t \in Threads |-> None]
  /\ tr_psProcess = [t \in Threads |-> IF t = init THEN 1 ELSE None]
  /\ tr_nSigPend = [t \in Threads |-> {}]
  /\ \E m \in Masks : Blocking = m[1] /\ Ignoring = m[2]
  /\ unreported = {} /\ reaping = {}
  /\ tr_psTermWaitList = [t \in Threads |-> {}]
  /\ pc = [t \in Threads |-> "user"]
  /\ wait = [t \in Threads |-> NoCall]
  /\ psChild = [t \in Threads |-> None]
  /\ pr_nThreadCount = [p \in Procs |-> IF p = 1 THEN 1 ELSE 0]
  /\ pr_nLivingThreadCount = pr_nThreadCount
  /\ process = [p \in Procs |-> IF p = 1 THEN "live" ELSE "none"]

-----------------------------------------------------------------------------
(* Signals.                                                                *)

tr_nSigBlock(t) == IF t \in Blocking THEN {"SIGCHLD"} ELSE {}

\* Mutant: a blocked SIGCHLD wakes nobody.
Unmasked_strict(u, S) == S \ tr_nSigBlock(u)

\* The pending signals S that wake thread u: SIGCHLD even if it is blocked.
Unmasked(u, S) == S \ (tr_nSigBlock(u) \ {"SIGCHLD"})

\* send_signal for the threads K: init is woken and gets nothing.
Pending(K, nSigNum) ==
  [u \in Threads |->
    IF u \in (K \cap Alive) \ {init} THEN tr_nSigPend[u] \cup {nSigNum} ELSE tr_nSigPend[u]]

Forces(nSigNum) == nSigNum \in {"SIGCONT", "SIGKILL"}
Woken(K, nSigNum) ==
  {u \in K : \/ /\ tr_nState[u] = "TS_WAIT"
                /\ u = init \/ Forces(nSigNum) \/ Unmasked(u, tr_nSigPend[u] \cup {nSigNum}) # {}
             \/ tr_nState[u] = "TS_STOPPED" /\ u # init /\ Forces(nSigNum)}

is_signals_pending(t) == tr_nSigPend[t] \ tr_nSigBlock(t) # {}

Runs(W) == [u \in Threads |-> IF u \in W THEN "TS_RUN" ELSE tr_nState[u]]

sys_kill(t, h, nSigNum) ==
  /\ At(t, "user") /\ t # init
  /\ h \in Alive
  /\ tr_nSigPend' = Pending({h}, nSigNum)
  /\ tr_nState' = Runs(Woken({h}, nSigNum))
  /\ UNCHANGED <<mask, unreported, pc, thread, call, counts>>

\* One signal on the way back to user mode, in the order of their numbers.  A
\* thread that ignores SIGCHLD collects its dead children first.
handle_signals(t) ==
  /\ At(t, "user")
  /\ LET S == tr_nSigPend[t] \ tr_nSigBlock(t)
         Handle(nSigNum) == tr_nSigPend' = [tr_nSigPend EXCEPT ![t] = @ \ {nSigNum}]
     IN  \/ /\ "SIGKILL" \in S
            /\ Handle("SIGKILL") /\ Goes(t, "do_exit")
            /\ UNCHANGED <<unreported, wait, reaping>>
         \/ /\ "SIGKILL" \notin S /\ "SIGCHLD" \in S
            /\ Handle("SIGCHLD")
            /\ IF t \in Ignoring
               THEN /\ Goes(t, "wait4") /\ wait' = [wait EXCEPT ![t] = <<-1, {"WNOHANG"}>>]
                    /\ reaping' = reaping \cup {t}
               ELSE UNCHANGED <<pc, wait, reaping>>
            /\ UNCHANGED unreported
         \/ /\ S \subseteq {"SIGCONT", "SIGSTOP"} /\ "SIGCONT" \in S
            /\ Handle("SIGCONT")
            /\ UNCHANGED <<unreported, pc, wait, reaping>>
         \/ /\ S = {"SIGSTOP"}
            /\ Handle("SIGSTOP") /\ Goes(t, "stop")
            /\ unreported' = unreported \cup {t}
            /\ UNCHANGED <<wait, reaping>>
  /\ UNCHANGED <<mask, tr_nState, thread, psChild, counts>>

stop_thread(t) ==
  /\ At(t, "stop")
  /\ tr_nSigPend' = Pending({tr_hParent[t]}, "SIGCHLD")
  /\ tr_nState' = [Runs(Woken({tr_hParent[t]}, "SIGCHLD")) EXCEPT ![t] = "TS_STOPPED"]
  /\ Goes(t, "user")
  /\ UNCHANGED <<mask, unreported, thread, call, counts>>

-----------------------------------------------------------------------------
(* Creating threads.                                                       *)

\* Handles are given out in order.
IsNext(h, state) == state[h] = "none" /\ \A g \in 1..(h - 1) : state[g] # "none"

Thread_New(p) ==
  /\ pr_nThreadCount' = [pr_nThreadCount EXCEPT ![p] = @ + 1]
  /\ pr_nLivingThreadCount' = [pr_nLivingThreadCount EXCEPT ![p] = @ + 1]

\* A new process with one thread, the child of its creator.  Until it is in the
\* table nobody knows it.
sys_Fork(t, c, p) ==
  /\ At(t, "user")
  /\ IsNext(c, tr_nState) /\ IsNext(p, process)
  /\ Thread_New(p)
  /\ process' = [process EXCEPT ![p] = "live"]
  /\ tr_nState' = [tr_nState EXCEPT ![c] = "TS_RUN"]
  /\ tr_hParent' = [tr_hParent EXCEPT ![c] = t]
  /\ tr_psProcess' = [tr_psProcess EXCEPT ![c] = p]
  /\ UNCHANGED <<mask, tr_nSigPend, unreported, pc, tr_psTermWaitList, call>>

\* Thread_New makes thread 1 the parent.
sys_spawn_thread(t, c) ==
  /\ At(t, "user") /\ tr_psProcess[t] \in MultiThreaded
  /\ IsNext(c, tr_nState)
  /\ Thread_New(tr_psProcess[t])
  /\ tr_nState' = [tr_nState EXCEPT ![c] = "created"]
  /\ tr_hParent' = [tr_hParent EXCEPT ![c] = init]
  /\ tr_psProcess' = [tr_psProcess EXCEPT ![c] = tr_psProcess[t]]
  /\ psChild' = [psChild EXCEPT ![t] = c]
  /\ Goes(t, "spawn")
  /\ UNCHANGED <<mask, tr_nSigPend, unreported, tr_psTermWaitList, wait, reaping, process>>

\* It goes into the table or, for want of memory, back with Thread_Delete, which
\* does not take it off pr_nLivingThreadCount.
spawn_thread_insert(t) ==
  /\ At(t, "spawn") /\ Goes(t, "user")
  /\ LET p == tr_psProcess[t]
         Child(s) == tr_nState' = [tr_nState EXCEPT ![psChild[t]] = s]
     IN  \/ Child("TS_WAIT") /\ UNCHANGED pr_nThreadCount
         \/ /\ Child("failed")
            /\ pr_nThreadCount' = [pr_nThreadCount EXCEPT ![p] = @ - 1]
  /\ psChild' = [psChild EXCEPT ![t] = None]
  /\ UNCHANGED <<mask, tr_nSigPend, unreported, thread, wait, reaping, pr_nLivingThreadCount, process>>

\* Whoever is in TS_WAIT goes on, started or not.
sys_resume_thread(t, h) ==
  /\ At(t, "user") /\ t # init
  /\ tr_nState[h] = "TS_WAIT"
  /\ tr_nState' = Runs({h})
  /\ UNCHANGED <<mask, tr_nSigPend, unreported, pc, thread, call, counts>>

-----------------------------------------------------------------------------
(* Ending.                                                                 *)

\* sys_exit_thread ends the caller; sys_exit sends SIGKILL to all threads of
\* the process first.
sys_exit_thread(t) ==
  /\ At(t, "user") /\ t # init /\ Goes(t, "do_exit")
  /\ UNCHANGED <<mask, tr_nState, tr_nSigPend, unreported, thread, call, counts>>

sys_exit(t) ==
  /\ At(t, "user") /\ t # init /\ Goes(t, "do_exit")
  /\ LET K == {u \in InTable : tr_psProcess[u] = tr_psProcess[t]}
     IN  tr_nSigPend' = Pending(K, "SIGKILL") /\ tr_nState' = Runs(Woken(K, "SIGKILL"))
  /\ UNCHANGED <<mask, unreported, thread, call, counts>>

\* Mutant: zombies count.
LastOut_inTable(p) == pr_nThreadCount[p] = 1

\* "Last out closing the door".
LastOut(p) == pr_nLivingThreadCount[p] = 1

do_exit(t) ==
  /\ At(t, "do_exit")
  /\ LET p == tr_psProcess[t] IN
     /\ pr_nLivingThreadCount' = [pr_nLivingThreadCount EXCEPT ![p] = @ - 1]
     /\ Goes(t, IF LastOut(p) THEN "close" ELSE "exit")
  /\ unreported' = unreported \ {t}
  /\ UNCHANGED <<mask, tr_nState, tr_nSigPend, thread, call, pr_nThreadCount, process>>

\* The last thread gives back the heap, images, files, ports and semaphores.
do_exit_close(t) ==
  /\ At(t, "close") /\ Goes(t, "exit")
  /\ process' = [process EXCEPT ![tr_psProcess[t]] = "closed"]
  /\ UNCHANGED <<mask, tr_nState, tr_nSigPend, unreported, thread, call, pr_nThreadCount, pr_nLivingThreadCount>>

Children(t) == {c \in InTable : tr_hParent[c] = t}

\* Mutant: zombies are left to nobody.
HandOver_living(t) ==
  tr_hParent' = [c \in Threads |-> IF c \in Children(t) \cap Alive THEN init ELSE tr_hParent[c]]

\* "Hand all childs over to psyko_killer".
HandOver(t) == tr_hParent' = [c \in Threads |-> IF c \in Children(t) THEN init ELSE tr_hParent[c]]

Notified(t) == {tr_hParent[t]} \cup IF Children(t) # {} THEN {init} ELSE {}

\* The rest is done under the lock.  The signals of a zombie are looked at by
\* nobody; the model drops them.
do_exit_zombie(t) ==
  /\ At(t, "exit") /\ Goes(t, "gone")
  /\ HandOver(t)
  /\ tr_nSigPend' = [Pending(Notified(t), "SIGCHLD") EXCEPT ![t] = {}]
  /\ LET W == {u \in tr_psTermWaitList[t] : tr_nState[u] = "TS_WAIT"}
     IN  tr_nState' = [Runs(Woken(Notified(t), "SIGCHLD") \cup W) EXCEPT ![t] = "TS_ZOMBIE"]
  /\ UNCHANGED <<mask, unreported, tr_psProcess, tr_psTermWaitList, call, counts>>

-----------------------------------------------------------------------------
(* Waiting.                                                                *)

\* Mutant: -1 is taken for 0.
Wanted_group(t, hPid) ==
  {c \in Children(t) : IF hPid \in {-1, 0} THEN PGroup[tr_psProcess[c]] = PGroup[tr_psProcess[t]]
                       ELSE c = hPid}

\* The children that hPid of t's wait4 names.
Wanted(t, hPid) ==
  {c \in Children(t) : CASE hPid = -1 -> TRUE
                         [] hPid = 0 -> PGroup[tr_psProcess[c]] = PGroup[tr_psProcess[t]]
                         [] OTHER -> c = hPid}

find_dead_child(t) ==
  {c \in Wanted(t, wait[t][1]) :
     \/ tr_nState[c] = "TS_ZOMBIE"
     \/ tr_nState[c] = "TS_STOPPED" /\ c \in unreported /\ "WUNTRACED" \in wait[t][2]}

\* A handle need only exist, whoever its parent is.
sys_wait4(t, hPid, nOptions) ==
  /\ At(t, "user")
  /\ IF hPid \in Threads THEN hPid \in InTable ELSE Wanted(t, hPid) # {}
  /\ wait' = [wait EXCEPT ![t] = <<hPid, nOptions>>]
  /\ Goes(t, "wait4")
  /\ UNCHANGED <<mask, tr_nState, tr_nSigPend, unreported, thread, psChild, reaping, counts>>

\* One turn of the loop, with the first child of the table.  Without a child the
\* code reads the state of a child at address 0 and goes on, as what it
\* finds there is not the number of a state.  init is woken on the way to
\* Thread_Delete, and goes round once more; the model wakes it here.  When the
\* status cannot be written to the caller's memory (EFAULT) a zombie is left as it
\* is, and a stop counts as reported; init and handle_signals ask for no status.
sys_wait4_turn(t) ==
  /\ At(t, "wait4")
  /\ LET D == find_dead_child(t)
         First == {c \in D : \A d \in D : c <= d}
     IN
     \/ \E c \in First :
          /\ tr_nState[c] = "TS_STOPPED"
          /\ unreported' = unreported \ {c}
          /\ Returns(t)
          /\ UNCHANGED <<tr_nState, psChild, reaping>>
     \/ \E c \in First :
          /\ tr_nState[c] = "TS_ZOMBIE"
          /\ psChild' = [psChild EXCEPT ![t] = c]
          /\ tr_nState' = Runs({init} \cap {u \in Threads : tr_nState[u] = "TS_WAIT"})
          /\ Goes(t, "collect")
          /\ UNCHANGED <<unreported, wait, reaping>>
     \/ /\ \E c \in First : tr_nState[c] = "TS_ZOMBIE"
        /\ t # init /\ t \notin reaping
        /\ Returns(t)
        /\ UNCHANGED <<tr_nState, unreported, psChild, reaping>>
     \/ /\ D = {} /\ ("WNOHANG" \in wait[t][2] \/ is_signals_pending(t))
        /\ Returns(t)
        /\ reaping' = reaping \ {t}
        /\ UNCHANGED <<tr_nState, unreported, psChild>>
     \/ /\ D = {} /\ "WNOHANG" \notin wait[t][2] /\ ~is_signals_pending(t)
        /\ tr_nState' = [tr_nState EXCEPT ![t] = "TS_WAIT"]
        /\ UNCHANGED <<pc, unreported, wait, psChild, reaping>>
  /\ UNCHANGED <<mask, tr_nSigPend, thread, counts>>

\* Thread_Delete: the thread leaves the table ...
Thread_Delete(t) ==
  /\ At(t, "collect") /\ Goes(t, "uncount")
  /\ tr_nState' = [tr_nState EXCEPT ![psChild[t]] = "deleted"]
  /\ tr_psTermWaitList' = [tr_psTermWaitList EXCEPT ![psChild[t]] = {}]
  /\ UNCHANGED <<mask, tr_nSigPend, unreported, tr_hParent, tr_psProcess, call, counts>>

\* ... is taken off the count ...
Thread_Delete_count(t) ==
  /\ At(t, "uncount") /\ Goes(t, "free")
  /\ pr_nThreadCount' = [pr_nThreadCount EXCEPT ![tr_psProcess[psChild[t]]] = @ - 1]
  /\ UNCHANGED <<mask, tr_nState, tr_nSigPend, unreported, thread, call, pr_nLivingThreadCount, process>>

\* ... and the process goes if the count, which is read again, is 0.  Another
\* collector may have read 0 before and freed it: then what is read is undefined,
\* and the process may be freed a second time.
Thread_Delete_process(t) ==
  /\ At(t, "free")
  /\ IF t \in reaping THEN Goes(t, "wait4") /\ UNCHANGED wait ELSE Returns(t)
  /\ LET p == tr_psProcess[psChild[t]]
         Free(s) == process' = [process EXCEPT ![p] = s]
     IN  IF process[p] \in {"freed", "freed twice"}
         THEN UNCHANGED process \/ Free("freed twice")
         ELSE IF pr_nThreadCount[p] = 0 THEN Free("freed") ELSE UNCHANGED process
  /\ psChild' = [psChild EXCEPT ![t] = None]
  /\ UNCHANGED <<mask, tr_nState, tr_nSigPend, unreported, thread, reaping, pr_nThreadCount, pr_nLivingThreadCount>>

sys_wait_for_thread(t, h) ==
  /\ At(t, "user") /\ t # init
  /\ h \in Alive
  /\ tr_psTermWaitList' = [tr_psTermWaitList EXCEPT ![h] = @ \cup {t}]
  /\ tr_nState' = [tr_nState EXCEPT ![t] = "TS_WAIT"]
  /\ wait' = [wait EXCEPT ![t] = <<h, {}>>]
  /\ Goes(t, "wait_for_thread")
  /\ UNCHANGED <<mask, tr_nSigPend, unreported, tr_hParent, tr_psProcess, psChild, reaping, counts>>

\* The thread may be gone, and its list with it.
sys_wait_for_thread_resume(t) ==
  /\ At(t, "wait_for_thread") /\ Returns(t)
  /\ LET h == wait[t][1] IN
     tr_psTermWaitList' = IF h \notin InTable THEN tr_psTermWaitList
                          ELSE [tr_psTermWaitList EXCEPT ![h] = @ \ {t}]
  /\ UNCHANGED <<mask, tr_nState, tr_nSigPend, unreported, tr_hParent, tr_psProcess, psChild, reaping, counts>>

-----------------------------------------------------------------------------
\* What a thread does inside the kernel.
Continue(t) ==
  \/ handle_signals(t) \/ stop_thread(t) \/ spawn_thread_insert(t)
  \/ do_exit(t) \/ do_exit_close(t) \/ do_exit_zombie(t)
  \/ sys_wait4_turn(t) \/ sys_wait_for_thread_resume(t)
  \/ Thread_Delete(t) \/ Thread_Delete_count(t) \/ Thread_Delete_process(t)

\* init only creates processes and collects.
InitWaits == sys_wait4(init, -1, {})

Next ==
  \/ InitWaits
  \/ \E t \in Threads :
       \/ Continue(t)
       \/ sys_exit_thread(t) \/ sys_exit(t)
       \/ \E c \in Threads : sys_spawn_thread(t, c) \/ \E p \in Procs : sys_Fork(t, c, p)
       \/ \E h \in Threads :
            \/ sys_resume_thread(t, h) \/ sys_wait_for_thread(t, h)
            \/ \E nSigNum \in Sent : sys_kill(t, h, nSigNum)
       \/ t # init /\ \E a \in WaitArgs : sys_wait4(t, a[1], a[2])

Spec == Init /\ [][Next]_vars

\* Every thread that can run gets a CPU, and init never stops collecting.
Fairness == WF_vars(InitWaits) /\ \A t \in Threads : WF_vars(Continue(t))

FairSpec == Spec /\ Fairness

-----------------------------------------------------------------------------
(* Properties.                                                             *)

\* The variables have the types of Thread_s and Process_s; a thread whose stop is
\* unreported, or that collects its children, is alive.
TypeOK ==
  /\ tr_nState \in [Threads -> {"none", "created", "TS_RUN", "TS_WAIT", "TS_STOPPED", "TS_ZOMBIE", "deleted",
                            "failed"}]
  /\ tr_hParent \in [Threads -> Threads \cup {None}]
  /\ tr_psProcess \in [Threads -> Procs \cup {None}]
  /\ tr_nSigPend \in [Threads -> SUBSET Signals]
  /\ unreported \subseteq Alive /\ reaping \subseteq Alive
  /\ tr_psTermWaitList \in [Threads -> SUBSET Threads]
  /\ pc \in [Threads -> {"user", "do_exit", "close", "exit", "gone", "spawn", "stop", "wait4", "collect",
                         "uncount", "free", "wait_for_thread"}]
  /\ wait \in [Threads -> (Threads \cup {-1, 0}) \X SUBSET Options]
  /\ psChild \in [Threads -> Threads \cup {None}]
  /\ pr_nThreadCount \in [Procs -> Nat] /\ pr_nLivingThreadCount \in [Procs -> Nat]
  /\ process \in [Procs -> {"none", "live", "closed", "freed", "freed twice"}]

\* Every thread has a parent that is in the table and can still collect it, and
\* what a thread collects is a zombie of its own.
ParentsAlive ==
  /\ \A t \in InTable \ {init} : tr_hParent[t] \in Alive
  /\ \A t \in Threads : pc[t] = "collect" =>
       tr_nState[psChild[t]] = "TS_ZOMBIE" /\ tr_hParent[psChild[t]] = t

\* The place of a thread and its state agree; the stop of a thread that ends is not
\* reported, and handle_signals collects without waiting; init goes on for ever.
Whereabouts ==
  /\ \A t \in Threads :
       /\ pc[t] = "gone" <=> tr_nState[t] \in {"TS_ZOMBIE", "deleted"}
       /\ pc[t] \notin {"user", "gone"} =>
            \/ tr_nState[t] = "TS_RUN"
            \/ tr_nState[t] = "TS_WAIT" /\ pc[t] \in {"wait4", "wait_for_thread"}
       /\ tr_psProcess[t] = None <=> tr_nState[t] = "none"
       /\ t \in unreported => pc[t] \notin {"close", "exit"}
       /\ t \in reaping => pc[t] \in {"wait4", "collect", "uncount", "free"} /\ wait[t][2] = {"WNOHANG"}
  /\ init \in Alive /\ tr_nSigPend[init] = {} /\ pc[init] \notin {"do_exit", "close", "exit", "stop"}

\* What the thread that a call creates or collects is; nobody else has it in hand.
InHand ==
  /\ \A t \in Threads : pc[t] = "spawn" =>
       LET c == psChild[t] IN
       /\ c \in Threads /\ tr_nState[c] = "created" /\ tr_hParent[c] = init
       /\ tr_psProcess[c] = tr_psProcess[t]
       /\ \A u \in Threads : pc[u] = "spawn" /\ psChild[u] = c => u = t
  /\ \A t \in Threads : pc[t] \in {"collect", "uncount", "free"} =>
       LET c == psChild[t] IN
       /\ c \in Threads \ {init} /\ tr_hParent[c] = t
       /\ pc[t] # "collect" => tr_nState[c] = "deleted"

\* Who waits for the end of a thread is on its list.
OnTheList ==
  \A t \in Threads : tr_nState[t] = "TS_WAIT" /\ pc[t] = "wait_for_thread" =>
    wait[t][1] \in Alive /\ t \in tr_psTermWaitList[wait[t][1]]

\* The threads of process p, those that pr_nThreadCount counts, until Thread_Delete
\* has taken them off, and those that pr_nLivingThreadCount counts, until do_exit:
\* among them, for ever, those that sys_spawn_thread failed to create.
Of(p) == {t \in Threads : tr_psProcess[t] = p}
Counted(p) ==
  {t \in Of(p) : \/ tr_nState[t] \notin {"deleted", "failed"}
                 \/ \E u \in Threads : pc[u] = "uncount" /\ psChild[u] = t}
Living(p) ==
  {t \in Of(p) : tr_nState[t] \notin {"TS_ZOMBIE", "deleted"} /\ pc[t] \notin {"close", "exit"}}

\* The two counters count these.
CountsAgree ==
  \A p \in Procs : /\ pr_nThreadCount[p] = Cardinality(Counted(p))
                   /\ pr_nLivingThreadCount[p] = Cardinality(Living(p))

\* Somebody is left to close process p, or is just closing it, until it is closed;
\* nobody comes in afterwards, and it is freed when nobody is on its count.
Closing(p) ==
  /\ process[p] = "none" => Of(p) = {}
  /\ process[p] = "live" => Living(p) # {} \/ \E t \in Of(p) : pc[t] = "close"
  /\ process[p] = "closed" => Living(p) = {} /\ \A t \in Of(p) : pc[t] # "close"
  /\ process[p] \in {"freed", "freed twice"} => Counted(p) = {}
  /\ \A t \in Of(p) : pc[t] = "close" =>
       Living(p) = {} /\ process[p] = "live" /\ \A u \in Of(p) : pc[u] = "close" => u = t

\* So it is with every process.
Door == \A p \in Procs : Closing(p)

\* Who collects whom, who waits for whom, and what the counters say.
Inv ==
  /\ TypeOK /\ ParentsAlive /\ Whereabouts /\ InHand /\ OnTheList
  /\ CountsAgree /\ Door

\* Nobody sleeps beside what it waits for: a dead child in wait4, a thread that
\* has ended in wait_for_thread.
NobodyForgotten ==
  \A t \in Threads : tr_nState[t] = "TS_WAIT" =>
    /\ pc[t] = "wait4" => find_dead_child(t) = {}
    /\ pc[t] = "wait_for_thread" => wait[t][1] \in Alive

\* Only the last thread of a process closes its files, ports and semaphores
\* ("Last out closing the door"), although threads are created and end at the same
\* time, and it does so in every process in which no sys_spawn_thread failed: there
\* the failed thread stays on the count, and nobody closes.  A process is freed when
\* all its threads have been collected, whoever their collectors are.
OnlyLastOutCloses ==
  \A p \in Procs :
    LET T == {t \in Threads : tr_psProcess[t] = p}
        Failed == {t \in T : tr_nState[t] = "failed"}
        Ended  == {t \in T : tr_nState[t] \in {"TS_ZOMBIE", "deleted"}}
    IN  /\ process[p] = "live" => T \ Ended # {}
        /\ process[p] \in {"closed", "freed", "freed twice"} =>
             \A t \in T \ (Ended \cup Failed) : pc[t] = "exit"
        /\ process[p] = "closed" => Failed = {}
        /\ process[p] \in {"freed", "freed twice"} => \A t \in T \ Failed : tr_nState[t] = "deleted"

\* A process is freed once: remove_process takes it out of the table, and
\* MArray_Remove reports "Attempt to release empty entry" if it is not there.
FreedOnce == \A p \in Procs : process[p] # "freed twice"

\* A zombie whose parent is gone, or is init from the start, is collected.
OrphansCollected ==
  \A c \in Threads :
    tr_nState[c] = "TS_ZOMBIE" /\ tr_hParent[c] = init ~> tr_nState[c] = "deleted"

=============================================================================
