-------------------------- MODULE ThreadLifeProofs ---------------------------
(***************************************************************************)
(* Proofs about ThreadLife for any number of threads and processes.        *)
(*                                                                         *)
(* Core is the types and Whereabouts; each action is described by what it  *)
(* moves (Moved, Fits), and Core is kept by everything that moves so.  A   *)
(* Quiet step leaves parents, processes and counters alone; the others are *)
(* taken one by one for the Tables.  Watch says what a step does to the    *)
(* condition another thread waits for.                                     *)
(***************************************************************************)
EXTENDS ThreadLife, FiniteSetTheorems, TLAPS

States == {"none", "created", "TS_RUN", "TS_WAIT", "TS_STOPPED", "TS_ZOMBIE", "deleted", "failed"}
Places == {"user", "do_exit", "close", "exit", "gone", "spawn", "stop", "wait4", "collect",
           "uncount", "free", "wait_for_thread"}

\* The constants: init is a thread, its process exists, None is neither.
LEMMA Basics ==
  /\ init \in Threads /\ 1 \in Procs /\ None \notin Threads /\ None \notin Procs
  /\ IsFiniteSet(Threads)
<1>1. init \in Threads /\ 1 \in Procs /\ None \notin Threads /\ None \notin Procs
  BY ThreadLifeTypes DEF init, None, Threads, Procs
<1>2. IsFiniteSet(Threads)
  BY ThreadLifeTypes, FS_Interval DEF Threads
<1> QED BY <1>1, <1>2

\* f is tr_nState after some sleepers and stopped threads were woken.
Wakes(f) ==
  /\ f \in [Threads -> States]
  /\ \A u \in Threads :
       \/ f[u] = tr_nState[u]
       \/ tr_nState[u] \in {"TS_WAIT", "TS_STOPPED"} /\ f[u] = "TS_RUN"

\* wakeup_thread wakes only who sleeps or is stopped.
LEMMA RunsWakes ==
  ASSUME TypeOK, NEW W, \A u \in W \cap Threads : tr_nState[u] \in {"TS_WAIT", "TS_STOPPED"}
  PROVE  Wakes(Runs(W))
BY DEF TypeOK, Runs, Wakes, States

\* Waking threads only makes blocked ones ready.
LEMMA WokenWakes ==
  ASSUME TypeOK, NEW K, NEW n
  PROVE  Wakes(Runs(Woken(K, n)))
<1>1. \A u \in Woken(K, n) : tr_nState[u] \in {"TS_WAIT", "TS_STOPPED"}
  BY DEF Woken
<1> QED BY <1>1, RunsWakes

\* Sending a signal leaves sets of signals.
LEMMA PendingType ==
  ASSUME TypeOK, NEW K, NEW n \in Signals
  PROVE  Pending(K, n) \in [Threads -> SUBSET Signals]
BY DEF TypeOK, Pending

\* A woken thread was alive and is.
LEMMA WakesAlive ==
  ASSUME TypeOK, NEW f, Wakes(f)
  PROVE  \A u \in Threads : f[u] \in {"TS_RUN", "TS_WAIT", "TS_STOPPED"} <=> u \in Alive
BY DEF Wakes, Alive

-----------------------------------------------------------------------------
(* Types, and where the threads are.                                       *)

Core == TypeOK /\ Whereabouts

\* Core is about each thread alone: the threads X may have moved, the others only
\* been woken.
Moved(X) ==
  /\ tr_nState' \in [Threads -> States] /\ pc' \in [Threads -> Places]
  /\ wait' \in [Threads -> (Threads \cup {-1, 0}) \X SUBSET Options]
  /\ tr_nSigPend' \in [Threads -> SUBSET Signals]
  /\ unreported' \subseteq Threads /\ reaping' \subseteq Threads
  /\ \A u \in Threads \ X :
       /\ \/ tr_nState'[u] = tr_nState[u]
          \/ tr_nState[u] \in {"TS_WAIT", "TS_STOPPED"} /\ tr_nState'[u] = "TS_RUN"
       /\ pc'[u] = pc[u] /\ wait'[u] = wait[u] /\ tr_psProcess'[u] = tr_psProcess[u]
       /\ u \in unreported' => u \in unreported
       /\ u \in reaping' => u \in reaping
       /\ u = init => tr_nSigPend'[u] = {}

\* What Whereabouts says of t after its move.
Fits(t) ==
  /\ pc'[t] = "gone" <=> tr_nState'[t] \in {"TS_ZOMBIE", "deleted"}
  /\ pc'[t] \notin {"user", "gone"} =>
       \/ tr_nState'[t] = "TS_RUN"
       \/ tr_nState'[t] = "TS_WAIT" /\ pc'[t] \in {"wait4", "wait_for_thread"}
  /\ tr_psProcess'[t] = None <=> tr_nState'[t] = "none"
  /\ t \in unreported' => pc'[t] \notin {"close", "exit"} /\ t \in Alive'
  /\ t \in reaping' => pc'[t] \in {"wait4", "collect", "uncount", "free"} /\ wait'[t][2] = {"WNOHANG"}
  /\ t \in reaping' => t \in Alive'
  /\ t = init => t \in Alive' /\ tr_nSigPend'[t] = {} /\ pc'[t] \notin {"do_exit", "close", "exit", "stop"}

\* Threads that move to another state keep Core if the state fits where they
\* are.
LEMMA MovedCore ==
  ASSUME Core, NEW X \in SUBSET Threads, Moved(X), \A t \in X : Fits(t)
  PROVE  /\ Whereabouts'
         /\ unreported' \subseteq Alive' /\ reaping' \subseteq Alive'
<1>0. init \in Threads
  BY Basics
<1>1. \A u \in Threads \ X : u \in Alive <=> u \in Alive'
  BY DEF Moved, Alive
<1>2. unreported' \subseteq Alive' /\ reaping' \subseteq Alive'
  BY <1>1 DEF Core, TypeOK, Moved, Fits
<1>3. ASSUME NEW u \in Threads \ X
      PROVE  /\ pc'[u] = "gone" <=> tr_nState'[u] \in {"TS_ZOMBIE", "deleted"}
             /\ pc'[u] \notin {"user", "gone"} =>
                  \/ tr_nState'[u] = "TS_RUN"
                  \/ tr_nState'[u] = "TS_WAIT" /\ pc'[u] \in {"wait4", "wait_for_thread"}
             /\ tr_psProcess'[u] = None <=> tr_nState'[u] = "none"
             /\ u \in unreported' => pc'[u] \notin {"close", "exit"}
             /\ u \in reaping' => pc'[u] \in {"wait4", "collect", "uncount", "free"} /\ wait'[u][2] = {"WNOHANG"}
  BY DEF Core, Whereabouts, Moved
<1>4. init \in Alive' /\ tr_nSigPend'[init] = {} /\ pc'[init] \notin {"do_exit", "close", "exit", "stop"}
  BY <1>0, <1>1 DEF Core, Whereabouts, Moved, Fits
<1> QED BY <1>2, <1>3, <1>4 DEF Whereabouts, Fits

\* A thread at place p of the kernel runs, and what that says of it.
LEMMA RunningAt ==
  ASSUME Core, NEW t \in Threads, NEW p, At(t, p)
  PROVE  /\ tr_nState[t] = "TS_RUN" /\ pc[t] = p /\ t \in Alive /\ p # "gone"
         /\ tr_psProcess[t] \in Procs
         /\ t = init => p \notin {"do_exit", "close", "exit", "stop"}
BY DEF Core, TypeOK, Whereabouts, At, Alive

\* The other types.
LEMMA TypeParts ==
  ASSUME TypeOK, NEW X \in SUBSET Threads, Moved(X),
         tr_hParent' \in [Threads -> Threads \cup {None}],
         tr_psProcess' \in [Threads -> Procs \cup {None}],
         tr_psTermWaitList' \in [Threads -> SUBSET Threads],
         psChild' \in [Threads -> Threads \cup {None}],
         pr_nThreadCount' \in [Procs -> Nat], pr_nLivingThreadCount' \in [Procs -> Nat],
         process' \in [Procs -> {"none", "live", "closed", "freed", "freed twice"}],
         unreported' \subseteq Alive', reaping' \subseteq Alive'
  PROVE  TypeOK'
BY DEF TypeOK, Moved, States, Places

\* A step that moves one thread and leaves the tables and counters alone.
LEMMA MovedStep ==
  ASSUME Core, NEW X \in SUBSET Threads, Moved(X), \A t \in X : Fits(t),
         UNCHANGED <<tr_hParent, tr_psProcess, counts>>,
         tr_psTermWaitList' \in [Threads -> SUBSET Threads],
         psChild' \in [Threads -> Threads \cup {None}]
  PROVE  Core'
<1>1. Whereabouts' /\ unreported' \subseteq Alive' /\ reaping' \subseteq Alive'
  BY MovedCore
<1>2. TypeOK'
  BY <1>1, TypeParts DEF Core, TypeOK, counts
<1> QED BY <1>1, <1>2 DEF Core

\* sys_kill keeps Core.
LEMMA KillCore ==
  ASSUME Core, NEW t \in Threads, NEW h \in Threads, NEW n \in Signals, sys_kill(t, h, n)
  PROVE  Core'
<1>1. Wakes(tr_nState') /\ tr_nSigPend' \in [Threads -> SUBSET Signals]
  BY WokenWakes, PendingType DEF sys_kill, Core
<1>2. tr_nSigPend'[init] = {}
  BY Basics DEF sys_kill, Pending, Core, Whereabouts
<1>3. Moved({})
  BY <1>1, <1>2 DEF Moved, Wakes, sys_kill, Core, TypeOK, call, thread, Alive, Places
<1> QED BY <1>3, MovedStep DEF sys_kill, Core, TypeOK, thread, call

\* A thread goes to another place, or returns.
LEMMA GoesTo ==
  ASSUME TypeOK, NEW t \in Threads, NEW p \in Places, Goes(t, p)
  PROVE  /\ pc' \in [Threads -> Places] /\ pc'[t] = p
         /\ \A u \in Threads \ {t} : pc'[u] = pc[u]
BY DEF TypeOK, Goes, Places

\* Setting what a thread waits for changes that thread only.
LEMMA WaitsFor ==
  ASSUME TypeOK, NEW t \in Threads, NEW a \in (Threads \cup {-1, 0}) \X SUBSET Options,
         wait' = [wait EXCEPT ![t] = a]
  PROVE  /\ wait' \in [Threads -> (Threads \cup {-1, 0}) \X SUBSET Options] /\ wait'[t] = a
         /\ \A u \in Threads \ {t} : wait'[u] = wait[u]
BY DEF TypeOK

\* A call that returns ends its wait.
LEMMA ReturnsTo ==
  ASSUME TypeOK, NEW t \in Threads, Returns(t)
  PROVE  /\ pc' \in [Threads -> Places] /\ pc'[t] = "user"
         /\ \A u \in Threads \ {t} : pc'[u] = pc[u]
         /\ wait' \in [Threads -> (Threads \cup {-1, 0}) \X SUBSET Options] /\ wait'[t] = NoCall
         /\ \A u \in Threads \ {t} : wait'[u] = wait[u]
<1>1. Goes(t, "user") /\ wait' = [wait EXCEPT ![t] = NoCall]
  BY DEF Returns
<1>2. NoCall \in (Threads \cup {-1, 0}) \X SUBSET Options /\ "user" \in Places
  BY DEF NoCall, None, Places
<1> QED BY <1>1, <1>2, GoesTo, WaitsFor

\* A signal less.
LEMMA Handled ==
  ASSUME TypeOK, NEW t \in Threads, NEW n, tr_nSigPend' = [tr_nSigPend EXCEPT ![t] = @ \ {n}]
  PROVE  /\ tr_nSigPend' \in [Threads -> SUBSET Signals]
         /\ \A u \in Threads \ {t} : tr_nSigPend'[u] = tr_nSigPend[u]
BY DEF TypeOK

\* handle_signals keeps Core.
LEMMA HandleCore ==
  ASSUME Core, NEW t \in Threads, handle_signals(t)
  PROVE  Core'
<1>0. /\ At(t, "user") /\ tr_nState[t] = "TS_RUN" /\ pc[t] = "user" /\ t \in Alive /\ t \notin reaping
      /\ TypeOK /\ Whereabouts /\ tr_psProcess[t] # None
  <2>1. At(t, "user") /\ TypeOK /\ Whereabouts
    BY DEF handle_signals, Core
  <2> QED BY <2>1, Basics, RunningAt DEF Core, Whereabouts
<1>1. t # init
  BY DEF handle_signals, Core, Whereabouts
<1>2. UNCHANGED <<tr_nState, tr_hParent, tr_psProcess, tr_psTermWaitList, psChild, counts>>
  BY DEF handle_signals, thread
<1>3. /\ tr_nSigPend' \in [Threads -> SUBSET Signals]
      /\ \A u \in Threads \ {t} : tr_nSigPend'[u] = tr_nSigPend[u]
  <2>1. \E n \in Signals : tr_nSigPend' = [tr_nSigPend EXCEPT ![t] = @ \ {n}]
    BY DEF handle_signals, Signals
  <2> QED BY <1>0, <2>1, Handled
<1>4. ASSUME NEW p \in {"user", "do_exit", "wait4", "stop"},
             pc' \in [Threads -> Places], pc'[t] = p, \A u \in Threads \ {t} : pc'[u] = pc[u],
             wait' \in [Threads -> (Threads \cup {-1, 0}) \X SUBSET Options],
             \A u \in Threads \ {t} : wait'[u] = wait[u],
             unreported' \in {unreported, unreported \cup {t}}, reaping' \in {reaping, reaping \cup {t}},
             t \in reaping' => p = "wait4" /\ wait'[t][2] = {"WNOHANG"}
      PROVE  Core'
  <2>1. Moved({t})
    BY <1>0, <1>1, <1>2, <1>3, <1>4 DEF Moved, TypeOK, Whereabouts, States, Alive
  <2>2. Fits(t)
    BY <1>0, <1>1, <1>2, <1>4 DEF Fits, Alive
  <2> QED BY <1>0, <1>2, <2>1, <2>2, MovedStep DEF TypeOK
<1>5. CASE Goes(t, "do_exit") /\ UNCHANGED <<unreported, wait, reaping>>
  BY <1>0, <1>4, <1>5, GoesTo DEF TypeOK, Places
<1>6. CASE /\ Goes(t, "wait4") /\ wait' = [wait EXCEPT ![t] = <<-1, {"WNOHANG"}>>]
           /\ reaping' = reaping \cup {t} /\ UNCHANGED unreported
  <2>1. <<-1, {"WNOHANG"}>> \in (Threads \cup {-1, 0}) \X SUBSET Options
    BY DEF Options
  <2>2. "wait4" \in Places
    BY DEF Places
  <2> QED BY <1>0, <1>4, <1>6, <2>1, <2>2, GoesTo, WaitsFor
<1>7. CASE UNCHANGED <<unreported, pc, wait, reaping>>
  BY <1>0, <1>4, <1>7 DEF TypeOK, Places
<1>8. CASE Goes(t, "stop") /\ unreported' = unreported \cup {t} /\ UNCHANGED <<wait, reaping>>
  BY <1>0, <1>4, <1>8, GoesTo DEF TypeOK, Places
<1> QED BY <1>5, <1>6, <1>7, <1>8 DEF handle_signals

\* stop_thread keeps Core.
LEMMA StopCore ==
  ASSUME Core, NEW t \in Threads, stop_thread(t)
  PROVE  Core'
<1>0. /\ tr_nState[t] = "TS_RUN" /\ pc[t] = "stop" /\ t \in Alive /\ t # init /\ t \notin reaping
      /\ TypeOK /\ Whereabouts /\ tr_psProcess[t] # None
  <2>1. At(t, "stop") /\ TypeOK /\ Whereabouts
    BY DEF stop_thread, Core
  <2> QED BY <2>1, Basics, RunningAt DEF Core, Whereabouts
<1>1. /\ pc' \in [Threads -> Places] /\ pc'[t] = "user"
      /\ \A u \in Threads \ {t} : pc'[u] = pc[u]
  BY <1>0, GoesTo DEF stop_thread, Places
<1> DEFINE f == Runs(Woken({tr_hParent[t]}, "SIGCHLD"))
<1>2. Wakes(f)
  BY <1>0, WokenWakes
<1>3. tr_nState' = [f EXCEPT ![t] = "TS_STOPPED"]
  BY DEF stop_thread
<1> HIDE DEF f
<1>4. /\ tr_nState' \in [Threads -> States] /\ tr_nState'[t] = "TS_STOPPED"
      /\ \A u \in Threads \ {t} : \/ tr_nState'[u] = tr_nState[u]
                                  \/ tr_nState[u] \in {"TS_WAIT", "TS_STOPPED"} /\ tr_nState'[u] = "TS_RUN"
  BY <1>2, <1>3 DEF Wakes, States
<1>5. tr_nSigPend' \in [Threads -> SUBSET Signals] /\ tr_nSigPend'[init] = {}
  BY <1>0, Basics, PendingType DEF stop_thread, Pending, Whereabouts, Signals
<1>6. UNCHANGED <<unreported, reaping, wait, psChild, tr_hParent, tr_psProcess, tr_psTermWaitList, counts>>
  BY DEF stop_thread, thread, call
<1>7. Moved({t})
  BY <1>0, <1>1, <1>4, <1>5, <1>6 DEF Moved, TypeOK, Alive
<1>8. Fits(t)
  BY <1>0, <1>1, <1>4, <1>6 DEF Fits, Alive
<1> QED BY <1>0, <1>6, <1>7, <1>8, MovedStep DEF TypeOK

\* sys_resume_thread keeps Core.
LEMMA ResumeCore ==
  ASSUME Core, NEW t \in Threads, NEW h \in Threads, sys_resume_thread(t, h)
  PROVE  Core'
<1>1. Wakes(tr_nState')
  BY RunsWakes DEF sys_resume_thread, Core
<1>2. Moved({})
  BY <1>1 DEF Moved, Wakes, sys_resume_thread, Core, TypeOK, Whereabouts, call, thread, Alive, Places
<1> QED BY <1>2, MovedStep DEF sys_resume_thread, Core, TypeOK, thread, call

\* sys_exit_thread keeps Core.
LEMMA ExitThreadCore ==
  ASSUME Core, NEW t \in Threads, sys_exit_thread(t)
  PROVE  Core'
<1>0. /\ tr_nState[t] = "TS_RUN" /\ pc[t] = "user" /\ t \in Alive /\ t # init /\ t \notin reaping
      /\ TypeOK /\ Whereabouts /\ tr_psProcess[t] # None
  <2>1. At(t, "user") /\ TypeOK /\ Whereabouts /\ t # init
    BY DEF sys_exit_thread, Core
  <2> QED BY <2>1, Basics, RunningAt DEF Core, Whereabouts
<1>1. /\ pc' \in [Threads -> Places] /\ pc'[t] = "do_exit"
      /\ \A u \in Threads \ {t} : pc'[u] = pc[u]
  BY <1>0, GoesTo DEF sys_exit_thread, Places
<1>2. UNCHANGED <<tr_nState, tr_nSigPend, unreported, reaping, wait, psChild, tr_hParent, tr_psProcess,
                  tr_psTermWaitList, counts>>
  BY DEF sys_exit_thread, thread, call
<1>3. Moved({t})
  BY <1>0, <1>1, <1>2 DEF Moved, TypeOK, Whereabouts, Alive, States
<1>4. Fits(t)
  BY <1>0, <1>1, <1>2 DEF Fits, Alive
<1> QED BY <1>0, <1>2, <1>3, <1>4, MovedStep DEF TypeOK

\* sys_exit keeps Core.
LEMMA ExitCore ==
  ASSUME Core, NEW t \in Threads, sys_exit(t)
  PROVE  Core'
<1>0. /\ tr_nState[t] = "TS_RUN" /\ pc[t] = "user" /\ t \in Alive /\ t # init /\ t \notin reaping
      /\ TypeOK /\ Whereabouts /\ tr_psProcess[t] # None
  <2>1. At(t, "user") /\ TypeOK /\ Whereabouts /\ t # init
    BY DEF sys_exit, Core
  <2> QED BY <2>1, Basics, RunningAt DEF Core, Whereabouts
<1>1. /\ pc' \in [Threads -> Places] /\ pc'[t] = "do_exit"
      /\ \A u \in Threads \ {t} : pc'[u] = pc[u]
  BY <1>0, GoesTo DEF sys_exit, Places
<1>2. UNCHANGED <<unreported, reaping, wait, psChild, tr_hParent, tr_psProcess, tr_psTermWaitList, counts>>
  BY DEF sys_exit, thread, call
<1>3. Wakes(tr_nState')
  BY <1>0, WokenWakes DEF sys_exit
<1>4. tr_nSigPend' \in [Threads -> SUBSET Signals] /\ tr_nSigPend'[init] = {}
  BY <1>0, Basics, PendingType DEF sys_exit, Pending, Whereabouts, Signals
<1>5. Moved({t})
  BY <1>0, <1>1, <1>2, <1>3, <1>4 DEF Moved, TypeOK, Alive, Wakes
<1>6. Fits(t)
  BY <1>0, <1>1, <1>2, <1>3 DEF Fits, Alive, Wakes
<1> QED BY <1>0, <1>2, <1>5, <1>6, MovedStep DEF TypeOK

\* sys_wait4 keeps Core.
LEMMA Wait4Core ==
  ASSUME Core, NEW t \in Threads, NEW h \in Threads \cup {-1, 0}, NEW o \in SUBSET Options,
         sys_wait4(t, h, o)
  PROVE  Core'
<1>0. /\ tr_nState[t] = "TS_RUN" /\ pc[t] = "user" /\ t \in Alive /\ t \notin reaping
      /\ TypeOK /\ Whereabouts /\ tr_psProcess[t] # None
  <2>1. At(t, "user") /\ TypeOK /\ Whereabouts
    BY DEF sys_wait4, Core
  <2> QED BY <2>1, Basics, RunningAt DEF Core, Whereabouts
<1>1. /\ pc' \in [Threads -> Places] /\ pc'[t] = "wait4"
      /\ \A u \in Threads \ {t} : pc'[u] = pc[u]
  BY <1>0, GoesTo DEF sys_wait4, Places
<1>2. /\ wait' \in [Threads -> (Threads \cup {-1, 0}) \X SUBSET Options]
      /\ \A u \in Threads \ {t} : wait'[u] = wait[u]
  <2>1. wait' = [wait EXCEPT ![t] = <<h, o>>] /\ <<h, o>> \in (Threads \cup {-1, 0}) \X SUBSET Options
    BY DEF sys_wait4
  <2> QED BY <1>0, <2>1, WaitsFor
<1>3. UNCHANGED <<tr_nState, tr_nSigPend, unreported, reaping, psChild, tr_hParent, tr_psProcess,
                  tr_psTermWaitList, counts>>
  BY DEF sys_wait4, thread
<1>4. Moved({t})
  BY <1>0, <1>1, <1>2, <1>3 DEF Moved, TypeOK, Whereabouts, Alive, States
<1>5. Fits(t)
  BY <1>0, <1>1, <1>3 DEF Fits, Alive, Whereabouts
<1> QED BY <1>0, <1>3, <1>4, <1>5, MovedStep DEF TypeOK

\* sys_wait_for_thread keeps Core ...
LEMMA WaitForCore ==
  ASSUME Core, NEW t \in Threads, NEW h \in Threads, sys_wait_for_thread(t, h)
  PROVE  Core'
<1>0. /\ tr_nState[t] = "TS_RUN" /\ pc[t] = "user" /\ t \in Alive /\ t # init /\ t \notin reaping
      /\ TypeOK /\ Whereabouts /\ tr_psProcess[t] # None
  <2>1. At(t, "user") /\ TypeOK /\ Whereabouts /\ t # init
    BY DEF sys_wait_for_thread, Core
  <2> QED BY <2>1, Basics, RunningAt DEF Core, Whereabouts
<1>1. /\ pc' \in [Threads -> Places] /\ pc'[t] = "wait_for_thread"
      /\ \A u \in Threads \ {t} : pc'[u] = pc[u]
  BY <1>0, GoesTo DEF sys_wait_for_thread, Places
<1>2. /\ wait' \in [Threads -> (Threads \cup {-1, 0}) \X SUBSET Options]
      /\ \A u \in Threads \ {t} : wait'[u] = wait[u]
  <2>1. wait' = [wait EXCEPT ![t] = <<h, {}>>] /\ <<h, {}>> \in (Threads \cup {-1, 0}) \X SUBSET Options
    BY DEF sys_wait_for_thread
  <2> QED BY <1>0, <2>1, WaitsFor
<1>3. /\ UNCHANGED <<tr_nSigPend, unreported, reaping, psChild, tr_hParent, tr_psProcess, counts>>
      /\ tr_nState' = [tr_nState EXCEPT ![t] = "TS_WAIT"]
      /\ tr_psTermWaitList' \in [Threads -> SUBSET Threads]
  BY <1>0 DEF sys_wait_for_thread, TypeOK
<1>4. Moved({t})
  BY <1>0, <1>1, <1>2, <1>3 DEF Moved, TypeOK, Whereabouts, Alive, States
<1>5. Fits(t)
  BY <1>0, <1>1, <1>3 DEF Fits, Alive, TypeOK
<1> QED BY <1>0, <1>3, <1>4, <1>5, MovedStep DEF TypeOK

\* ... and so does its next turn.
LEMMA WaitForResumeCore ==
  ASSUME Core, NEW t \in Threads, sys_wait_for_thread_resume(t)
  PROVE  Core'
<1>0. /\ tr_nState[t] = "TS_RUN" /\ pc[t] = "wait_for_thread" /\ t \in Alive /\ t \notin reaping
      /\ TypeOK /\ Whereabouts /\ tr_psProcess[t] # None
  <2>1. At(t, "wait_for_thread") /\ TypeOK /\ Whereabouts
    BY DEF sys_wait_for_thread_resume, Core
  <2> QED BY <2>1, Basics, RunningAt DEF Core, Whereabouts
<1>1. /\ pc' \in [Threads -> Places] /\ pc'[t] = "user"
      /\ \A u \in Threads \ {t} : pc'[u] = pc[u]
      /\ wait' \in [Threads -> (Threads \cup {-1, 0}) \X SUBSET Options]
      /\ \A u \in Threads \ {t} : wait'[u] = wait[u]
  BY <1>0, ReturnsTo DEF sys_wait_for_thread_resume
<1>2. /\ UNCHANGED <<tr_nState, tr_nSigPend, unreported, reaping, psChild, tr_hParent, tr_psProcess, counts>>
      /\ tr_psTermWaitList' \in [Threads -> SUBSET Threads]
  BY <1>0 DEF sys_wait_for_thread_resume, TypeOK
<1>3. Moved({t})
  BY <1>0, <1>1, <1>2 DEF Moved, TypeOK, Whereabouts, Alive, States
<1>4. Fits(t)
  BY <1>0, <1>1, <1>2 DEF Fits, Alive, Whereabouts
<1> QED BY <1>0, <1>2, <1>3, <1>4, MovedStep DEF TypeOK

\* The three ways a turn of wait4 ends the call or goes on, and the one that sleeps.
Reports(t) ==
  \E c \in find_dead_child(t) :
    /\ tr_nState[c] = "TS_STOPPED" /\ unreported' = unreported \ {c} /\ Returns(t)
    /\ UNCHANGED <<tr_nState, psChild, reaping>>
Collects(t) ==
  \E c \in find_dead_child(t) :
    /\ tr_nState[c] = "TS_ZOMBIE" /\ psChild' = [psChild EXCEPT ![t] = c]
    /\ tr_nState' = Runs({init} \cap {u \in Threads : tr_nState[u] = "TS_WAIT"})
    /\ Goes(t, "collect") /\ UNCHANGED <<unreported, wait, reaping>>
GivesUp(t) ==
  Returns(t) /\ reaping' = reaping \ {t} /\ UNCHANGED <<tr_nState, unreported, psChild>>
Sleeps(t) ==
  /\ find_dead_child(t) = {} /\ "WNOHANG" \notin wait[t][2]
  /\ tr_nState' = [tr_nState EXCEPT ![t] = "TS_WAIT"]
  /\ UNCHANGED <<pc, unreported, wait, psChild, reaping>>

\* A turn of sys_wait4 reports a stop, collects a zombie, gives up, if only because
\* the status cannot be written, or sleeps.
LEMMA TurnCases ==
  ASSUME NEW t \in Threads, sys_wait4_turn(t)
  PROVE  /\ At(t, "wait4") /\ UNCHANGED <<tr_nSigPend, thread, counts>>
         /\ Reports(t) \/ Collects(t) \/ GivesUp(t) \/ Sleeps(t)
<1> DEFINE D == find_dead_child(t)
           First == {c \in D : \A d \in D : c <= d}
<1>1. \A c \in First : c \in D
  OBVIOUS
<1>2. CASE \E c \in First : /\ tr_nState[c] = "TS_STOPPED" /\ unreported' = unreported \ {c}
                            /\ Returns(t) /\ UNCHANGED <<tr_nState, psChild, reaping>>
  BY <1>1, <1>2 DEF sys_wait4_turn, Reports
<1>3. CASE \E c \in First : /\ tr_nState[c] = "TS_ZOMBIE" /\ psChild' = [psChild EXCEPT ![t] = c]
                            /\ tr_nState' = Runs({init} \cap {u \in Threads : tr_nState[u] = "TS_WAIT"})
                            /\ Goes(t, "collect") /\ UNCHANGED <<unreported, wait, reaping>>
  BY <1>1, <1>3 DEF sys_wait4_turn, Collects
<1>4. CASE Returns(t) /\ reaping' = reaping \ {t} /\ UNCHANGED <<tr_nState, unreported, psChild>>
  BY <1>4 DEF sys_wait4_turn, GivesUp
<1>6. CASE t \notin reaping /\ Returns(t) /\ UNCHANGED <<tr_nState, unreported, psChild, reaping>>
  <2>1. reaping' = reaping \ {t}
    BY <1>6
  <2> QED BY <1>6, <2>1 DEF sys_wait4_turn, GivesUp
<1>5. CASE /\ D = {} /\ "WNOHANG" \notin wait[t][2] /\ tr_nState' = [tr_nState EXCEPT ![t] = "TS_WAIT"]
           /\ UNCHANGED <<pc, unreported, wait, psChild, reaping>>
  BY <1>5 DEF sys_wait4_turn, Sleeps
<1> QED BY <1>2, <1>3, <1>4, <1>5, <1>6 DEF sys_wait4_turn

\* What wait4 finds is a child.
LEMMA FoundChild ==
  ASSUME NEW t \in Threads, NEW c \in find_dead_child(t)
  PROVE  c \in Threads /\ c \in InTable /\ tr_hParent[c] = t
BY DEF find_dead_child, Wanted, Children, InTable

\* It keeps Core.
LEMMA TurnCore ==
  ASSUME Core, NEW t \in Threads, sys_wait4_turn(t)
  PROVE  Core'
<1>0. /\ tr_nState[t] = "TS_RUN" /\ pc[t] = "wait4" /\ t \in Alive
      /\ TypeOK /\ Whereabouts /\ tr_psProcess[t] # None
      /\ UNCHANGED <<tr_nSigPend, tr_hParent, tr_psProcess, tr_psTermWaitList, counts>>
  <2>1. At(t, "wait4") /\ TypeOK /\ Whereabouts
    BY TurnCases DEF Core
  <2> QED BY <2>1, Basics, RunningAt, TurnCases DEF Core, Whereabouts, thread
<1>1. ASSUME Reports(t)
      PROVE  Core'
  <2>1. t \notin reaping
    BY <1>0, <1>1 DEF Reports, find_dead_child, Whereabouts
  <2>2. /\ unreported' \subseteq unreported /\ UNCHANGED <<tr_nState, psChild, reaping>>
        /\ pc' \in [Threads -> Places] /\ pc'[t] = "user"
        /\ \A u \in Threads \ {t} : pc'[u] = pc[u]
        /\ wait' \in [Threads -> (Threads \cup {-1, 0}) \X SUBSET Options]
        /\ \A u \in Threads \ {t} : wait'[u] = wait[u]
    BY <1>0, <1>1, ReturnsTo DEF Reports
  <2>3. Moved({t})
    BY <1>0, <2>2 DEF Moved, TypeOK, Whereabouts, Alive, States
  <2>4. Fits(t)
    BY <1>0, <2>1, <2>2 DEF Fits, Alive, Whereabouts
  <2> QED BY <1>0, <2>2, <2>3, <2>4, MovedStep DEF TypeOK
<1>2. ASSUME Collects(t)
      PROVE  Core'
  <2>1. PICK c \in Threads :
          /\ psChild' = [psChild EXCEPT ![t] = c]
          /\ tr_nState' = Runs({init} \cap {u \in Threads : tr_nState[u] = "TS_WAIT"})
          /\ Goes(t, "collect") /\ UNCHANGED <<unreported, wait, reaping>>
    BY <1>2, FoundChild DEF Collects
  <2>2. Wakes(tr_nState') /\ psChild' \in [Threads -> Threads \cup {None}]
    BY <1>0, <2>1, RunsWakes DEF TypeOK
  <2>3. /\ pc' \in [Threads -> Places] /\ pc'[t] = "collect"
        /\ \A u \in Threads \ {t} : pc'[u] = pc[u]
    BY <1>0, <2>1, GoesTo DEF Places
  <2>4. Moved({t})
    BY <1>0, <2>1, <2>2, <2>3 DEF Moved, TypeOK, Whereabouts, Alive, Wakes
  <2>5. Fits(t)
    BY <1>0, <2>1, <2>2, <2>3 DEF Fits, Alive, Whereabouts, Wakes
  <2> QED BY <1>0, <2>2, <2>4, <2>5, MovedStep DEF TypeOK
<1>3. ASSUME GivesUp(t)
      PROVE  Core'
  <2>1. /\ reaping' = reaping \ {t} /\ UNCHANGED <<tr_nState, psChild, unreported>>
        /\ pc' \in [Threads -> Places] /\ pc'[t] = "user"
        /\ \A u \in Threads \ {t} : pc'[u] = pc[u]
        /\ wait' \in [Threads -> (Threads \cup {-1, 0}) \X SUBSET Options]
        /\ \A u \in Threads \ {t} : wait'[u] = wait[u]
    BY <1>0, <1>3, ReturnsTo DEF GivesUp
  <2>2. Moved({t})
    BY <1>0, <2>1 DEF Moved, TypeOK, Whereabouts, Alive, States
  <2>3. Fits(t)
    BY <1>0, <2>1 DEF Fits, Alive, Whereabouts
  <2> QED BY <1>0, <2>1, <2>2, <2>3, MovedStep DEF TypeOK
<1>4. ASSUME Sleeps(t)
      PROVE  Core'
  <2>1. /\ tr_nState' = [tr_nState EXCEPT ![t] = "TS_WAIT"]
        /\ UNCHANGED <<pc, unreported, wait, psChild, reaping>>
    BY <1>4 DEF Sleeps
  <2>2. Moved({t})
    BY <1>0, <2>1 DEF Moved, TypeOK, Whereabouts, Alive, States, Places
  <2>3. Fits(t)
    BY <1>0, <2>1 DEF Fits, Alive, Whereabouts, TypeOK
  <2> QED BY <1>0, <2>1, <2>2, <2>3, MovedStep DEF TypeOK
<1> QED BY <1>1, <1>2, <1>3, <1>4, TurnCases

-----------------------------------------------------------------------------
(* Steps that leave the tables and the counters alone.                     *)

LiveStates == {"TS_RUN", "TS_WAIT", "TS_STOPPED"}

\* Thread t makes one: nobody comes or goes, and only t changes its place.
Quiet(t) ==
  /\ UNCHANGED <<tr_hParent, tr_psProcess, counts>>
  /\ \A u \in Threads :
       tr_nState'[u] = tr_nState[u] \/ (tr_nState'[u] \in LiveStates /\ tr_nState[u] \in LiveStates)
  /\ \A u \in Threads \ {t} : pc'[u] = pc[u] /\ psChild'[u] = psChild[u]
  /\ pc[t] \in {"user", "stop", "wait4", "wait_for_thread"} /\ t \in Alive
  /\ pc'[t] \in {"user", "stop", "wait4", "wait_for_thread", "do_exit", "collect"}
  /\ pc'[t] = "collect" =>
       psChild'[t] \in Threads /\ tr_nState[psChild'[t]] = "TS_ZOMBIE" /\ tr_hParent[psChild'[t]] = t

\* What t may do that is quiet.
QuietStep(t) ==
  \/ \E h \in Threads, n \in Signals : sys_kill(t, h, n)
  \/ handle_signals(t) \/ stop_thread(t) \/ sys_exit_thread(t) \/ sys_exit(t)
  \/ \E h \in Threads : sys_resume_thread(t, h) \/ sys_wait_for_thread(t, h)
  \/ \E h \in Threads \cup {-1, 0}, o \in SUBSET Options : sys_wait4(t, h, o)
  \/ sys_wait4_turn(t) \/ sys_wait_for_thread_resume(t)

\* The steps that change no table keep Core.
LEMMA QuietCore ==
  ASSUME Core, NEW t \in Threads, QuietStep(t)
  PROVE  Core'
BY KillCore, HandleCore, StopCore, ExitThreadCore, ExitCore, ResumeCore, WaitForCore, Wait4Core, TurnCore,
   WaitForResumeCore DEF QuietStep

\* Waking a thread does not change whether it lives.
LEMMA WakesQuiet ==
  ASSUME NEW f, Wakes(f)
  PROVE  \A u \in Threads : f[u] = tr_nState[u] \/ (f[u] \in LiveStates /\ tr_nState[u] \in LiveStates)
BY DEF Wakes, LiveStates

\* Those steps leave tables, counts and lives alone ...
LEMMA QuietSteps ==
  ASSUME Core, NEW t \in Threads, QuietStep(t)
  PROVE  Quiet(t)
<1>0. TypeOK
  BY DEF Core
<1>1. ASSUME NEW h \in Threads, NEW n \in Signals, sys_kill(t, h, n)
      PROVE  Quiet(t)
  <2>1. Wakes(tr_nState')
    BY <1>0, <1>1, WokenWakes DEF sys_kill
  <2> QED BY <1>1, <2>1, WakesQuiet DEF sys_kill, Quiet, thread, call, At, Alive
<1>2. CASE handle_signals(t)
  BY <1>0, <1>2 DEF handle_signals, Quiet, thread, At, Alive, Goes, TypeOK, LiveStates
<1>3. CASE stop_thread(t)
  <2> DEFINE f == Runs(Woken({tr_hParent[t]}, "SIGCHLD"))
  <2>1. Wakes(f)
    BY <1>0, WokenWakes
  <2>2. tr_nState' = [f EXCEPT ![t] = "TS_STOPPED"]
    BY <1>3 DEF stop_thread
  <2> HIDE DEF f
  <2>3. \A u \in Threads :
         tr_nState'[u] = tr_nState[u] \/ (tr_nState'[u] \in LiveStates /\ tr_nState[u] \in LiveStates)
    BY <1>3, <2>1, <2>2, WakesQuiet DEF LiveStates, Wakes, stop_thread, At
  <2> QED BY <1>0, <1>3, <2>3 DEF stop_thread, Quiet, thread, call, At, Alive, Goes, TypeOK
<1>4. CASE sys_exit_thread(t)
  BY <1>0, <1>4 DEF sys_exit_thread, Quiet, thread, call, At, Alive, Goes, TypeOK
<1>5. CASE sys_exit(t)
  <2>1. Wakes(tr_nState')
    BY <1>0, <1>5, WokenWakes DEF sys_exit
  <2> QED BY <1>0, <1>5, <2>1, WakesQuiet DEF sys_exit, Quiet, thread, call, At, Alive, Goes, TypeOK
<1>6. ASSUME NEW h \in Threads, sys_resume_thread(t, h)
      PROVE  Quiet(t)
  BY <1>0, <1>6 DEF sys_resume_thread, Quiet, thread, call, At, Alive, Runs, LiveStates
<1>7. ASSUME NEW h \in Threads, sys_wait_for_thread(t, h)
      PROVE  Quiet(t)
  BY <1>0, <1>7 DEF sys_wait_for_thread, Quiet, At, Alive, Goes, TypeOK, LiveStates
<1>8. ASSUME NEW h \in Threads \cup {-1, 0}, NEW o \in SUBSET Options, sys_wait4(t, h, o)
      PROVE  Quiet(t)
  BY <1>0, <1>8 DEF sys_wait4, Quiet, thread, At, Alive, Goes, TypeOK, LiveStates
<1>9. CASE sys_wait4_turn(t)
  <2>0. /\ At(t, "wait4") /\ UNCHANGED <<tr_hParent, tr_psProcess, counts>>
    BY <1>9, TurnCases DEF thread
  <2>1. CASE Reports(t) \/ GivesUp(t)
    BY <1>0, <2>0, <2>1 DEF Reports, GivesUp, Returns, Quiet, At, Alive, Goes, TypeOK, LiveStates
  <2>2. CASE Collects(t)
    <3>1. PICK c \in find_dead_child(t) :
            /\ tr_nState[c] = "TS_ZOMBIE" /\ psChild' = [psChild EXCEPT ![t] = c]
            /\ tr_nState' = Runs({init} \cap {u \in Threads : tr_nState[u] = "TS_WAIT"})
            /\ Goes(t, "collect")
      BY <2>2 DEF Collects
    <3>2. c \in Threads /\ tr_hParent[c] = t
      BY FoundChild
    <3>3. Wakes(tr_nState')
      BY <1>0, <3>1, RunsWakes
    <3> QED BY <1>0, <2>0, <3>1, <3>2, <3>3, WakesQuiet DEF Quiet, At, Alive, Goes, TypeOK
  <2>3. CASE Sleeps(t)
    BY <1>0, <2>0, <2>3 DEF Sleeps, Quiet, At, Alive, TypeOK, LiveStates
  <2> QED BY <1>9, <2>1, <2>2, <2>3, TurnCases
<1>10. CASE sys_wait_for_thread_resume(t)
  BY <1>0, <1>10 DEF sys_wait_for_thread_resume, Returns, Quiet, At, Alive, Goes, TypeOK, LiveStates
<1> QED BY <1>1, <1>2, <1>3, <1>4, <1>5, <1>6, <1>7, <1>8, <1>9, <1>10 DEF QuietStep

\* What a quiet step leaves as it was.
LEMMA QuietKeeps ==
  ASSUME Core, NEW t \in Threads, Quiet(t)
  PROVE  /\ Alive' = Alive /\ InTable' = InTable
         /\ \A s \in {"none", "created", "TS_ZOMBIE", "deleted", "failed"} : \A u \in Threads :
              tr_nState'[u] = s <=> tr_nState[u] = s
         /\ \A u \in Threads : \A p \in {"spawn", "uncount", "free", "close", "exit"} : pc'[u] = p <=> pc[u] = p
         /\ \A u \in Threads : pc[u] = "collect" => u # t
         /\ \A u \in Threads : pc[u] \in {"spawn", "uncount", "free", "collect"} => psChild'[u] = psChild[u]
         /\ \A p \in Procs : Of(p)' = Of(p) /\ Counted(p)' = Counted(p) /\ Living(p)' = Living(p)
<1>1. \A s \in {"none", "created", "TS_ZOMBIE", "deleted", "failed"} : \A u \in Threads :
        tr_nState'[u] = s <=> tr_nState[u] = s
  BY DEF Quiet, LiveStates
<1>2. Alive' = Alive /\ InTable' = InTable
  BY DEF Quiet, LiveStates, Alive, InTable
<1>3. \A u \in Threads : \A p \in {"spawn", "uncount", "free", "close", "exit"} : pc'[u] = p <=> pc[u] = p
  BY DEF Quiet
<1>4. /\ \A u \in Threads : pc[u] = "collect" => u # t
      /\ \A u \in Threads : pc[u] \in {"spawn", "uncount", "free", "collect"} => psChild'[u] = psChild[u]
  BY DEF Quiet
<1>5. ASSUME NEW p \in Procs
      PROVE  Of(p)' = Of(p) /\ Counted(p)' = Counted(p) /\ Living(p)' = Living(p)
  <2>1. Of(p)' = Of(p)
    BY DEF Of, Quiet
  <2>2. Counted(p)' = Counted(p)
    BY <1>1, <1>3, <1>4, <2>1 DEF Counted, Of
  <2>3. Living(p)' = Living(p)
    BY <1>1, <1>3, <2>1 DEF Living, Of
  <2> QED BY <2>1, <2>2, <2>3
<1> QED BY <1>1, <1>2, <1>3, <1>4, <1>5

\* A process whose threads do nothing that bears on its end.
LEMMA SameProcess ==
  ASSUME NEW p \in Procs, Closing(p), Of(p)' = Of(p), Living(p)' = Living(p), process'[p] = process[p],
         Counted(p)' \subseteq Counted(p), \A u \in Of(p) : pc'[u] = "close" <=> pc[u] = "close"
  PROVE  Closing(p)'
BY DEF Closing

Tables == ParentsAlive /\ InHand /\ CountsAgree /\ Door

\* ... and keep Tables.
LEMMA QuietTables ==
  ASSUME Core, Tables, NEW t \in Threads, Quiet(t)
  PROVE  Tables'
<1>0. UNCHANGED <<tr_hParent, tr_psProcess, pr_nThreadCount, pr_nLivingThreadCount, process>>
  BY DEF Quiet, counts
<1>1. ASSUME pc'[t] = "collect"
      PROVE  LET c == psChild'[t] IN
             /\ c \in Threads \ {init} /\ tr_nState[c] = "TS_ZOMBIE" /\ tr_hParent[c] = t
             /\ tr_psProcess[c] \in Procs
  <2> DEFINE c == psChild'[t]
  <2>1. c \in Threads /\ tr_nState[c] = "TS_ZOMBIE" /\ tr_hParent[c] = t
    BY <1>1 DEF Quiet
  <2>2. c # init
    BY <2>1 DEF Core, Whereabouts, Alive
  <2>3. tr_psProcess[c] \in Procs
    <3>1. tr_psProcess[c] \in Procs \cup {None}
      BY <2>1 DEF Core, TypeOK
    <3>2. tr_psProcess[c] = None <=> tr_nState[c] = "none"
      BY <2>1 DEF Core, Whereabouts
    <3> QED BY <2>1, <3>1, <3>2
  <2> QED BY <2>1, <2>2, <2>3
<1>2. ParentsAlive'
  <2>1. \A u \in InTable' \ {init} : tr_hParent'[u] \in Alive'
    BY <1>0, QuietKeeps DEF Tables, ParentsAlive
  <2>2. ASSUME NEW u \in Threads, pc'[u] = "collect"
        PROVE  tr_nState'[psChild'[u]] = "TS_ZOMBIE" /\ tr_hParent'[psChild'[u]] = u
    <3>1. CASE u = t
      BY <1>0, <1>1, <2>2, <3>1, QuietKeeps
    <3>2. CASE u # t
      <4>1. pc[u] = "collect" /\ psChild'[u] = psChild[u]
        BY <2>2, <3>2 DEF Quiet
      <4> QED BY <1>0, <4>1, QuietKeeps DEF Tables, ParentsAlive, InHand
    <3> QED BY <3>1, <3>2
  <2> QED BY <2>1, <2>2 DEF ParentsAlive
<1>3. InHand'
  <2>1. ASSUME NEW u \in Threads, pc'[u] = "spawn"
        PROVE  LET c == psChild'[u] IN
               /\ c \in Threads /\ tr_nState'[c] = "created" /\ tr_hParent'[c] = init
               /\ tr_psProcess'[c] = tr_psProcess'[u]
               /\ \A v \in Threads : pc'[v] = "spawn" /\ psChild'[v] = c => v = u
    <3>1. \A v \in Threads : pc'[v] = "spawn" => pc[v] = "spawn" /\ psChild'[v] = psChild[v]
      BY QuietKeeps
    <3> QED BY <1>0, <2>1, <3>1, QuietKeeps DEF Tables, InHand
  <2>2. ASSUME NEW u \in Threads, pc'[u] \in {"collect", "uncount", "free"}
        PROVE  LET c == psChild'[u] IN
               /\ c \in Threads \ {init} /\ tr_hParent'[c] = u
               /\ pc'[u] # "collect" => tr_nState'[c] = "deleted"
    <3>1. CASE u = t /\ pc'[u] = "collect"
      BY <1>0, <1>1, <3>1
    <3>2. CASE ~(u = t /\ pc'[u] = "collect")
      <4>1. pc[u] = pc'[u] /\ psChild'[u] = psChild[u]
        BY <2>2, <3>2 DEF Quiet
      <4> QED BY <1>0, <2>2, <4>1, QuietKeeps DEF Tables, InHand
    <3> QED BY <3>1, <3>2
  <2> QED BY <2>1, <2>2 DEF InHand
<1>4. CountsAgree'
  BY <1>0, QuietKeeps DEF Tables, CountsAgree
<1>6. Door'
  <2>1. ASSUME NEW p \in Procs
        PROVE  Closing(p)'
    BY <1>0, QuietKeeps, SameProcess DEF Tables, Door, Of
  <2> QED BY <2>1 DEF Door
<1> QED BY <1>2, <1>3, <1>4, <1>6 DEF Tables

-----------------------------------------------------------------------------
(* Steps that change the tables or the counters.                           *)

\* As MovedStep, for any change of them.
LEMMA TableStep ==
  ASSUME Core, NEW X \in SUBSET Threads, Moved(X), \A t \in X : Fits(t),
         tr_hParent' \in [Threads -> Threads \cup {None}],
         tr_psProcess' \in [Threads -> Procs \cup {None}],
         tr_psTermWaitList' \in [Threads -> SUBSET Threads],
         psChild' \in [Threads -> Threads \cup {None}],
         pr_nThreadCount' \in [Procs -> Nat], pr_nLivingThreadCount' \in [Procs -> Nat],
         process' \in [Procs -> {"none", "live", "closed", "freed", "freed twice"}]
  PROVE  Core'
<1>1. Whereabouts' /\ unreported' \subseteq Alive' /\ reaping' \subseteq Alive'
  BY MovedCore
<1>2. TypeOK'
  BY <1>1, TypeParts DEF Core
<1> QED BY <1>1, <1>2 DEF Core

\* The threads of a process can be counted.
LEMMA ProcessSets ==
  ASSUME NEW p
  PROVE  IsFiniteSet(Counted(p)) /\ IsFiniteSet(Living(p))
<1>1. Counted(p) \subseteq Threads /\ Living(p) \subseteq Threads
  BY DEF Counted, Living, Of
<1> QED BY <1>1, Basics, FS_Subset

\* One more, one less.
LEMMA OneMore ==
  ASSUME NEW S, IsFiniteSet(S), NEW x, x \notin S
  PROVE  Cardinality(S \cup {x}) = Cardinality(S) + 1
BY FS_AddElement

\* A set without one of its elements.
LEMMA OneLess ==
  ASSUME NEW S, IsFiniteSet(S), NEW x \in S
  PROVE  /\ Cardinality(S \ {x}) = Cardinality(S) - 1
         /\ Cardinality(S) - 1 \in Nat
         /\ Cardinality(S) = 1 <=> S = {x}
<1>1. IsFiniteSet(S \ {x}) /\ Cardinality(S \ {x}) = Cardinality(S) - 1
  BY FS_RemoveElement
<1>2. Cardinality(S \ {x}) \in Nat
  BY <1>1, FS_CardinalityType
<1>3. Cardinality(S) \in Nat
  BY FS_CardinalityType
<1>4. Cardinality(S \ {x}) = 0 <=> S \ {x} = {}
  BY <1>1, FS_EmptySet
<1>5. S \ {x} = {} <=> S = {x}
  OBVIOUS
<1> QED BY <1>1, <1>2, <1>3, <1>4, <1>5

\* A handle that is given out was nobody's.
LEMMA Fresh ==
  ASSUME Core, Tables, NEW c \in Threads, IsNext(c, tr_nState)
  PROVE  /\ tr_nState[c] = "none" /\ pc[c] = "user" /\ tr_psProcess[c] = None /\ c # init
         /\ c \notin unreported /\ c \notin reaping /\ c \notin Alive /\ c \notin InTable
         /\ \A u \in Threads : pc[u] \in {"spawn", "collect", "uncount", "free"} => psChild[u] # c
<1>1. tr_nState[c] = "none"
  BY DEF IsNext
<1>2. c \notin Alive /\ c \notin InTable
  BY <1>1 DEF Alive, InTable
<1>3. c # init /\ c \notin unreported /\ c \notin reaping /\ tr_psProcess[c] = None /\ pc[c] = "user"
  BY <1>1, <1>2 DEF Core, TypeOK, Whereabouts
<1>4. \A u \in Threads : pc[u] \in {"spawn", "collect", "uncount", "free"} => psChild[u] # c
  BY <1>1 DEF Tables, InHand, ParentsAlive
<1> QED BY <1>1, <1>2, <1>3, <1>4

\* What is in hand has a process.
LEMMA InHandProcess ==
  ASSUME Core, Tables, NEW t \in Threads, pc[t] \in {"spawn", "collect", "uncount", "free"}
  PROVE  psChild[t] \in Threads /\ tr_psProcess[psChild[t]] \in Procs
<1>1. psChild[t] \in Threads /\ tr_nState[psChild[t]] \in {"created", "TS_ZOMBIE", "deleted"}
  BY DEF Tables, InHand, ParentsAlive
<1>2. tr_psProcess[psChild[t]] \in Procs \cup {None}
  BY <1>1 DEF Core, TypeOK
<1>3. tr_psProcess[psChild[t]] # None
  BY <1>1 DEF Core, Whereabouts
<1> QED BY <1>1, <1>2, <1>3

\* Counting one more thread of a process leaves counts.
LEMMA NewCounted ==
  ASSUME TypeOK, NEW p \in Procs,
         pr_nThreadCount' = [pr_nThreadCount EXCEPT ![p] = @ + 1],
         pr_nLivingThreadCount' = [pr_nLivingThreadCount EXCEPT ![p] = @ + 1]
  PROVE  pr_nThreadCount' \in [Procs -> Nat] /\ pr_nLivingThreadCount' \in [Procs -> Nat]
<1>1. pr_nThreadCount \in [Procs -> Nat] /\ pr_nLivingThreadCount \in [Procs -> Nat]
  BY DEF TypeOK
<1>2. pr_nThreadCount[p] + 1 \in Nat /\ pr_nLivingThreadCount[p] + 1 \in Nat
  BY <1>1
<1> QED BY <1>1, <1>2

\* sys_Fork keeps Core and Tables.
LEMMA ForkStep ==
  ASSUME Core, Tables, NEW t \in Threads, NEW c \in Threads, NEW q \in Procs, sys_Fork(t, c, q)
  PROVE  Core' /\ Tables'
<1>0. /\ tr_nState[t] = "TS_RUN" /\ t \in Alive /\ TypeOK /\ Whereabouts /\ t # c
      /\ IsNext(c, tr_nState) /\ process[q] = "none"
  BY DEF sys_Fork, At, Alive, Core, IsNext
<1>1. /\ tr_nState[c] = "none" /\ pc[c] = "user" /\ tr_psProcess[c] = None /\ c # init
      /\ c \notin unreported /\ c \notin reaping /\ c \notin Alive /\ c \notin InTable
      /\ \A u \in Threads : pc[u] \in {"spawn", "collect", "uncount", "free"} => psChild[u] # c
  BY <1>0, Fresh
<1>2. /\ tr_nState' = [tr_nState EXCEPT ![c] = "TS_RUN"]
      /\ tr_hParent' = [tr_hParent EXCEPT ![c] = t]
      /\ tr_psProcess' = [tr_psProcess EXCEPT ![c] = q]
      /\ pr_nThreadCount' = [pr_nThreadCount EXCEPT ![q] = @ + 1]
      /\ pr_nLivingThreadCount' = [pr_nLivingThreadCount EXCEPT ![q] = @ + 1]
      /\ process' = [process EXCEPT ![q] = "live"]
      /\ UNCHANGED <<tr_nSigPend, unreported, pc, tr_psTermWaitList, wait, psChild, reaping>>
  BY DEF sys_Fork, Thread_New, call
<1>3. Core'
  <2>1. Moved({c})
    BY <1>0, <1>1, <1>2 DEF Moved, TypeOK, Whereabouts, Alive, States, Places
  <2>2. Fits(c)
    BY <1>0, <1>1, <1>2, Basics DEF Fits, TypeOK, Alive
  <2>3. /\ tr_hParent' \in [Threads -> Threads \cup {None}]
        /\ tr_psProcess' \in [Threads -> Procs \cup {None}]
        /\ tr_psTermWaitList' \in [Threads -> SUBSET Threads]
        /\ psChild' \in [Threads -> Threads \cup {None}]
    BY <1>0, <1>2 DEF TypeOK
  <2>4. process' \in [Procs -> {"none", "live", "closed", "freed", "freed twice"}]
    BY <1>0, <1>2 DEF TypeOK
  <2>5. pr_nThreadCount' \in [Procs -> Nat] /\ pr_nLivingThreadCount' \in [Procs -> Nat]
    BY <1>0, <1>2, NewCounted
  <2> QED BY <2>1, <2>2, <2>3, <2>4, <2>5, TableStep
<1>4. Of(q) = {}
  BY <1>0 DEF Tables, Door, Closing
<1>5. ASSUME NEW p \in Procs
      PROVE  /\ p # q => Of(p)' = Of(p) /\ Counted(p)' = Counted(p) /\ Living(p)' = Living(p)
             /\ p = q => Of(p)' = {c} /\ Counted(p)' = Counted(p) \cup {c} /\ Living(p)' = Living(p) \cup {c}
             /\ p = q => c \notin Counted(p) /\ c \notin Living(p)
             /\ c \notin Of(p)
  <2>0. p # None
    BY Basics
  <2>1. Of(p)' = IF p = q THEN Of(p) \cup {c} ELSE Of(p)
    BY <1>0, <1>1, <1>2, <2>0 DEF Of, TypeOK
  <2>2. c \notin Of(p)
    BY <1>1, <2>0 DEF Of
  <2>3. \A u \in Of(p) : u # c /\ tr_nState'[u] = tr_nState[u]
    BY <1>0, <1>2, <2>2 DEF Of, TypeOK
  <2>4. tr_nState'[c] = "TS_RUN" /\ pc'[c] = "user"
    BY <1>0, <1>1, <1>2 DEF TypeOK
  <2>5. Counted(p)' = IF p = q THEN Counted(p) \cup {c} ELSE Counted(p)
    BY <1>2, <2>1, <2>3, <2>4 DEF Counted
  <2>6. Living(p)' = IF p = q THEN Living(p) \cup {c} ELSE Living(p)
    BY <1>2, <2>1, <2>3, <2>4 DEF Living
  <2> QED BY <1>4, <2>1, <2>2, <2>5, <2>6 DEF Counted, Living
<1>6. Alive' = Alive \cup {c} /\ InTable' = InTable \cup {c}
  BY <1>0, <1>2 DEF Alive, InTable, TypeOK
<1>7. ParentsAlive'
  <2>1. \A u \in InTable' \ {init} : tr_hParent'[u] \in Alive'
    BY <1>0, <1>2, <1>6 DEF Tables, ParentsAlive, InTable, TypeOK
  <2>2. \A u \in Threads : pc'[u] = "collect" =>
          tr_nState'[psChild'[u]] = "TS_ZOMBIE" /\ tr_hParent'[psChild'[u]] = u
    BY <1>0, <1>1, <1>2 DEF Tables, ParentsAlive, InHand, TypeOK
  <2> QED BY <2>1, <2>2 DEF ParentsAlive
<1>8. InHand'
  <2>0. \A u \in Threads : pc[u] \in {"spawn", "collect", "uncount", "free"} =>
          LET d == psChild[u] IN
          /\ d \in Threads /\ d # c
          /\ tr_nState'[d] = tr_nState[d] /\ tr_hParent'[d] = tr_hParent[d] /\ tr_psProcess'[d] = tr_psProcess[d]
    BY <1>0, <1>1, <1>2 DEF Tables, InHand, TypeOK
  <2>1. \A u \in Threads : pc[u] = "spawn" => tr_psProcess'[u] = tr_psProcess[u]
    BY <1>0, <1>1, <1>2 DEF TypeOK
  <2> QED BY <1>2, <2>0, <2>1 DEF Tables, InHand
<1>9. CountsAgree'
  <2>1. ASSUME NEW p \in Procs
        PROVE  /\ pr_nThreadCount'[p] = Cardinality(Counted(p)')
               /\ pr_nLivingThreadCount'[p] = Cardinality(Living(p)')
    <3>1. pr_nThreadCount[p] = Cardinality(Counted(p)) /\ pr_nLivingThreadCount[p] = Cardinality(Living(p))
      BY DEF Tables, CountsAgree
    <3>2. CASE p = q
      <4>1. pr_nThreadCount'[p] = pr_nThreadCount[p] + 1 /\ pr_nLivingThreadCount'[p] = pr_nLivingThreadCount[p] + 1
        BY <1>0, <1>2, <3>2 DEF TypeOK
      <4>2. Cardinality(Counted(p) \cup {c}) = Cardinality(Counted(p)) + 1
        BY <1>5, <3>2, ProcessSets, OneMore
      <4>3. Cardinality(Living(p) \cup {c}) = Cardinality(Living(p)) + 1
        BY <1>5, <3>2, ProcessSets, OneMore
      <4> QED BY <1>5, <3>1, <3>2, <4>1, <4>2, <4>3
    <3>3. CASE p # q
      BY <1>0, <1>2, <1>5, <3>1, <3>3 DEF TypeOK
    <3> QED BY <3>2, <3>3
  <2> QED BY <2>1 DEF CountsAgree
<1>11. Door'
  <2>1. ASSUME NEW p \in Procs
        PROVE  Closing(p)'
    <3>1. CASE p = q
      BY <1>0, <1>1, <1>2, <1>5, <3>1 DEF TypeOK, Closing
    <3>2. CASE p # q
      <4>1. /\ Of(p)' = Of(p) /\ Living(p)' = Living(p) /\ Counted(p)' = Counted(p)
            /\ process'[p] = process[p]
        BY <1>0, <1>2, <1>5, <3>2 DEF TypeOK
      <4> QED BY <1>2, <4>1, SameProcess DEF Tables, Door
    <3> QED BY <3>1, <3>2
  <2> QED BY <2>1 DEF Door
<1> QED BY <1>3, <1>7, <1>8, <1>9, <1>11 DEF Tables

\* sys_spawn_thread keeps Core and Tables.
LEMMA SpawnStep ==
  ASSUME Core, Tables, NEW t \in Threads, NEW c \in Threads, sys_spawn_thread(t, c)
  PROVE  Core' /\ Tables'
<1>0. /\ tr_nState[t] = "TS_RUN" /\ pc[t] = "user" /\ t \in Alive /\ TypeOK /\ Whereabouts /\ t # c
      /\ IsNext(c, tr_nState) /\ tr_psProcess[t] \in MultiThreaded
  BY DEF sys_spawn_thread, At, Alive, Core, IsNext
<1>1. /\ tr_nState[c] = "none" /\ pc[c] = "user" /\ tr_psProcess[c] = None /\ c # init
      /\ c \notin unreported /\ c \notin reaping /\ c \notin Alive /\ c \notin InTable
      /\ \A u \in Threads : pc[u] \in {"spawn", "collect", "uncount", "free"} => psChild[u] # c
  BY <1>0, Fresh
<1>2. PICK q \in Procs :
        /\ q = tr_psProcess[t]
        /\ tr_nState' = [tr_nState EXCEPT ![c] = "created"]
        /\ tr_hParent' = [tr_hParent EXCEPT ![c] = init]
        /\ tr_psProcess' = [tr_psProcess EXCEPT ![c] = q]
        /\ pr_nThreadCount' = [pr_nThreadCount EXCEPT ![q] = @ + 1]
        /\ pr_nLivingThreadCount' = [pr_nLivingThreadCount EXCEPT ![q] = @ + 1]
        /\ psChild' = [psChild EXCEPT ![t] = c]
        /\ Goes(t, "spawn")
        /\ UNCHANGED <<tr_nSigPend, unreported, tr_psTermWaitList, wait, reaping, process>>
  BY <1>0, ThreadLifeTypes DEF sys_spawn_thread, Thread_New
<1>3. /\ pc' \in [Threads -> Places] /\ pc'[t] = "spawn" /\ \A u \in Threads \ {t} : pc'[u] = pc[u]
  BY <1>0, <1>2, GoesTo DEF Places
<1>4. /\ tr_nState' \in [Threads -> States] /\ tr_nState'[c] = "created"
      /\ tr_hParent'[c] = init /\ tr_psProcess'[c] = q /\ psChild'[t] = c
      /\ \A u \in Threads \ {t} : psChild'[u] = psChild[u]
      /\ \A u \in Threads \ {c} :
           /\ tr_nState'[u] = tr_nState[u] /\ tr_hParent'[u] = tr_hParent[u]
           /\ tr_psProcess'[u] = tr_psProcess[u]
  BY <1>0, <1>2 DEF TypeOK, States
<1>5. Core'
  <2>1. Moved({t, c})
    BY <1>0, <1>2, <1>3, <1>4 DEF Moved, TypeOK, Whereabouts, Alive
  <2>2. Fits(t)
    BY <1>0, <1>2, <1>3, <1>4 DEF Fits, Alive, Whereabouts
  <2>3. Fits(c)
    BY <1>0, <1>1, <1>2, <1>3, <1>4, Basics DEF Fits
  <2>4. /\ tr_hParent' \in [Threads -> Threads \cup {None}]
        /\ tr_psProcess' \in [Threads -> Procs \cup {None}]
        /\ tr_psTermWaitList' \in [Threads -> SUBSET Threads]
        /\ psChild' \in [Threads -> Threads \cup {None}]
        /\ process' \in [Procs -> {"none", "live", "closed", "freed", "freed twice"}]
    BY <1>0, <1>2, Basics DEF TypeOK
  <2>5. pr_nThreadCount' \in [Procs -> Nat] /\ pr_nLivingThreadCount' \in [Procs -> Nat]
    BY <1>0, <1>2, NewCounted
  <2> QED BY <2>1, <2>2, <2>3, <2>4, <2>5, TableStep
<1>6. ASSUME NEW p \in Procs
      PROVE  /\ Of(p)' = IF p = q THEN Of(p) \cup {c} ELSE Of(p)
             /\ Counted(p)' = IF p = q THEN Counted(p) \cup {c} ELSE Counted(p)
             /\ Living(p)' = IF p = q THEN Living(p) \cup {c} ELSE Living(p)
             /\ c \notin Of(p) /\ c \notin Counted(p) /\ c \notin Living(p)
  <2>0. p # None
    BY Basics
  <2>1. Of(p)' = IF p = q THEN Of(p) \cup {c} ELSE Of(p)
    BY <1>1, <1>4, <2>0 DEF Of
  <2>2. c \notin Of(p)
    BY <1>1, <2>0 DEF Of
  <2>3. \A u \in Of(p) : u \in Threads \ {c}
    BY <2>2 DEF Of
  <2>4. \A u \in Threads : /\ pc'[u] = "uncount" <=> pc[u] = "uncount"
                           /\ pc'[u] = "uncount" => psChild'[u] = psChild[u]
                           /\ pc'[u] \in {"close", "exit"} <=> pc[u] \in {"close", "exit"}
    BY <1>0, <1>3, <1>4
  <2>5. Counted(p)' = IF p = q THEN Counted(p) \cup {c} ELSE Counted(p)
    BY <1>4, <2>1, <2>3, <2>4 DEF Counted
  <2>6. Living(p)' = IF p = q THEN Living(p) \cup {c} ELSE Living(p)
    BY <1>1, <1>4, <2>1, <2>3, <2>4 DEF Living
  <2> QED BY <2>1, <2>2, <2>5, <2>6 DEF Counted, Living
<1>7. Alive' = Alive /\ InTable' = InTable
  BY <1>1, <1>4 DEF Alive, InTable
<1>8. ParentsAlive'
  <2>1. \A u \in InTable' \ {init} : tr_hParent'[u] \in Alive'
    BY <1>1, <1>4, <1>7 DEF Tables, ParentsAlive, InTable
  <2>2. \A u \in Threads : pc'[u] = "collect" =>
          tr_nState'[psChild'[u]] = "TS_ZOMBIE" /\ tr_hParent'[psChild'[u]] = u
    BY <1>1, <1>3, <1>4 DEF Tables, ParentsAlive, InHand
  <2> QED BY <2>1, <2>2 DEF ParentsAlive
<1>9. InHand'
  <2>1. ASSUME NEW u \in Threads, pc'[u] = "spawn"
        PROVE  LET d == psChild'[u] IN
               /\ d \in Threads /\ tr_nState'[d] = "created" /\ tr_hParent'[d] = init
               /\ tr_psProcess'[d] = tr_psProcess'[u]
               /\ \A v \in Threads : pc'[v] = "spawn" /\ psChild'[v] = d => v = u
    <3>1. CASE u = t
      BY <1>0, <1>1, <1>2, <1>3, <1>4, <3>1
    <3>2. CASE u # t
      BY <1>0, <1>1, <1>3, <1>4, <2>1, <3>2 DEF Tables, InHand
    <3> QED BY <3>1, <3>2
  <2>2. ASSUME NEW u \in Threads, pc'[u] \in {"collect", "uncount", "free"}
        PROVE  LET d == psChild'[u] IN
               /\ d \in Threads \ {init} /\ tr_hParent'[d] = u
               /\ pc'[u] # "collect" => tr_nState'[d] = "deleted"
    BY <1>1, <1>3, <1>4, <2>2 DEF Tables, InHand
  <2> QED BY <2>1, <2>2 DEF InHand
<1>10. CountsAgree'
  <2>1. ASSUME NEW p \in Procs
        PROVE  /\ pr_nThreadCount'[p] = Cardinality(Counted(p)')
               /\ pr_nLivingThreadCount'[p] = Cardinality(Living(p)')
    <3>1. pr_nThreadCount[p] = Cardinality(Counted(p)) /\ pr_nLivingThreadCount[p] = Cardinality(Living(p))
      BY DEF Tables, CountsAgree
    <3>2. CASE p = q
      <4>1. pr_nThreadCount'[p] = pr_nThreadCount[p] + 1 /\ pr_nLivingThreadCount'[p] = pr_nLivingThreadCount[p] + 1
        BY <1>0, <1>2, <3>2 DEF TypeOK
      <4>2. Cardinality(Counted(p) \cup {c}) = Cardinality(Counted(p)) + 1
        BY <1>6, ProcessSets, OneMore
      <4>3. Cardinality(Living(p) \cup {c}) = Cardinality(Living(p)) + 1
        BY <1>6, ProcessSets, OneMore
      <4> QED BY <1>6, <3>1, <3>2, <4>1, <4>2, <4>3
    <3>3. CASE p # q
      BY <1>0, <1>2, <1>6, <3>1, <3>3 DEF TypeOK
    <3> QED BY <3>2, <3>3
  <2> QED BY <2>1 DEF CountsAgree
<1>12. Door'
  <2>1. ASSUME NEW p \in Procs
        PROVE  Closing(p)'
    <3>0. Closing(p) /\ process'[p] = process[p] /\ \A u \in Threads : pc'[u] = "close" <=> pc[u] = "close"
      BY <1>0, <1>2, <1>3 DEF Tables, Door
    <3>1. CASE p = q
      <4>1. t \in Living(q) /\ t \in Counted(q) /\ t \in Of(q)
        BY <1>0, <1>2 DEF Living, Counted, Of
      <4>2. process[q] = "live" /\ \A u \in Of(q) : pc[u] # "close"
        BY <1>0, <3>0, <3>1, <4>1 DEF Closing, TypeOK
      <4>3. \A u \in Of(q)' : pc'[u] # "close"
        BY <1>1, <1>6, <3>0, <4>2 DEF Of
      <4> QED BY <1>6, <3>0, <3>1, <4>2, <4>3 DEF Closing
    <3>2. CASE p # q
      <4>1. Of(p)' = Of(p) /\ Living(p)' = Living(p) /\ Counted(p)' = Counted(p)
        BY <1>6, <3>2
      <4>2. \A u \in Of(p) : u \in Threads \ {c}
        BY <1>6 DEF Of
      <4> QED BY <1>4, <3>0, <4>1, <4>2, SameProcess
    <3> QED BY <3>1, <3>2
  <2> QED BY <2>1 DEF Door
<1> QED BY <1>5, <1>8, <1>9, <1>10, <1>12 DEF Tables

\* spawn_thread_insert keeps Core and Tables.
LEMMA InsertStep ==
  ASSUME Core, Tables, NEW t \in Threads, spawn_thread_insert(t)
  PROVE  Core' /\ Tables'
<1>0. /\ tr_nState[t] = "TS_RUN" /\ pc[t] = "spawn" /\ t \in Alive /\ TypeOK /\ Whereabouts
      /\ tr_psProcess[t] # None
  BY Basics DEF spawn_thread_insert, At, Alive, Core, Whereabouts
<1>1. PICK c \in Threads :
        /\ c = psChild[t] /\ tr_nState[c] = "created" /\ tr_hParent[c] = init
        /\ tr_psProcess[c] = tr_psProcess[t]
        /\ \A u \in Threads : pc[u] = "spawn" /\ psChild[u] = c => u = t
  BY <1>0 DEF Tables, InHand
<1>2. /\ pc[c] = "user" /\ c # init /\ c \notin Alive /\ c \notin InTable /\ c \notin unreported /\ c \notin reaping
      /\ c # t
  BY <1>0, <1>1 DEF Whereabouts, TypeOK, Alive, InTable
<1>3. PICK q \in Procs : q = tr_psProcess[t]
  BY <1>0 DEF TypeOK
<1>4. PICK s \in {"TS_WAIT", "failed"} :
        /\ tr_nState' = [tr_nState EXCEPT ![c] = s]
        /\ s = "TS_WAIT" => UNCHANGED pr_nThreadCount
        /\ s = "failed" => pr_nThreadCount' = [pr_nThreadCount EXCEPT ![q] = @ - 1]
  BY <1>1, <1>3 DEF spawn_thread_insert
<1>5. /\ psChild' = [psChild EXCEPT ![t] = None] /\ Goes(t, "user")
      /\ UNCHANGED <<tr_nSigPend, unreported, tr_hParent, tr_psProcess, tr_psTermWaitList, wait, reaping,
                     pr_nLivingThreadCount, process>>
  BY DEF spawn_thread_insert, thread
<1>6. /\ pc' \in [Threads -> Places] /\ pc'[t] = "user" /\ \A u \in Threads \ {t} : pc'[u] = pc[u]
  BY <1>0, <1>5, GoesTo DEF Places
<1>7. /\ tr_nState' \in [Threads -> States] /\ tr_nState'[c] = s
      /\ \A u \in Threads \ {t} : psChild'[u] = psChild[u]
      /\ \A u \in Threads \ {c} : tr_nState'[u] = tr_nState[u]
  BY <1>0, <1>4, <1>5 DEF TypeOK, States
<1>8. \A u \in Threads \ {t} : pc[u] \in {"spawn", "collect", "uncount", "free"} => psChild[u] # c
  BY <1>1 DEF Tables, InHand, ParentsAlive
<1>9. ASSUME NEW p \in Procs
      PROVE  /\ Of(p)' = Of(p) /\ Living(p)' = Living(p)
             /\ Counted(p)' = IF p = q /\ s = "failed" THEN Counted(p) \ {c} ELSE Counted(p)
             /\ p = q => c \in Counted(p)
  <2>1. Of(p)' = Of(p)
    BY <1>5 DEF Of
  <2>2. c \in Of(p) <=> p = q
    BY <1>1, <1>3 DEF Of
  <2>3. \A u \in Threads : /\ pc'[u] = "uncount" <=> pc[u] = "uncount"
                           /\ pc'[u] = "uncount" => psChild'[u] = psChild[u] /\ psChild[u] # c
                           /\ pc'[u] \in {"close", "exit"} <=> pc[u] \in {"close", "exit"}
    BY <1>0, <1>6, <1>7, <1>8
  <2>4. Living(p)' = Living(p)
    BY <1>1, <1>7, <2>1, <2>3 DEF Living, Of
  <2>5. Counted(p)' = IF p = q /\ s = "failed" THEN Counted(p) \ {c} ELSE Counted(p)
    BY <1>1, <1>7, <2>1, <2>2, <2>3 DEF Counted, Of
  <2>6. p = q => c \in Counted(p)
    BY <1>1, <2>2 DEF Counted
  <2> QED BY <2>1, <2>4, <2>5, <2>6
<1>10. CountsAgree' /\ pr_nThreadCount' \in [Procs -> Nat]
  <2>1. ASSUME NEW p \in Procs
        PROVE  /\ pr_nThreadCount'[p] = Cardinality(Counted(p)') /\ pr_nThreadCount'[p] \in Nat
               /\ pr_nLivingThreadCount'[p] = Cardinality(Living(p)')
    <3>1. pr_nThreadCount[p] = Cardinality(Counted(p)) /\ pr_nLivingThreadCount[p] = Cardinality(Living(p))
      BY DEF Tables, CountsAgree
    <3>2. pr_nThreadCount[p] \in Nat
      BY <1>0 DEF TypeOK
    <3>3. CASE p = q /\ s = "failed"
      <4>1. pr_nThreadCount'[p] = pr_nThreadCount[p] - 1
        BY <1>0, <1>4, <3>3 DEF TypeOK
      <4>2. /\ Cardinality(Counted(p) \ {c}) = Cardinality(Counted(p)) - 1
            /\ Cardinality(Counted(p)) - 1 \in Nat
        BY <1>9, <3>3, ProcessSets, OneLess
      <4> QED BY <1>5, <1>9, <3>1, <3>3, <4>1, <4>2
    <3>4. CASE ~(p = q /\ s = "failed")
      <4>1. pr_nThreadCount'[p] = pr_nThreadCount[p]
        BY <1>0, <1>4, <3>4 DEF TypeOK
      <4> QED BY <1>5, <1>9, <3>1, <3>2, <3>4, <4>1
    <3> QED BY <3>3, <3>4
  <2>2. pr_nThreadCount' = [p \in Procs |-> pr_nThreadCount'[p]]
    BY <1>0, <1>4 DEF TypeOK
  <2> QED BY <2>1, <2>2 DEF CountsAgree
<1>11. Core'
  <2>1. Moved({t, c})
    BY <1>0, <1>5, <1>6, <1>7 DEF Moved, TypeOK, Whereabouts, Alive
  <2>2. Fits(t)
    BY <1>0, <1>2, <1>5, <1>6, <1>7 DEF Fits, Alive, Whereabouts
  <2>3. Fits(c)
    BY <1>0, <1>1, <1>2, <1>5, <1>6, <1>7, Basics DEF Fits, Alive
  <2>4. /\ tr_hParent' \in [Threads -> Threads \cup {None}]
        /\ tr_psProcess' \in [Threads -> Procs \cup {None}]
        /\ tr_psTermWaitList' \in [Threads -> SUBSET Threads]
        /\ psChild' \in [Threads -> Threads \cup {None}]
        /\ process' \in [Procs -> {"none", "live", "closed", "freed", "freed twice"}]
        /\ pr_nLivingThreadCount' \in [Procs -> Nat]
    BY <1>0, <1>5, Basics DEF TypeOK
  <2> QED BY <1>10, <2>1, <2>2, <2>3, <2>4, TableStep
<1>12. ParentsAlive'
  <2>1. \A u \in InTable' \ {init} : tr_hParent'[u] \in Alive'
    <3>1. \A u \in Alive : u \in Alive'
      BY <1>2, <1>7 DEF Alive
    <3>2. \A u \in InTable' : u = c \/ u \in InTable
      BY <1>7 DEF InTable
    <3>3. init \in Alive
      BY <1>0 DEF Whereabouts
    <3> QED BY <1>1, <1>5, <3>1, <3>2, <3>3 DEF Tables, ParentsAlive
  <2>2. \A u \in Threads : pc'[u] = "collect" =>
          tr_nState'[psChild'[u]] = "TS_ZOMBIE" /\ tr_hParent'[psChild'[u]] = u
    BY <1>5, <1>6, <1>7, <1>8 DEF Tables, ParentsAlive, InHand
  <2> QED BY <2>1, <2>2 DEF ParentsAlive
<1>13. InHand'
  BY <1>5, <1>6, <1>7, <1>8 DEF Tables, InHand
<1>15. Door'
  <2>1. ASSUME NEW p \in Procs
        PROVE  Closing(p)'
    <3>1. /\ Closing(p) /\ process'[p] = process[p] /\ Of(p)' = Of(p) /\ Living(p)' = Living(p)
          /\ Counted(p)' \subseteq Counted(p)
      BY <1>5, <1>9 DEF Tables, Door
    <3>2. \A u \in Of(p) : pc'[u] = "close" <=> pc[u] = "close"
      BY <1>0, <1>1, <1>6, <1>7 DEF Of
    <3> QED BY <3>1, <3>2, SameProcess
  <2> QED BY <2>1 DEF Door
<1> QED BY <1>10, <1>11, <1>12, <1>13, <1>15 DEF Tables

\* do_exit keeps Core and Tables.
LEMMA DoExitStep ==
  ASSUME Core, Tables, NEW t \in Threads, do_exit(t)
  PROVE  Core' /\ Tables'
<1>0. /\ tr_nState[t] = "TS_RUN" /\ pc[t] = "do_exit" /\ t \in Alive /\ TypeOK /\ Whereabouts
      /\ tr_psProcess[t] # None /\ t # init /\ t \notin reaping
  BY Basics DEF do_exit, At, Alive, Core, Whereabouts
<1>1. PICK q \in Procs : q = tr_psProcess[t]
  BY <1>0 DEF TypeOK
<1>2. PICK s \in {"close", "exit"} : Goes(t, s) /\ (s = "close" <=> pr_nLivingThreadCount[q] = 1)
  BY <1>1 DEF do_exit, LastOut
<1>3. /\ pr_nLivingThreadCount' = [pr_nLivingThreadCount EXCEPT ![q] = @ - 1]
      /\ unreported' = unreported \ {t}
      /\ UNCHANGED <<tr_nState, tr_nSigPend, tr_hParent, tr_psProcess, tr_psTermWaitList, wait, psChild, reaping,
                     pr_nThreadCount, process>>
  BY <1>1 DEF do_exit, thread, call
<1>4. /\ pc' \in [Threads -> Places] /\ pc'[t] = s /\ \A u \in Threads \ {t} : pc'[u] = pc[u]
  BY <1>0, <1>2, GoesTo DEF Places
<1>5. ASSUME NEW p \in Procs
      PROVE  /\ Of(p)' = Of(p) /\ Counted(p)' = Counted(p)
             /\ Living(p)' = IF p = q THEN Living(p) \ {t} ELSE Living(p)
             /\ p = q => t \in Living(p) /\ t \in Of(p)
             /\ p # q => t \notin Of(p)
  <2>1. Of(p)' = Of(p) /\ (t \in Of(p) <=> p = q)
    BY <1>1, <1>3 DEF Of
  <2>2. Counted(p)' = Counted(p)
    BY <1>0, <1>3, <1>4, <2>1 DEF Counted
  <2>3. Living(p)' = IF p = q THEN Living(p) \ {t} ELSE Living(p)
    BY <1>0, <1>3, <1>4, <2>1 DEF Living, Of
  <2>4. p = q => t \in Living(p)
    BY <1>0, <2>1 DEF Living
  <2> QED BY <2>1, <2>2, <2>3, <2>4
<1>6. /\ Cardinality(Living(q) \ {t}) = Cardinality(Living(q)) - 1
      /\ Cardinality(Living(q)) - 1 \in Nat
      /\ Cardinality(Living(q)) = 1 <=> Living(q) = {t}
  BY <1>5, ProcessSets, OneLess
<1>7. CountsAgree' /\ pr_nLivingThreadCount' \in [Procs -> Nat]
  <2>1. ASSUME NEW p \in Procs
        PROVE  /\ pr_nThreadCount'[p] = Cardinality(Counted(p)') /\ pr_nLivingThreadCount'[p] \in Nat
               /\ pr_nLivingThreadCount'[p] = Cardinality(Living(p)')
    <3>1. pr_nThreadCount[p] = Cardinality(Counted(p)) /\ pr_nLivingThreadCount[p] = Cardinality(Living(p))
      BY DEF Tables, CountsAgree
    <3>2. pr_nLivingThreadCount[p] \in Nat
      BY <1>0 DEF TypeOK
    <3>3. CASE p = q
      <4>1. pr_nLivingThreadCount'[p] = pr_nLivingThreadCount[p] - 1
        BY <1>0, <1>3, <3>3 DEF TypeOK
      <4> QED BY <1>3, <1>5, <1>6, <3>1, <3>3, <4>1
    <3>4. CASE p # q
      <4>1. pr_nLivingThreadCount'[p] = pr_nLivingThreadCount[p]
        BY <1>0, <1>3, <3>4 DEF TypeOK
      <4> QED BY <1>3, <1>5, <3>1, <3>2, <3>4, <4>1
    <3> QED BY <3>3, <3>4
  <2>2. pr_nLivingThreadCount' = [p \in Procs |-> pr_nLivingThreadCount'[p]]
    BY <1>0, <1>3 DEF TypeOK
  <2> QED BY <2>1, <2>2 DEF CountsAgree
<1>8. Core'
  <2>1. Moved({t})
    BY <1>0, <1>3, <1>4 DEF Moved, TypeOK, Whereabouts, Alive, States
  <2>2. Fits(t)
    BY <1>0, <1>3, <1>4 DEF Fits, Alive
  <2>3. /\ tr_hParent' \in [Threads -> Threads \cup {None}]
        /\ tr_psProcess' \in [Threads -> Procs \cup {None}]
        /\ tr_psTermWaitList' \in [Threads -> SUBSET Threads]
        /\ psChild' \in [Threads -> Threads \cup {None}]
        /\ process' \in [Procs -> {"none", "live", "closed", "freed", "freed twice"}]
        /\ pr_nThreadCount' \in [Procs -> Nat]
    BY <1>0, <1>3 DEF TypeOK
  <2> QED BY <1>7, <2>1, <2>2, <2>3, TableStep
<1>9. ParentsAlive'
  <2>1. Alive' = Alive /\ InTable' = InTable
    BY <1>3 DEF Alive, InTable
  <2> QED BY <1>3, <1>4, <2>1 DEF Tables, ParentsAlive
<1>10. InHand'
  BY <1>3, <1>4 DEF Tables, InHand
<1>12. Door'
  <2>1. ASSUME NEW p \in Procs
        PROVE  Closing(p)'
    <3>0. Closing(p) /\ process'[p] = process[p]
      BY <1>3 DEF Tables, Door
    <3>1. CASE p = q
      <4>0. t \in Counted(q)
        BY <1>0, <1>5 DEF Counted
      <4>1. process[q] = "live" /\ \A u \in Of(q) : pc[u] # "close"
        BY <1>0, <1>5, <3>0, <3>1, <4>0 DEF Closing, TypeOK
      <4>2. \A u \in Of(q) : pc'[u] = "close" => u = t /\ s = "close"
        BY <1>4, <4>1 DEF Of
      <4>3. s = "close" <=> Living(q) = {t}
        BY <1>2, <1>6 DEF Tables, CountsAgree
      <4>4. CASE s = "close"
        BY <1>3, <1>4, <1>5, <3>0, <3>1, <4>1, <4>2, <4>3, <4>4 DEF Closing
      <4>5. CASE s = "exit"
        <5>1. Living(q) \ {t} # {}
          BY <1>5, <4>3, <4>5
        <5> QED BY <1>3, <1>5, <3>0, <3>1, <4>1, <4>2, <4>5, <5>1 DEF Closing
      <4> QED BY <1>2, <4>4, <4>5
    <3>2. CASE p # q
      <4>1. \A u \in Of(p) : u \in Threads \ {t}
        BY <1>5, <3>2 DEF Of
      <4> QED BY <1>3, <1>4, <1>5, <3>0, <3>2, <4>1, SameProcess
    <3> QED BY <3>1, <3>2
  <2> QED BY <2>1 DEF Door
<1> QED BY <1>7, <1>8, <1>9, <1>10, <1>12 DEF Tables

\* do_exit_close keeps Core and Tables.
LEMMA CloseStep ==
  ASSUME Core, Tables, NEW t \in Threads, do_exit_close(t)
  PROVE  Core' /\ Tables'
<1>0. /\ tr_nState[t] = "TS_RUN" /\ pc[t] = "close" /\ t \in Alive /\ TypeOK /\ Whereabouts
      /\ tr_psProcess[t] # None /\ t # init /\ t \notin reaping /\ t \notin unreported
  BY Basics DEF do_exit_close, At, Alive, Core, Whereabouts
<1>1. PICK q \in Procs : q = tr_psProcess[t]
  BY <1>0 DEF TypeOK
<1>2. /\ process' = [process EXCEPT ![q] = "closed"] /\ Goes(t, "exit")
      /\ UNCHANGED <<tr_nState, tr_nSigPend, unreported, tr_hParent, tr_psProcess, tr_psTermWaitList, wait, psChild,
                     reaping, pr_nThreadCount, pr_nLivingThreadCount>>
  BY <1>1 DEF do_exit_close, thread, call
<1>3. /\ pc' \in [Threads -> Places] /\ pc'[t] = "exit" /\ \A u \in Threads \ {t} : pc'[u] = pc[u]
  BY <1>0, <1>2, GoesTo DEF Places
<1>4. \A p \in Procs : Of(p)' = Of(p) /\ Counted(p)' = Counted(p) /\ Living(p)' = Living(p)
  BY <1>0, <1>2, <1>3 DEF Of, Counted, Living
<1>5. Core'
  <2>1. Moved({t})
    BY <1>0, <1>2, <1>3 DEF Moved, TypeOK, Whereabouts, Alive, States
  <2>2. Fits(t)
    BY <1>0, <1>2, <1>3 DEF Fits, Alive
  <2>3. /\ tr_hParent' \in [Threads -> Threads \cup {None}]
        /\ tr_psProcess' \in [Threads -> Procs \cup {None}]
        /\ tr_psTermWaitList' \in [Threads -> SUBSET Threads]
        /\ psChild' \in [Threads -> Threads \cup {None}]
        /\ process' \in [Procs -> {"none", "live", "closed", "freed", "freed twice"}]
        /\ pr_nThreadCount' \in [Procs -> Nat] /\ pr_nLivingThreadCount' \in [Procs -> Nat]
    BY <1>0, <1>2 DEF TypeOK
  <2> QED BY <2>1, <2>2, <2>3, TableStep
<1>6. ParentsAlive'
  <2>1. Alive' = Alive /\ InTable' = InTable
    BY <1>2 DEF Alive, InTable
  <2> QED BY <1>2, <1>3, <2>1 DEF Tables, ParentsAlive
<1>7. InHand'
  BY <1>2, <1>3 DEF Tables, InHand
<1>9. CountsAgree'
  BY <1>2, <1>4 DEF Tables, CountsAgree
<1>10. Door'
  <2>0. process'[q] = "closed" /\ \A p \in Procs \ {q} : process'[p] = process[p]
    BY <1>0, <1>2 DEF TypeOK
  <2>1. ASSUME NEW p \in Procs
        PROVE  Closing(p)'
    <3>0. Closing(p)
      BY DEF Tables, Door
    <3>1. CASE p = q
      <4>1. t \in Of(q)
        BY <1>1 DEF Of
      <4>2. Living(q) = {} /\ \A u \in Of(q) : pc[u] = "close" => u = t
        BY <1>0, <3>0, <3>1, <4>1 DEF Closing
      <4>3. \A u \in Of(q) : pc'[u] # "close"
        BY <1>3, <4>2 DEF Of
      <4> QED BY <1>4, <2>0, <3>1, <4>2, <4>3 DEF Closing
    <3>2. CASE p # q
      <4>1. \A u \in Of(p) : u \in Threads \ {t}
        BY <1>1, <3>2 DEF Of
      <4> QED BY <1>2, <1>3, <1>4, <2>0, <3>0, <3>2, <4>1, SameProcess
    <3> QED BY <3>1, <3>2
  <2> QED BY <2>1 DEF Door
<1> QED BY <1>5, <1>6, <1>7, <1>9, <1>10 DEF Tables

\* do_exit_zombie keeps Core and Tables.
LEMMA ZombieStep ==
  ASSUME Core, Tables, NEW t \in Threads, do_exit_zombie(t)
  PROVE  Core' /\ Tables'
<1>0. /\ tr_nState[t] = "TS_RUN" /\ pc[t] = "exit" /\ t \in Alive /\ TypeOK /\ Whereabouts
      /\ tr_psProcess[t] # None /\ t # init /\ t \notin reaping /\ t \notin unreported
  BY Basics DEF do_exit_zombie, At, Alive, Core, Whereabouts
<1>1. /\ Goes(t, "gone") /\ HandOver(t)
      /\ tr_nSigPend' = [Pending(Notified(t), "SIGCHLD") EXCEPT ![t] = {}]
      /\ UNCHANGED <<unreported, tr_psProcess, tr_psTermWaitList, wait, psChild, reaping,
                     pr_nThreadCount, pr_nLivingThreadCount, process>>
  BY DEF do_exit_zombie, call, counts
<1>2. /\ pc' \in [Threads -> Places] /\ pc'[t] = "gone" /\ \A u \in Threads \ {t} : pc'[u] = pc[u]
  BY <1>0, <1>1, GoesTo DEF Places
<1> DEFINE W == {u \in tr_psTermWaitList[t] : tr_nState[u] = "TS_WAIT"}
           f == Runs(Woken(Notified(t), "SIGCHLD") \cup W)
<1>3. tr_nState' = [f EXCEPT ![t] = "TS_ZOMBIE"]
  BY DEF do_exit_zombie
<1>4. Wakes(f)
  <2>1. \A u \in (Woken(Notified(t), "SIGCHLD") \cup W) \cap Threads : tr_nState[u] \in {"TS_WAIT", "TS_STOPPED"}
    BY DEF Woken
  <2> QED BY <1>0, <2>1, RunsWakes
<1> HIDE DEF f, W
<1>5. /\ tr_nState' \in [Threads -> States] /\ tr_nState'[t] = "TS_ZOMBIE"
      /\ \A u \in Threads \ {t} : \/ tr_nState'[u] = tr_nState[u]
                                  \/ tr_nState[u] \in {"TS_WAIT", "TS_STOPPED"} /\ tr_nState'[u] = "TS_RUN"
  BY <1>3, <1>4 DEF Wakes, States
<1>6. tr_nSigPend' \in [Threads -> SUBSET Signals] /\ tr_nSigPend'[init] = {}
  <2>1. "SIGCHLD" \in Signals
    BY DEF Signals
  <2>2. Pending(Notified(t), "SIGCHLD") \in [Threads -> SUBSET Signals]
    BY <1>0, <2>1, PendingType
  <2>3. Pending(Notified(t), "SIGCHLD")[init] = {}
    BY <1>0, Basics DEF Pending, Whereabouts
  <2> QED BY <1>0, <1>1, <2>2, <2>3, Basics
<1>7. /\ tr_hParent' \in [Threads -> Threads \cup {None}]
      /\ \A c \in Threads : tr_hParent'[c] = IF c \in InTable /\ tr_hParent[c] = t THEN init ELSE tr_hParent[c]
  BY <1>0, <1>1, Basics DEF HandOver, Children, TypeOK
<1>8. Core'
  <2>1. Moved({t})
    BY <1>0, <1>1, <1>2, <1>5, <1>6 DEF Moved, TypeOK, Alive
  <2>2. Fits(t)
    BY <1>0, <1>1, <1>2, <1>5 DEF Fits
  <2> QED BY <1>0, <1>1, <1>7, <2>1, <2>2, TableStep DEF TypeOK
<1>9. Alive' = Alive \ {t} /\ InTable' = InTable
  BY <1>0, <1>5 DEF Alive, InTable
<1>10. \A u \in Threads :
         /\ tr_nState'[u] = "TS_ZOMBIE" <=> tr_nState[u] = "TS_ZOMBIE" \/ u = t
         /\ \A s \in {"none", "created", "deleted", "failed"} : tr_nState'[u] = s <=> tr_nState[u] = s
  BY <1>0, <1>5
<1>11. \A p \in Procs : Of(p)' = Of(p) /\ Counted(p)' = Counted(p) /\ Living(p)' = Living(p)
  <2>1. \A p \in Procs : Of(p)' = Of(p)
    BY <1>1 DEF Of
  <2>2. \A p \in Procs : Counted(p)' = Counted(p)
    BY <1>0, <1>1, <1>2, <1>10, <2>1 DEF Counted, Of
  <2>3. \A p \in Procs : Living(p)' = Living(p)
    BY <1>0, <1>2, <1>10, <2>1 DEF Living, Of
  <2> QED BY <2>1, <2>2, <2>3
<1>12. ParentsAlive'
  <2>1. ASSUME NEW u \in InTable' \ {init}
        PROVE  tr_hParent'[u] \in Alive'
    BY <1>0, <1>7, <1>9, <2>1 DEF Tables, ParentsAlive, InTable, Whereabouts
  <2>2. ASSUME NEW u \in Threads, pc'[u] = "collect"
        PROVE  tr_nState'[psChild'[u]] = "TS_ZOMBIE" /\ tr_hParent'[psChild'[u]] = u
    BY <1>0, <1>1, <1>2, <1>7, <1>10, <2>2 DEF Tables, ParentsAlive, InHand
  <2> QED BY <2>1, <2>2 DEF ParentsAlive
<1>13. InHand'
  <2>1. ASSUME NEW u \in Threads, pc'[u] = "spawn"
        PROVE  LET c == psChild'[u] IN
               /\ c \in Threads /\ tr_nState'[c] = "created" /\ tr_hParent'[c] = init
               /\ tr_psProcess'[c] = tr_psProcess'[u]
               /\ \A v \in Threads : pc'[v] = "spawn" /\ psChild'[v] = c => v = u
    BY <1>1, <1>2, <1>7, <1>10, <2>1 DEF Tables, InHand
  <2>2. ASSUME NEW u \in Threads, pc'[u] \in {"collect", "uncount", "free"}
        PROVE  LET c == psChild'[u] IN
               /\ c \in Threads \ {init} /\ tr_hParent'[c] = u
               /\ pc'[u] # "collect" => tr_nState'[c] = "deleted"
    BY <1>0, <1>1, <1>2, <1>7, <1>10, <2>2 DEF Tables, InHand
  <2> QED BY <2>1, <2>2 DEF InHand
<1>15. CountsAgree'
  BY <1>1, <1>11 DEF Tables, CountsAgree
<1>16. Door'
  <2>1. ASSUME NEW p \in Procs
        PROVE  Closing(p)'
    <3>1. \A u \in Of(p) : pc'[u] = "close" <=> pc[u] = "close"
      BY <1>0, <1>2, <1>10 DEF Of
    <3> QED BY <1>1, <1>11, <3>1, SameProcess DEF Tables, Door
  <2> QED BY <2>1 DEF Door
<1> QED BY <1>8, <1>12, <1>13, <1>15, <1>16 DEF Tables

\* Nobody else has in hand what t collects.
LEMMA OneCollector ==
  ASSUME Tables, NEW t \in Threads, NEW u \in Threads, u # t,
         pc[t] \in {"collect", "uncount", "free"}, pc[u] \in {"spawn", "collect", "uncount", "free"}
  PROVE  psChild[u] # psChild[t]
<1>1. tr_hParent[psChild[t]] = t /\ tr_nState[psChild[t]] \in {"TS_ZOMBIE", "deleted"}
  BY DEF Tables, InHand, ParentsAlive
<1>2. pc[u] # "spawn" => tr_hParent[psChild[u]] = u
  BY DEF Tables, InHand
<1>3. pc[u] = "spawn" => tr_nState[psChild[u]] = "created"
  BY DEF Tables, InHand
<1> QED BY <1>1, <1>2, <1>3

\* Thread_Delete keeps Core and Tables ...
LEMMA DeleteStep ==
  ASSUME Core, Tables, NEW t \in Threads, Thread_Delete(t)
  PROVE  Core' /\ Tables'
<1>0. /\ tr_nState[t] = "TS_RUN" /\ pc[t] = "collect" /\ t \in Alive /\ TypeOK /\ Whereabouts
      /\ tr_psProcess[t] # None
  BY Basics DEF Thread_Delete, At, Alive, Core, Whereabouts
<1>1. PICK c \in Threads : c = psChild[t] /\ tr_nState[c] = "TS_ZOMBIE" /\ tr_hParent[c] = t /\ c # init
  BY <1>0 DEF Tables, InHand, ParentsAlive
<1>2. /\ Goes(t, "uncount")
      /\ tr_nState' = [tr_nState EXCEPT ![c] = "deleted"]
      /\ tr_psTermWaitList' = [tr_psTermWaitList EXCEPT ![c] = {}]
      /\ UNCHANGED <<tr_nSigPend, unreported, tr_hParent, tr_psProcess, wait, psChild, reaping,
                     pr_nThreadCount, pr_nLivingThreadCount, process>>
  BY <1>1 DEF Thread_Delete, call, counts
<1>3. /\ pc' \in [Threads -> Places] /\ pc'[t] = "uncount" /\ \A u \in Threads \ {t} : pc'[u] = pc[u]
  BY <1>0, <1>2, GoesTo DEF Places
<1>4. /\ tr_nState' \in [Threads -> States] /\ tr_nState'[c] = "deleted"
      /\ \A u \in Threads \ {c} : tr_nState'[u] = tr_nState[u]
  BY <1>0, <1>2 DEF TypeOK, States
<1>5. /\ pc[c] = "gone" /\ c \notin Alive /\ c \notin unreported /\ c \notin reaping /\ c # t
      /\ tr_psProcess[c] # None
  BY <1>0, <1>1 DEF Whereabouts, TypeOK, Alive
<1>6. Core'
  <2>1. Moved({t, c})
    BY <1>0, <1>2, <1>3, <1>4 DEF Moved, TypeOK, Whereabouts, Alive
  <2>2. Fits(t)
    BY <1>0, <1>2, <1>3, <1>4, <1>5 DEF Fits, Alive, Whereabouts
  <2>3. Fits(c)
    BY <1>1, <1>2, <1>3, <1>4, <1>5 DEF Fits
  <2>4. /\ tr_hParent' \in [Threads -> Threads \cup {None}]
        /\ tr_psProcess' \in [Threads -> Procs \cup {None}]
        /\ tr_psTermWaitList' \in [Threads -> SUBSET Threads]
        /\ psChild' \in [Threads -> Threads \cup {None}]
        /\ process' \in [Procs -> {"none", "live", "closed", "freed", "freed twice"}]
        /\ pr_nThreadCount' \in [Procs -> Nat] /\ pr_nLivingThreadCount' \in [Procs -> Nat]
    BY <1>0, <1>2 DEF TypeOK
  <2> QED BY <2>1, <2>2, <2>3, <2>4, TableStep
<1>7. Alive' = Alive /\ InTable' = InTable \ {c}
  BY <1>1, <1>4 DEF Alive, InTable
<1>8. \A u \in Threads \ {t} : pc[u] \in {"spawn", "collect", "uncount", "free"} => psChild[u] # c
  BY <1>0, <1>1, OneCollector
<1>9. \A p \in Procs : Of(p)' = Of(p) /\ Counted(p)' = Counted(p) /\ Living(p)' = Living(p)
  <2>1. \A p \in Procs : Of(p)' = Of(p)
    BY <1>2 DEF Of
  <2>2. \A v \in Threads \ {c} : (\E u \in Threads : pc'[u] = "uncount" /\ psChild'[u] = v)
                                   <=> \E u \in Threads : pc[u] = "uncount" /\ psChild[u] = v
    BY <1>0, <1>1, <1>2, <1>3
  <2>3. \E u \in Threads : pc'[u] = "uncount" /\ psChild'[u] = c
    BY <1>1, <1>2, <1>3
  <2>4. ASSUME NEW p \in Procs
        PROVE  Counted(p)' = Counted(p)
    BY <1>1, <1>4, <2>1, <2>2, <2>3 DEF Counted, Of
  <2>5. \A p \in Procs : Living(p)' = Living(p)
    BY <1>0, <1>1, <1>3, <1>4, <2>1 DEF Living, Of
  <2> QED BY <2>1, <2>4, <2>5
<1>10. ParentsAlive'
  BY <1>2, <1>3, <1>4, <1>7, <1>8 DEF Tables, ParentsAlive, InHand
<1>11. InHand'
  <2>1. ASSUME NEW u \in Threads, pc'[u] = "spawn"
        PROVE  LET d == psChild'[u] IN
               /\ d \in Threads /\ tr_nState'[d] = "created" /\ tr_hParent'[d] = init
               /\ tr_psProcess'[d] = tr_psProcess'[u]
               /\ \A v \in Threads : pc'[v] = "spawn" /\ psChild'[v] = d => v = u
    BY <1>2, <1>3, <1>4, <1>8, <2>1 DEF Tables, InHand
  <2>2. ASSUME NEW u \in Threads, pc'[u] \in {"collect", "uncount", "free"}
        PROVE  LET d == psChild'[u] IN
               /\ d \in Threads \ {init} /\ tr_hParent'[d] = u
               /\ pc'[u] # "collect" => tr_nState'[d] = "deleted"
    <3>1. CASE u = t
      BY <1>1, <1>2, <1>4, <3>1
    <3>2. CASE u # t
      BY <1>2, <1>3, <1>4, <1>8, <2>2, <3>2 DEF Tables, InHand
    <3> QED BY <3>1, <3>2
  <2> QED BY <2>1, <2>2 DEF InHand
<1>13. CountsAgree'
  BY <1>2, <1>9 DEF Tables, CountsAgree
<1>14. Door'
  <2>1. ASSUME NEW p \in Procs
        PROVE  Closing(p)'
    <3>1. \A u \in Of(p) : pc'[u] = "close" <=> pc[u] = "close"
      BY <1>0, <1>3, <1>4 DEF Of
    <3> QED BY <1>2, <1>9, <3>1, SameProcess DEF Tables, Door
  <2> QED BY <2>1 DEF Door
<1> QED BY <1>6, <1>10, <1>11, <1>13, <1>14 DEF Tables

\* ... and so does the count after it.
LEMMA DeleteCountStep ==
  ASSUME Core, Tables, NEW t \in Threads, Thread_Delete_count(t)
  PROVE  Core' /\ Tables'
<1>0. /\ tr_nState[t] = "TS_RUN" /\ pc[t] = "uncount" /\ t \in Alive /\ TypeOK /\ Whereabouts
      /\ tr_psProcess[t] # None
  BY Basics DEF Thread_Delete_count, At, Alive, Core, Whereabouts
<1>1. PICK c \in Threads : c = psChild[t] /\ tr_nState[c] = "deleted" /\ tr_hParent[c] = t /\ c # init
  BY <1>0 DEF Tables, InHand
<1>2. PICK q \in Procs : q = tr_psProcess[c]
  BY <1>0, <1>1, InHandProcess
<1>3. /\ Goes(t, "free")
      /\ pr_nThreadCount' = [pr_nThreadCount EXCEPT ![q] = @ - 1]
      /\ UNCHANGED <<tr_nState, tr_nSigPend, unreported, tr_hParent, tr_psProcess, tr_psTermWaitList, wait, psChild,
                     reaping, pr_nLivingThreadCount, process>>
  BY <1>1, <1>2 DEF Thread_Delete_count, thread, call
<1>4. /\ pc' \in [Threads -> Places] /\ pc'[t] = "free" /\ \A u \in Threads \ {t} : pc'[u] = pc[u]
  BY <1>0, <1>3, GoesTo DEF Places
<1>5. ASSUME NEW p \in Procs
      PROVE  /\ Of(p)' = Of(p) /\ Living(p)' = Living(p)
             /\ Counted(p)' = IF p = q THEN Counted(p) \ {c} ELSE Counted(p)
             /\ p = q => c \in Counted(p)
  <2>1. Of(p)' = Of(p) /\ (c \in Of(p) <=> p = q)
    BY <1>2, <1>3 DEF Of
  <2>2. Living(p)' = Living(p)
    <3>1. \A u \in Threads : pc'[u] \in {"close", "exit"} <=> pc[u] \in {"close", "exit"}
      BY <1>0, <1>4
    <3> QED BY <1>3, <2>1, <3>1 DEF Living, Of
  <2>3. \A v \in Threads \ {c} : (\E u \in Threads : pc'[u] = "uncount" /\ psChild'[u] = v)
                                   <=> \E u \in Threads : pc[u] = "uncount" /\ psChild[u] = v
    BY <1>0, <1>1, <1>3, <1>4
  <2>4. ~\E u \in Threads : pc'[u] = "uncount" /\ psChild'[u] = c
    BY <1>0, <1>1, <1>3, <1>4, OneCollector
  <2>5. \E u \in Threads : pc[u] = "uncount" /\ psChild[u] = c
    BY <1>0, <1>1
  <2>6. Counted(p)' = IF p = q THEN Counted(p) \ {c} ELSE Counted(p)
    BY <1>1, <1>3, <2>1, <2>3, <2>4 DEF Counted, Of
  <2>7. p = q => c \in Counted(p)
    BY <2>1, <2>5 DEF Counted
  <2> QED BY <2>1, <2>2, <2>6, <2>7
<1>6. CountsAgree' /\ pr_nThreadCount' \in [Procs -> Nat]
  <2>1. ASSUME NEW p \in Procs
        PROVE  /\ pr_nThreadCount'[p] = Cardinality(Counted(p)') /\ pr_nThreadCount'[p] \in Nat
               /\ pr_nLivingThreadCount'[p] = Cardinality(Living(p)')
    <3>1. pr_nThreadCount[p] = Cardinality(Counted(p)) /\ pr_nLivingThreadCount[p] = Cardinality(Living(p))
      BY DEF Tables, CountsAgree
    <3>2. pr_nThreadCount[p] \in Nat
      BY <1>0 DEF TypeOK
    <3>3. CASE p = q
      <4>1. pr_nThreadCount'[p] = pr_nThreadCount[p] - 1
        BY <1>0, <1>3, <3>3 DEF TypeOK
      <4>2. /\ Cardinality(Counted(p) \ {c}) = Cardinality(Counted(p)) - 1
            /\ Cardinality(Counted(p)) - 1 \in Nat
        BY <1>5, <3>3, ProcessSets, OneLess
      <4> QED BY <1>3, <1>5, <3>1, <3>3, <4>1, <4>2
    <3>4. CASE p # q
      <4>1. pr_nThreadCount'[p] = pr_nThreadCount[p]
        BY <1>0, <1>3, <3>4 DEF TypeOK
      <4> QED BY <1>3, <1>5, <3>1, <3>2, <3>4, <4>1
    <3> QED BY <3>3, <3>4
  <2>2. pr_nThreadCount' = [p \in Procs |-> pr_nThreadCount'[p]]
    BY <1>0, <1>3 DEF TypeOK
  <2> QED BY <2>1, <2>2 DEF CountsAgree
<1>7. Core'
  <2>1. Moved({t})
    BY <1>0, <1>3, <1>4 DEF Moved, TypeOK, Whereabouts, Alive, States
  <2>2. Fits(t)
    BY <1>0, <1>3, <1>4 DEF Fits, Alive, Whereabouts
  <2>3. /\ tr_hParent' \in [Threads -> Threads \cup {None}]
        /\ tr_psProcess' \in [Threads -> Procs \cup {None}]
        /\ tr_psTermWaitList' \in [Threads -> SUBSET Threads]
        /\ psChild' \in [Threads -> Threads \cup {None}]
        /\ process' \in [Procs -> {"none", "live", "closed", "freed", "freed twice"}]
        /\ pr_nLivingThreadCount' \in [Procs -> Nat]
    BY <1>0, <1>3 DEF TypeOK
  <2> QED BY <1>6, <2>1, <2>2, <2>3, TableStep
<1>8. ParentsAlive'
  <2>1. Alive' = Alive /\ InTable' = InTable
    BY <1>3 DEF Alive, InTable
  <2> QED BY <1>3, <1>4, <2>1 DEF Tables, ParentsAlive
<1>9. InHand'
  <2>1. \A u \in Threads : /\ pc'[u] = "spawn" <=> pc[u] = "spawn"
                           /\ pc'[u] = "collect" <=> pc[u] = "collect"
                           /\ pc'[u] \in {"collect", "uncount", "free"} <=> pc[u] \in {"collect", "uncount", "free"}
    BY <1>0, <1>4
  <2> QED BY <1>3, <2>1 DEF Tables, InHand
<1>11. Door'
  <2>1. ASSUME NEW p \in Procs
        PROVE  Closing(p)'
    <3>1. \A u \in Of(p) : pc'[u] = "close" <=> pc[u] = "close"
      BY <1>0, <1>3, <1>4 DEF Of
    <3> QED BY <1>3, <1>5, <3>1, SameProcess DEF Tables, Door
  <2> QED BY <2>1 DEF Door
<1> QED BY <1>6, <1>7, <1>8, <1>9, <1>11 DEF Tables

\* A process is freed when nobody is on its count, the first time and the second.
LEMMA DeleteProcessStep ==
  ASSUME Core, Tables, NEW t \in Threads, Thread_Delete_process(t)
  PROVE  Core' /\ Tables'
<1>0. /\ tr_nState[t] = "TS_RUN" /\ pc[t] = "free" /\ t \in Alive /\ TypeOK /\ Whereabouts
      /\ tr_psProcess[t] # None
  BY Basics DEF Thread_Delete_process, At, Alive, Core, Whereabouts
<1>1. PICK c \in Threads : c = psChild[t] /\ tr_nState[c] = "deleted" /\ tr_hParent[c] = t /\ c # init
  BY <1>0 DEF Tables, InHand
<1>2. PICK q \in Procs : q = tr_psProcess[c]
  BY <1>0, <1>1, InHandProcess
<1> DEFINE Freed   == {"freed", "freed twice"}
           IsFreed == process'[q] \in Freed /\ (process[q] \in Freed \/ pr_nThreadCount[q] = 0)
<1>3. /\ psChild' = [psChild EXCEPT ![t] = None]
      /\ UNCHANGED <<tr_nState, tr_nSigPend, unreported, tr_hParent, tr_psProcess, tr_psTermWaitList,
                     reaping, pr_nThreadCount, pr_nLivingThreadCount>>
  BY DEF Thread_Delete_process, thread
<1>4. PICK s \in {"wait4", "user"} :
        /\ pc' \in [Threads -> Places] /\ pc'[t] = s /\ \A u \in Threads \ {t} : pc'[u] = pc[u]
        /\ wait' \in [Threads -> (Threads \cup {-1, 0}) \X SUBSET Options]
        /\ \A u \in Threads \ {t} : wait'[u] = wait[u]
        /\ t \in reaping => s = "wait4" /\ wait'[t] = wait[t]
  <2>1. CASE t \in reaping
    <3>1. Goes(t, "wait4") /\ UNCHANGED wait
      BY <2>1 DEF Thread_Delete_process
    <3>2. pc' \in [Threads -> Places] /\ pc'[t] = "wait4" /\ \A u \in Threads \ {t} : pc'[u] = pc[u]
      BY <1>0, <3>1, GoesTo DEF Places
    <3> QED BY <1>0, <3>1, <3>2 DEF TypeOK
  <2>2. CASE t \notin reaping
    BY <1>0, <2>2, ReturnsTo DEF Thread_Delete_process
  <2> QED BY <2>1, <2>2
<1>5. /\ process' \in [Procs -> {"none", "live", "closed", "freed", "freed twice"}]
      /\ \A p \in Procs \ {q} : process'[p] = process[p]
      /\ process'[q] = process[q] \/ IsFreed
  <2>1. \/ UNCHANGED process
        \/ /\ process[q] \in {"freed", "freed twice"} /\ process' = [process EXCEPT ![q] = "freed twice"]
        \/ /\ pr_nThreadCount[q] = 0 /\ process' = [process EXCEPT ![q] = "freed"]
    BY <1>1, <1>2 DEF Thread_Delete_process
  <2> QED BY <1>0, <2>1 DEF TypeOK
<1>7. \A p \in Procs : Of(p)' = Of(p) /\ Counted(p)' = Counted(p) /\ Living(p)' = Living(p)
  <2>1. \A p \in Procs : Of(p)' = Of(p)
    BY <1>3 DEF Of
  <2>2. \A u \in Threads : /\ pc'[u] = "uncount" <=> pc[u] = "uncount"
                           /\ pc'[u] = "uncount" => psChild'[u] = psChild[u]
                           /\ pc'[u] \in {"close", "exit"} <=> pc[u] \in {"close", "exit"}
    BY <1>0, <1>3, <1>4 DEF TypeOK
  <2>3. \A p \in Procs : Counted(p)' = Counted(p)
    BY <1>3, <2>1, <2>2 DEF Counted
  <2>4. \A p \in Procs : Living(p)' = Living(p)
    BY <1>3, <2>1, <2>2 DEF Living, Of
  <2> QED BY <2>1, <2>3, <2>4
<1>8. Core'
  <2>1. Moved({t})
    BY <1>0, <1>3, <1>4 DEF Moved, TypeOK, Whereabouts, Alive, States
  <2>2. Fits(t)
    BY <1>0, <1>3, <1>4 DEF Fits, Alive, Whereabouts
  <2>3. /\ tr_hParent' \in [Threads -> Threads \cup {None}]
        /\ tr_psProcess' \in [Threads -> Procs \cup {None}]
        /\ tr_psTermWaitList' \in [Threads -> SUBSET Threads]
        /\ psChild' \in [Threads -> Threads \cup {None}]
        /\ pr_nThreadCount' \in [Procs -> Nat] /\ pr_nLivingThreadCount' \in [Procs -> Nat]
    BY <1>0, <1>3 DEF TypeOK
  <2> QED BY <1>5, <2>1, <2>2, <2>3, TableStep
<1>9. \A u \in Threads : pc'[u] \in {"spawn", "collect", "uncount", "free"} =>
        u # t /\ pc[u] = pc'[u] /\ psChild'[u] = psChild[u]
  BY <1>0, <1>3, <1>4 DEF TypeOK
<1>10. ParentsAlive'
  <2>1. Alive' = Alive /\ InTable' = InTable
    BY <1>3 DEF Alive, InTable
  <2> QED BY <1>3, <1>9, <2>1 DEF Tables, ParentsAlive
<1>11. InHand'
  <2>1. ASSUME NEW u \in Threads, pc'[u] = "spawn"
        PROVE  LET d == psChild'[u] IN
               /\ d \in Threads /\ tr_nState'[d] = "created" /\ tr_hParent'[d] = init
               /\ tr_psProcess'[d] = tr_psProcess'[u]
               /\ \A v \in Threads : pc'[v] = "spawn" /\ psChild'[v] = d => v = u
    BY <1>3, <1>9, <2>1 DEF Tables, InHand
  <2>2. ASSUME NEW u \in Threads, pc'[u] \in {"collect", "uncount", "free"}
        PROVE  LET d == psChild'[u] IN
               /\ d \in Threads \ {init} /\ tr_hParent'[d] = u
               /\ pc'[u] # "collect" => tr_nState'[d] = "deleted"
    BY <1>3, <1>9, <2>2 DEF Tables, InHand
  <2> QED BY <2>1, <2>2 DEF InHand
<1>13. CountsAgree'
  BY <1>3, <1>7 DEF Tables, CountsAgree
<1>14. ASSUME IsFreed
       PROVE  Counted(q) = {}
  <2>1. CASE process[q] \in Freed
    BY <2>1 DEF Tables, Door, Closing
  <2>2. CASE pr_nThreadCount[q] = 0
    <3>1. Cardinality(Counted(q)) = 0
      BY <2>2 DEF Tables, CountsAgree
    <3> QED BY <3>1, ProcessSets, FS_EmptySet
  <2> QED BY <1>14, <2>1, <2>2
<1>15. Door'
  <2>1. ASSUME NEW p \in Procs
        PROVE  Closing(p)'
    <3>0. Closing(p)
      BY DEF Tables, Door
    <3>1. CASE p = q /\ IsFreed
      <4>1. Counted(p) = {} /\ \A u \in Of(p) : tr_nState[u] \in {"deleted", "failed"}
        BY <1>14, <3>1 DEF Counted
      <4>2. \A u \in Of(p) : pc'[u] # "close"
        BY <1>0, <1>4, <4>1 DEF Whereabouts, Of
      <4> QED BY <1>3, <1>7, <3>1, <4>1, <4>2 DEF Closing
    <3>2. CASE process'[p] = process[p]
      <4>1. \A u \in Of(p) : pc'[u] = "close" <=> pc[u] = "close"
        BY <1>0, <1>4 DEF Of
      <4> QED BY <1>3, <1>7, <3>0, <3>2, <4>1, SameProcess
    <3> QED BY <1>5, <3>1, <3>2
  <2> QED BY <2>1 DEF Door
<1> QED BY <1>8, <1>10, <1>11, <1>13, <1>15 DEF Tables

\* The parts of the invariant hold at boot.
LEMMA InitInv ==
  ASSUME Init
  PROVE  Core /\ Tables /\ OnTheList /\ NobodyForgotten
<1>0. /\ init \in Threads /\ 1 \in Procs /\ None \notin Threads /\ None \notin Procs
      /\ init = 1 /\ None = 0
  BY Basics DEF init, None
<1>1. TypeOK
  <2>1. NoCall \in (Threads \cup {-1, 0}) \X SUBSET Options
    BY DEF NoCall, None
  <2>2. pr_nThreadCount \in [Procs -> Nat] /\ pr_nLivingThreadCount \in [Procs -> Nat]
    BY DEF Init
  <2> QED BY <1>0, <2>1, <2>2 DEF TypeOK, Init, Alive
<1>2. Whereabouts
  BY <1>0 DEF Init, Whereabouts, Alive
<1>3. ParentsAlive /\ InHand /\ OnTheList
  BY <1>0 DEF Init, ParentsAlive, InHand, OnTheList, InTable
<1>4. \A p \in Procs : /\ Of(p) = IF p = 1 THEN {init} ELSE {}
                       /\ Counted(p) = Of(p) /\ Living(p) = Of(p)
  <2>1. ASSUME NEW p \in Procs
        PROVE  Of(p) = IF p = 1 THEN {init} ELSE {}
    BY <1>0 DEF Init, Of
  <2>2. ASSUME NEW p \in Procs
        PROVE  Counted(p) = Of(p) /\ Living(p) = Of(p)
    BY <1>0 DEF Init, Of, Counted, Living
  <2> QED BY <2>1, <2>2
<1>5. CountsAgree
  <2>1. Cardinality({init}) = 1 /\ Cardinality({}) = 0
    BY FS_Singleton, FS_EmptySet
  <2> QED BY <1>4, <2>1 DEF Init, CountsAgree
<1>7. Door
  <2>1. ASSUME NEW p \in Procs
        PROVE  Closing(p)
    <3>1. process[p] = (IF p = 1 THEN "live" ELSE "none") /\ \A t \in Threads : pc[t] = "user"
      BY DEF Init
    <3>2. \A t \in Of(p) : pc[t] = "user"
      BY <3>1 DEF Of
    <3> QED BY <1>4, <3>1, <3>2 DEF Closing
  <2> QED BY <2>1 DEF Door
<1>8. NobodyForgotten
  BY DEF Init, NobodyForgotten
<1> QED BY <1>1, <1>2, <1>3, <1>5, <1>7, <1>8 DEF Core, Tables

-----------------------------------------------------------------------------
(* Nobody sleeps on.                                                       *)

Asleep(u) == tr_nState[u] = "TS_WAIT" /\ pc[u] \in {"wait4", "wait_for_thread"}

\* What wait4 may report.
Reportable(c) == tr_nState[c] = "TS_ZOMBIE" \/ (tr_nState[c] = "TS_STOPPED" /\ c \in unreported)

\* A step in which only thread y may go to sleep; who sleeps on is on the list it was
\* on, and the parent of whoever ends, stops or gets a new parent is awake.
Watch(y) ==
  /\ \A u \in Threads \ {y} : Asleep(u)' =>
       Asleep(u) /\ pc'[u] = pc[u] /\ wait'[u] = wait[u] /\ tr_psProcess'[u] = tr_psProcess[u]
  /\ \A c \in Threads : Reportable(c)' =>
       \/ /\ tr_nState'[c] = tr_nState[c] /\ tr_hParent'[c] = tr_hParent[c]
          /\ tr_psProcess'[c] = tr_psProcess[c] /\ Reportable(c)
       \/ tr_nState'[tr_hParent'[c]] # "TS_WAIT"
  /\ \A u \in Threads \ {y} : \A h \in Alive :
       Asleep(u)' /\ u \in tr_psTermWaitList[h] => h \in Alive' /\ u \in tr_psTermWaitList'[h]

\* What must be seen of y itself.
WatchOver(y) ==
  Asleep(y)' =>
    /\ pc'[y] = "wait4" => find_dead_child(y)' = {}
    /\ pc'[y] = "wait_for_thread" => wait'[y][1] \in Alive' /\ y \in tr_psTermWaitList'[wait'[y][1]]

\* A step that wakes the parents of the threads it changes forgets no waiter.
LEMMA WatchKeeps ==
  ASSUME Core, OnTheList, NobodyForgotten, NEW y \in Threads, Watch(y), WatchOver(y)
  PROVE  OnTheList' /\ NobodyForgotten'
<1>1. ASSUME NEW u \in Threads \ {y}, Asleep(u)', pc'[u] = "wait_for_thread"
      PROVE  wait'[u][1] \in Alive' /\ u \in tr_psTermWaitList'[wait'[u][1]]
  <2>1. Asleep(u) /\ pc[u] = "wait_for_thread" /\ wait'[u] = wait[u]
    BY <1>1 DEF Watch
  <2>2. wait[u][1] \in Alive /\ u \in tr_psTermWaitList[wait[u][1]]
    BY <2>1 DEF OnTheList, Asleep
  <2> QED BY <1>1, <2>1, <2>2 DEF Watch
<1>2. ASSUME NEW u \in Threads \ {y}, Asleep(u)', pc'[u] = "wait4"
      PROVE  find_dead_child(u)' = {}
  <2>1. Asleep(u) /\ pc[u] = "wait4" /\ wait'[u] = wait[u] /\ tr_psProcess'[u] = tr_psProcess[u]
    BY <1>2 DEF Watch
  <2>2. find_dead_child(u) = {}
    BY <2>1 DEF NobodyForgotten, Asleep
  <2> SUFFICES ASSUME NEW c \in find_dead_child(u)' PROVE FALSE
    OBVIOUS
  <2>3. /\ c \in Threads /\ c \in InTable' /\ tr_hParent'[c] = u /\ Reportable(c)'
        /\ tr_nState'[c] = "TS_STOPPED" => "WUNTRACED" \in wait'[u][2]
        /\ CASE wait'[u][1] = -1 -> TRUE
             [] wait'[u][1] = 0 -> PGroup[tr_psProcess'[c]] = PGroup[tr_psProcess'[u]]
             [] OTHER -> c = wait'[u][1]
    BY DEF find_dead_child, Wanted, Children, InTable, Reportable
  <2>4. tr_nState'[u] = "TS_WAIT"
    BY <1>2 DEF Asleep
  <2>5. /\ tr_nState'[c] = tr_nState[c] /\ tr_hParent'[c] = tr_hParent[c]
        /\ tr_psProcess'[c] = tr_psProcess[c] /\ Reportable(c)
    BY <2>3, <2>4 DEF Watch
  <2>6. c \in Children(u)
    BY <2>3, <2>5 DEF Children, InTable
  <2>7. c \in Wanted(u, wait[u][1])
    BY <2>1, <2>3, <2>5, <2>6 DEF Wanted
  <2>8. c \in find_dead_child(u)
    BY <2>1, <2>3, <2>5, <2>7 DEF find_dead_child, Reportable
  <2> QED BY <2>2, <2>8
<1>3. OnTheList'
  BY <1>1 DEF OnTheList, WatchOver, Asleep
<1>4. NobodyForgotten'
  BY <1>1, <1>2 DEF NobodyForgotten, WatchOver, Asleep
<1> QED BY <1>3, <1>4

\* A step that only wakes.
LEMMA WakingStep ==
  ASSUME Core, NEW t \in Threads, tr_nState[t] = "TS_RUN", Wakes(tr_nState'),
         \A u \in Threads \ {t} : pc'[u] = pc[u] /\ wait'[u] = wait[u],
         UNCHANGED <<tr_hParent, tr_psProcess>>, unreported' \subseteq unreported \cup {t},
         \A u \in Threads \ {t} : \A h \in Alive : u \in tr_psTermWaitList[h] => u \in tr_psTermWaitList'[h]
  PROVE  Watch(t) /\ WatchOver(t)
<1>1. tr_nState'[t] = "TS_RUN" /\ ~Asleep(t)'
  BY DEF Wakes, Asleep
<1>2. \A u \in Threads \ {t} : Asleep(u)' =>
        Asleep(u) /\ pc'[u] = pc[u] /\ wait'[u] = wait[u] /\ tr_psProcess'[u] = tr_psProcess[u]
  BY DEF Wakes, Asleep
<1>3. \A c \in Threads : Reportable(c)' => tr_nState'[c] = tr_nState[c] /\ Reportable(c)
  BY <1>1 DEF Wakes, Reportable
<1>4. \A h \in Alive : h \in Alive'
  BY DEF Wakes, Alive
<1> QED BY <1>1, <1>2, <1>3, <1>4 DEF Watch, WatchOver

\* send_signal( SIGCHLD ) wakes the thread if it sleeps, even one that blocks it.
LEMMA Notice ==
  ASSUME NEW K, NEW W, NEW n \in K \cap Threads
  PROVE  Runs(Woken(K, "SIGCHLD") \cup W)[n] # "TS_WAIT"
<1>1. "SIGCHLD" \in Unmasked(n, tr_nSigPend[n] \cup {"SIGCHLD"})
  BY DEF Unmasked, tr_nSigBlock
<1>2. tr_nState[n] = "TS_WAIT" => n \in Woken(K, "SIGCHLD")
  BY <1>1 DEF Woken
<1> QED BY <1>2 DEF Runs

\* The steps that change no table keep watch.
LEMMA QuietWatch ==
  ASSUME Core, Tables, NEW t \in Threads, QuietStep(t)
  PROVE  Watch(t) /\ WatchOver(t)
<1>0. TypeOK
  BY DEF Core
<1>1. ASSUME NEW h \in Threads, NEW n \in Signals, sys_kill(t, h, n)
      PROVE  Watch(t) /\ WatchOver(t)
  <2>1. Wakes(tr_nState')
    BY <1>0, <1>1, WokenWakes DEF sys_kill
  <2> QED BY <1>1, <2>1, WakingStep DEF sys_kill, At, thread, call
<1>2. CASE handle_signals(t)
  <2>1. Wakes(tr_nState') /\ tr_nState[t] = "TS_RUN"
    BY <1>0, <1>2 DEF handle_signals, At, Wakes, TypeOK, States
  <2>2. /\ pc' = pc \/ \E p \in Places : pc' = [pc EXCEPT ![t] = p]
        /\ wait' = wait \/ wait' = [wait EXCEPT ![t] = <<-1, {"WNOHANG"}>>]
        /\ unreported' \subseteq unreported \cup {t}
    BY <1>2 DEF handle_signals, Goes, Places
  <2>4. \A u \in Threads \ {t} : pc'[u] = pc[u] /\ wait'[u] = wait[u]
    BY <1>0, <2>2 DEF TypeOK
  <2>3. UNCHANGED <<tr_hParent, tr_psProcess, tr_psTermWaitList>>
    BY <1>2 DEF handle_signals, thread
  <2> QED BY <2>1, <2>2, <2>3, <2>4, WakingStep
<1>3. CASE stop_thread(t)
  <2> DEFINE f == Runs(Woken({tr_hParent[t]}, "SIGCHLD"))
  <2>0. /\ tr_nState[t] = "TS_RUN" /\ pc[t] = "stop" /\ t # init
        /\ UNCHANGED <<tr_hParent, tr_psProcess, tr_psTermWaitList, unreported, wait>>
        /\ \A u \in Threads \ {t} : pc'[u] = pc[u]
    BY <1>0, <1>3 DEF stop_thread, At, thread, call, Goes, TypeOK, Core, Whereabouts
  <2>1. Wakes(f) /\ tr_nState' = [f EXCEPT ![t] = "TS_STOPPED"]
    BY <1>0, <1>3, WokenWakes DEF stop_thread
  <2>2. tr_hParent[t] \in Threads
    BY <2>0 DEF Tables, ParentsAlive, InTable, Alive
  <2>3. f[tr_hParent[t]] # "TS_WAIT"
    <3>1. Runs(Woken({tr_hParent[t]}, "SIGCHLD") \cup {})[tr_hParent[t]] # "TS_WAIT"
      BY <2>2, Notice
    <3>2. Woken({tr_hParent[t]}, "SIGCHLD") \cup {} = Woken({tr_hParent[t]}, "SIGCHLD")
      OBVIOUS
    <3> QED BY <3>1, <3>2
  <2> HIDE DEF f
  <2>4. /\ tr_nState'[t] = "TS_STOPPED"
        /\ \A u \in Threads \ {t} : \/ tr_nState'[u] = tr_nState[u]
                                    \/ tr_nState[u] \in {"TS_WAIT", "TS_STOPPED"} /\ tr_nState'[u] = "TS_RUN"
        /\ tr_nState'[tr_hParent[t]] # "TS_WAIT"
    BY <2>1, <2>2, <2>3 DEF Wakes
  <2>5. \A u \in Threads : Asleep(u)' => u # t /\ Asleep(u) /\ pc'[u] = pc[u]
    BY <2>0, <2>4 DEF Asleep
  <2>6. \A c \in Threads \ {t} : Reportable(c)' => tr_nState'[c] = tr_nState[c] /\ Reportable(c)
    BY <2>0, <2>4 DEF Reportable
  <2>7. \A h \in Alive : h \in Alive'
    BY <2>0, <2>4 DEF Alive
  <2> QED BY <2>0, <2>4, <2>5, <2>6, <2>7 DEF Watch, WatchOver
<1>4. CASE sys_exit_thread(t)
  <2>1. Wakes(tr_nState')
    BY <1>0, <1>4 DEF sys_exit_thread, Wakes, TypeOK, States
  <2> QED BY <1>0, <1>4, <2>1, WakingStep DEF sys_exit_thread, At, Goes, thread, call, TypeOK
<1>5. CASE sys_exit(t)
  <2>1. Wakes(tr_nState')
    BY <1>0, <1>5, WokenWakes DEF sys_exit
  <2> QED BY <1>0, <1>5, <2>1, WakingStep DEF sys_exit, At, Goes, thread, call, TypeOK
<1>6. ASSUME NEW h \in Threads, sys_resume_thread(t, h)
      PROVE  Watch(t) /\ WatchOver(t)
  <2>1. Wakes(tr_nState')
    BY <1>0, <1>6, RunsWakes DEF sys_resume_thread
  <2> QED BY <1>6, <2>1, WakingStep DEF sys_resume_thread, At, thread, call
<1>7. ASSUME NEW h \in Threads, sys_wait_for_thread(t, h)
      PROVE  Watch(t) /\ WatchOver(t)
  <2>0. /\ tr_nState[t] = "TS_RUN" /\ h \in Alive /\ UNCHANGED <<tr_hParent, tr_psProcess, unreported>>
        /\ tr_nState'[t] = "TS_WAIT" /\ \A u \in Threads \ {t} : tr_nState'[u] = tr_nState[u]
        /\ \A u \in Threads \ {t} : pc'[u] = pc[u] /\ wait'[u] = wait[u]
        /\ pc'[t] = "wait_for_thread" /\ wait'[t] = <<h, {}>>
        /\ t \in tr_psTermWaitList'[h]
        /\ \A g \in Threads : tr_psTermWaitList[g] \subseteq tr_psTermWaitList'[g]
    BY <1>0, <1>7 DEF sys_wait_for_thread, At, Goes, TypeOK
  <2>1. Alive' = Alive
    BY <2>0 DEF Alive
  <2>2. WatchOver(t)
    BY <2>0, <2>1 DEF WatchOver
  <2>3. \A u \in Threads \ {t} : Asleep(u)' => Asleep(u)
    BY <2>0 DEF Asleep
  <2>4. \A c \in Threads : Reportable(c)' => tr_nState'[c] = tr_nState[c] /\ Reportable(c)
    BY <2>0 DEF Reportable
  <2>5. \A g \in Alive : g \in Threads
    BY DEF Alive
  <2> QED BY <2>0, <2>1, <2>2, <2>3, <2>4, <2>5 DEF Watch
<1>8. ASSUME NEW h \in Threads \cup {-1, 0}, NEW o \in SUBSET Options, sys_wait4(t, h, o)
      PROVE  Watch(t) /\ WatchOver(t)
  <2>1. Wakes(tr_nState')
    BY <1>0, <1>8 DEF sys_wait4, Wakes, TypeOK, States
  <2> QED BY <1>0, <1>8, <2>1, WakingStep DEF sys_wait4, At, Goes, thread, TypeOK
<1>9. CASE sys_wait4_turn(t)
  <2>0. tr_nState[t] = "TS_RUN" /\ pc[t] = "wait4" /\ UNCHANGED <<tr_hParent, tr_psProcess, tr_psTermWaitList>>
    BY <1>9, TurnCases DEF thread, At
  <2>1. CASE Reports(t) \/ GivesUp(t)
    <3>1. Wakes(tr_nState') /\ unreported' \subseteq unreported
      BY <1>0, <2>1 DEF Reports, GivesUp, Wakes, TypeOK, States
    <3>2. \A u \in Threads \ {t} : pc'[u] = pc[u] /\ wait'[u] = wait[u]
      BY <1>0, <2>1 DEF Reports, GivesUp, Returns, Goes, TypeOK
    <3> QED BY <2>0, <3>1, <3>2, WakingStep
  <2>2. CASE Collects(t)
    <3>1. Wakes(tr_nState') /\ UNCHANGED <<unreported, wait>>
      BY <1>0, <2>2, RunsWakes DEF Collects
    <3>2. \A u \in Threads \ {t} : pc'[u] = pc[u]
      BY <1>0, <2>2 DEF Collects, Goes, TypeOK
    <3> QED BY <2>0, <3>1, <3>2, WakingStep
  <2>3. CASE Sleeps(t)
    <3>1. /\ UNCHANGED <<pc, unreported, wait>> /\ find_dead_child(t) = {}
          /\ tr_nState'[t] = "TS_WAIT" /\ \A u \in Threads \ {t} : tr_nState'[u] = tr_nState[u]
      BY <1>0, <2>3 DEF Sleeps, TypeOK
    <3>2. Alive' = Alive
      BY <2>0, <3>1 DEF Alive
    <3>3. \A u \in Threads \ {t} : Asleep(u)' => Asleep(u)
      BY <3>1 DEF Asleep
    <3>4. \A c \in Threads : Reportable(c)' => tr_nState'[c] = tr_nState[c] /\ Reportable(c)
      BY <3>1 DEF Reportable
    <3>5. Watch(t)
      BY <2>0, <3>1, <3>2, <3>3, <3>4 DEF Watch
    <3>6. find_dead_child(t)' = {}
      <4> SUFFICES ASSUME NEW c \in find_dead_child(t)' PROVE FALSE
        OBVIOUS
      <4>1. /\ c \in Threads /\ c \in InTable' /\ tr_hParent'[c] = t /\ Reportable(c)'
            /\ tr_nState'[c] = "TS_STOPPED" => "WUNTRACED" \in wait'[t][2]
            /\ CASE wait'[t][1] = -1 -> TRUE
                 [] wait'[t][1] = 0 -> PGroup[tr_psProcess'[c]] = PGroup[tr_psProcess'[t]]
                 [] OTHER -> c = wait'[t][1]
        BY DEF find_dead_child, Wanted, Children, InTable, Reportable
      <4>2. tr_nState'[c] = tr_nState[c] /\ Reportable(c)
        BY <3>4, <4>1
      <4>3. c \in Children(t)
        BY <2>0, <4>1, <4>2 DEF Children, InTable
      <4>4. c \in Wanted(t, wait[t][1])
        BY <2>0, <3>1, <4>1, <4>3 DEF Wanted
      <4>5. c \in find_dead_child(t)
        BY <3>1, <4>1, <4>2, <4>4 DEF find_dead_child, Reportable
      <4> QED BY <3>1, <4>5
    <3> QED BY <2>0, <3>1, <3>5, <3>6 DEF WatchOver
  <2> QED BY <1>9, <2>1, <2>2, <2>3, TurnCases
<1>10. CASE sys_wait_for_thread_resume(t)
  <2>1. Wakes(tr_nState')
    BY <1>0, <1>10 DEF sys_wait_for_thread_resume, Wakes, TypeOK, States
  <2>2. /\ \A u \in Threads \ {t} : pc'[u] = pc[u] /\ wait'[u] = wait[u]
        /\ \A g \in Threads : tr_psTermWaitList[g] \ {t} \subseteq tr_psTermWaitList'[g]
    BY <1>0, <1>10 DEF sys_wait_for_thread_resume, Returns, Goes, TypeOK
  <2>3. \A g \in Alive : g \in Threads
    BY DEF Alive
  <2> QED BY <1>10, <2>1, <2>2, <2>3, WakingStep DEF sys_wait_for_thread_resume, At
<1> QED BY <1>1, <1>2, <1>3, <1>4, <1>5, <1>6, <1>7, <1>8, <1>9, <1>10 DEF QuietStep

\* What t may do that changes the tables or the counters.
TableAct(t) ==
  \/ \E c \in Threads : sys_spawn_thread(t, c) \/ \E p \in Procs : sys_Fork(t, c, p)
  \/ spawn_thread_insert(t) \/ do_exit(t) \/ do_exit_close(t) \/ do_exit_zombie(t)
  \/ Thread_Delete(t) \/ Thread_Delete_count(t) \/ Thread_Delete_process(t)

\* A thread that a step puts into the table, or out of it, does not sleep in a call.
LEMMA EnteringStep ==
  ASSUME Core, NEW t \in Threads, tr_nState[t] = "TS_RUN", NEW c \in Threads,
         tr_nState[c] \notin {"TS_RUN", "TS_WAIT", "TS_STOPPED"},
         NEW s \in States \ {"TS_STOPPED", "TS_ZOMBIE"}, tr_nState' = [tr_nState EXCEPT ![c] = s],
         pc'[c] \notin {"wait4", "wait_for_thread"},
         \A u \in Threads \ {t} : pc'[u] = pc[u],
         \A u \in Threads \ {c} : tr_psProcess'[u] = tr_psProcess[u] /\ tr_hParent'[u] = tr_hParent[u],
         UNCHANGED <<unreported, wait>>,
         \A h \in Alive : tr_psTermWaitList'[h] = tr_psTermWaitList[h]
  PROVE  Watch(t) /\ WatchOver(t)
<1>0. tr_nState'[c] = s /\ \A u \in Threads \ {c} : tr_nState'[u] = tr_nState[u]
  BY DEF Core, TypeOK
<1>1. c # t /\ ~Asleep(t)' /\ ~Asleep(c)' /\ ~Reportable(c)'
  BY <1>0 DEF Asleep, Reportable
<1>2. \A u \in Threads : Asleep(u)' => u # c /\ u # t /\ Asleep(u)
  BY <1>0, <1>1 DEF Asleep
<1>3. \A u \in Threads : Reportable(u)' => u # c /\ Reportable(u) /\ tr_nState'[u] = tr_nState[u]
  BY <1>0, <1>1 DEF Reportable
<1>4. \A h \in Alive : h \in Alive'
  BY <1>0 DEF Alive
<1> QED BY <1>1, <1>2, <1>3, <1>4 DEF Watch, WatchOver

\* So do those that change one.
LEMMA TableWatch ==
  ASSUME Core, Tables, NEW t \in Threads, TableAct(t)
  PROVE  Watch(t) /\ WatchOver(t)
<1>0. TypeOK
  BY DEF Core
<1>1. ASSUME NEW c \in Threads, NEW q \in Procs, sys_Fork(t, c, q)
      PROVE  Watch(t) /\ WatchOver(t)
  <2>1. tr_nState[t] = "TS_RUN" /\ IsNext(c, tr_nState)
    BY <1>1 DEF sys_Fork, At
  <2>2. tr_nState[c] = "none" /\ pc[c] = "user"
    BY <2>1, Fresh
  <2>3. /\ tr_nState' = [tr_nState EXCEPT ![c] = "TS_RUN"] /\ UNCHANGED <<pc, unreported, wait, tr_psTermWaitList>>
        /\ \A u \in Threads \ {c} : tr_psProcess'[u] = tr_psProcess[u] /\ tr_hParent'[u] = tr_hParent[u]
    BY <1>0, <1>1 DEF sys_Fork, call, TypeOK
  <2>4. "TS_RUN" \in States \ {"TS_STOPPED", "TS_ZOMBIE"}
    BY DEF States
  <2> QED BY <2>1, <2>2, <2>3, <2>4, EnteringStep
<1>2. ASSUME NEW c \in Threads, sys_spawn_thread(t, c)
      PROVE  Watch(t) /\ WatchOver(t)
  <2>1. tr_nState[t] = "TS_RUN" /\ IsNext(c, tr_nState)
    BY <1>2 DEF sys_spawn_thread, At
  <2>2. tr_nState[c] = "none" /\ pc[c] = "user" /\ c # t
    BY <2>1, Fresh
  <2>3. /\ tr_nState' = [tr_nState EXCEPT ![c] = "created"] /\ UNCHANGED <<unreported, wait, tr_psTermWaitList>>
        /\ \A u \in Threads \ {c} : tr_psProcess'[u] = tr_psProcess[u] /\ tr_hParent'[u] = tr_hParent[u]
        /\ \A u \in Threads \ {t} : pc'[u] = pc[u]
    BY <1>0, <1>2 DEF sys_spawn_thread, Goes, TypeOK
  <2>4. "created" \in States \ {"TS_STOPPED", "TS_ZOMBIE"}
    BY DEF States
  <2> QED BY <2>1, <2>2, <2>3, <2>4, EnteringStep
<1>3. CASE spawn_thread_insert(t)
  <2>1. tr_nState[t] = "TS_RUN" /\ pc[t] = "spawn"
    BY <1>3 DEF spawn_thread_insert, At
  <2>2. PICK c \in Threads : c = psChild[t] /\ tr_nState[c] = "created"
    BY <2>1 DEF Tables, InHand
  <2>3. pc[c] = "user" /\ c # t
    BY <1>0, <2>1, <2>2 DEF Core, Whereabouts, TypeOK
  <2>4. PICK s \in {"TS_WAIT", "failed"} : tr_nState' = [tr_nState EXCEPT ![c] = s]
    BY <1>3, <2>2 DEF spawn_thread_insert
  <2>5. /\ UNCHANGED <<unreported, wait, tr_hParent, tr_psProcess, tr_psTermWaitList>>
        /\ \A u \in Threads \ {t} : pc'[u] = pc[u]
    BY <1>0, <1>3 DEF spawn_thread_insert, Goes, TypeOK, thread
  <2>6. s \in States \ {"TS_STOPPED", "TS_ZOMBIE"}
    BY DEF States
  <2> QED BY <2>1, <2>2, <2>3, <2>4, <2>5, <2>6, EnteringStep
<1>4. CASE do_exit(t)
  <2>1. Wakes(tr_nState')
    BY <1>0, <1>4 DEF do_exit, Wakes, TypeOK, States
  <2>2. \A u \in Threads \ {t} : pc'[u] = pc[u]
    BY <1>0, <1>4 DEF do_exit, Goes, TypeOK
  <2> QED BY <1>4, <2>1, <2>2, WakingStep DEF do_exit, At, thread, call
<1>5. CASE do_exit_close(t)
  <2>1. Wakes(tr_nState')
    BY <1>0, <1>5 DEF do_exit_close, Wakes, TypeOK, States
  <2>2. \A u \in Threads \ {t} : pc'[u] = pc[u]
    BY <1>0, <1>5 DEF do_exit_close, Goes, TypeOK
  <2> QED BY <1>5, <2>1, <2>2, WakingStep DEF do_exit_close, At, thread, call
<1>6. CASE do_exit_zombie(t)
  <2>0. /\ tr_nState[t] = "TS_RUN" /\ pc[t] = "exit" /\ t # init /\ HandOver(t)
        /\ UNCHANGED <<unreported, tr_psProcess, tr_psTermWaitList, wait>>
        /\ pc'[t] = "gone" /\ \A u \in Threads \ {t} : pc'[u] = pc[u]
    BY <1>0, <1>6 DEF do_exit_zombie, At, call, Goes, TypeOK, Core, Whereabouts
  <2> DEFINE W == {u \in tr_psTermWaitList[t] : tr_nState[u] = "TS_WAIT"}
             f == Runs(Woken(Notified(t), "SIGCHLD") \cup W)
  <2>1. tr_nState' = [f EXCEPT ![t] = "TS_ZOMBIE"]
    BY <1>6 DEF do_exit_zombie
  <2>2. Wakes(f)
    <3>1. \A u \in (Woken(Notified(t), "SIGCHLD") \cup W) \cap Threads : tr_nState[u] \in {"TS_WAIT", "TS_STOPPED"}
      BY DEF Woken
    <3> QED BY <1>0, <3>1, RunsWakes
  <2>3. \A u \in Threads : u \in tr_psTermWaitList[t] => f[u] # "TS_WAIT"
    BY DEF Runs
  <2>4. \A n \in Notified(t) \cap Threads : f[n] # "TS_WAIT"
    <3> HIDE DEF W
    <3> QED BY Notice
  <2> HIDE DEF f, W
  <2>5. /\ tr_nState'[t] = "TS_ZOMBIE"
        /\ \A u \in Threads \ {t} : \/ tr_nState'[u] = tr_nState[u]
                                    \/ tr_nState[u] \in {"TS_WAIT", "TS_STOPPED"} /\ tr_nState'[u] = "TS_RUN"
        /\ \A n \in Notified(t) \cap Threads : tr_nState'[n] # "TS_WAIT"
        /\ \A u \in Threads : u \in tr_psTermWaitList[t] => tr_nState'[u] # "TS_WAIT"
    BY <2>1, <2>2, <2>3, <2>4 DEF Wakes
  <2>6. tr_hParent[t] \in Threads /\ init \in Threads
    BY <2>0, Basics DEF Tables, ParentsAlive, InTable, Alive
  <2>7. \A c \in Threads : tr_hParent'[c] = IF c \in Children(t) THEN init ELSE tr_hParent[c]
    BY <2>0 DEF HandOver
  <2>8. \A u \in Threads : Asleep(u)' => u # t /\ Asleep(u) /\ pc'[u] = pc[u]
    BY <2>0, <2>5 DEF Asleep
  <2>9. \A c \in Threads \ {t} : Reportable(c)' => tr_nState'[c] = tr_nState[c] /\ Reportable(c)
    BY <2>0, <2>5 DEF Reportable
  <2>10. \A c \in Children(t) : tr_nState'[init] # "TS_WAIT"
    BY <2>5, <2>6 DEF Notified
  <2>11. tr_nState'[tr_hParent'[t]] # "TS_WAIT"
    BY <2>5, <2>6, <2>7, <2>10 DEF Notified
  <2>12. \A h \in Alive : h # t => h \in Alive'
    BY <2>5 DEF Alive
  <2>13. \A u \in Threads : Asleep(u)' => u \notin tr_psTermWaitList[t]
    BY <2>5 DEF Asleep
  <2>14. \A c \in Threads : Reportable(c)' =>
           \/ /\ tr_nState'[c] = tr_nState[c] /\ tr_hParent'[c] = tr_hParent[c]
              /\ tr_psProcess'[c] = tr_psProcess[c] /\ Reportable(c)
           \/ tr_nState'[tr_hParent'[c]] # "TS_WAIT"
    BY <2>0, <2>7, <2>9, <2>10, <2>11
  <2> QED BY <2>0, <2>8, <2>12, <2>13, <2>14 DEF Watch, WatchOver
<1>7. CASE Thread_Delete(t)
  <2>1. tr_nState[t] = "TS_RUN" /\ pc[t] = "collect"
    BY <1>7 DEF Thread_Delete, At
  <2>2. PICK c \in Threads : c = psChild[t] /\ tr_nState[c] = "TS_ZOMBIE"
    BY <2>1 DEF Tables, InHand, ParentsAlive
  <2>3. pc[c] = "gone" /\ c # t
    BY <1>0, <2>1, <2>2 DEF Core, Whereabouts, TypeOK
  <2>4. /\ tr_nState' = [tr_nState EXCEPT ![c] = "deleted"]
        /\ UNCHANGED <<unreported, wait, tr_hParent, tr_psProcess>>
        /\ \A h \in Threads \ {c} : tr_psTermWaitList'[h] = tr_psTermWaitList[h]
        /\ \A u \in Threads \ {t} : pc'[u] = pc[u]
    BY <1>0, <1>7, <2>2 DEF Thread_Delete, Goes, TypeOK, call
  <2>5. "deleted" \in States \ {"TS_STOPPED", "TS_ZOMBIE"}
    BY DEF States
  <2>6. \A h \in Alive : h \in Threads \ {c}
    BY <2>2 DEF Alive
  <2> QED BY <2>1, <2>2, <2>3, <2>4, <2>5, <2>6, EnteringStep
<1>8. CASE Thread_Delete_count(t)
  <2>1. Wakes(tr_nState')
    BY <1>0, <1>8 DEF Thread_Delete_count, Wakes, TypeOK, States
  <2>2. \A u \in Threads \ {t} : pc'[u] = pc[u]
    BY <1>0, <1>8 DEF Thread_Delete_count, Goes, TypeOK
  <2> QED BY <1>8, <2>1, <2>2, WakingStep DEF Thread_Delete_count, At, thread, call
<1>9. CASE Thread_Delete_process(t)
  <2>1. Wakes(tr_nState')
    BY <1>0, <1>9 DEF Thread_Delete_process, Wakes, TypeOK, States
  <2>2. \A u \in Threads \ {t} : pc'[u] = pc[u] /\ wait'[u] = wait[u]
    BY <1>0, <1>9 DEF Thread_Delete_process, Returns, Goes, TypeOK
  <2> QED BY <1>9, <2>1, <2>2, WakingStep DEF Thread_Delete_process, At, thread
<1> QED BY <1>1, <1>2, <1>3, <1>4, <1>5, <1>6, <1>7, <1>8, <1>9 DEF TableAct

\* The steps that change a table keep Core and Tables.
LEMMA TableSteps ==
  ASSUME Core, Tables, NEW t \in Threads, TableAct(t)
  PROVE  Core' /\ Tables'
BY ForkStep, SpawnStep, InsertStep, DoExitStep, CloseStep, ZombieStep, DeleteStep, DeleteCountStep,
   DeleteProcessStep DEF TableAct

-----------------------------------------------------------------------------
(* The theorems.                                                           *)

\* Every step is one of the two kinds.
LEMMA NextCases ==
  ASSUME Next
  PROVE  \E t \in Threads : QuietStep(t) \/ TableAct(t)
<1>1. CASE InitWaits
  <2>1. init \in Threads /\ -1 \in Threads \cup {-1, 0} /\ {} \in SUBSET Options
    BY Basics
  <2> QED BY <1>1, <2>1 DEF InitWaits, QuietStep
<1>2. ASSUME NEW t \in Threads, Continue(t)
      PROVE  QuietStep(t) \/ TableAct(t)
  BY <1>2 DEF Continue, QuietStep, TableAct
<1>3. ASSUME NEW t \in Threads, sys_exit_thread(t) \/ sys_exit(t)
      PROVE  QuietStep(t)
  BY <1>3 DEF QuietStep
<1>4. ASSUME NEW t \in Threads, NEW c \in Threads, sys_spawn_thread(t, c) \/ \E p \in Procs : sys_Fork(t, c, p)
      PROVE  TableAct(t)
  BY <1>4 DEF TableAct
<1>5. ASSUME NEW t \in Threads, NEW h \in Threads,
             \/ sys_resume_thread(t, h) \/ sys_wait_for_thread(t, h)
             \/ \E n \in Sent : sys_kill(t, h, n)
      PROVE  QuietStep(t)
  BY <1>5, ThreadLifeTypes DEF QuietStep
<1>6. ASSUME NEW t \in Threads, NEW a \in WaitArgs, sys_wait4(t, a[1], a[2])
      PROVE  QuietStep(t)
  <2>1. a[1] \in Threads \cup {-1, 0} /\ a[2] \in SUBSET Options
    BY ThreadLifeTypes
  <2> QED BY <1>6, <2>1 DEF QuietStep
<1> QED BY <1>1, <1>2, <1>3, <1>4, <1>5, <1>6 DEF Next

\* Everything that is kept.
Kept == Core /\ Tables /\ OnTheList /\ NobodyForgotten

\* A step that changes nothing keeps everything.
LEMMA StutterKeeps ==
  ASSUME Kept, UNCHANGED vars
  PROVE  Kept'
<1>0. UNCHANGED <<Blocking, Ignoring, tr_nState, tr_nSigPend, unreported, pc, tr_hParent, tr_psProcess,
                  tr_psTermWaitList, wait, psChild, reaping, pr_nThreadCount, pr_nLivingThreadCount, process>>
  BY DEF vars, mask, thread, call, counts
<1>1. Core'
  BY <1>0 DEF Kept, Core, TypeOK, Whereabouts, Alive
<1>2. ParentsAlive' /\ InHand'
  BY <1>0 DEF Kept, Tables, ParentsAlive, InHand, Alive, InTable
<1>3. \A p \in Procs : Of(p)' = Of(p) /\ Counted(p)' = Counted(p) /\ Living(p)' = Living(p)
  BY <1>0 DEF Of, Counted, Living
<1>4. CountsAgree'
  BY <1>0, <1>3 DEF Kept, Tables, CountsAgree
<1>5. Door'
  <2>1. \A p \in Procs : Closing(p)'
    BY <1>0, <1>3, SameProcess DEF Kept, Tables, Door
  <2> QED BY <1>0, <2>1 DEF Kept, Tables, Door
<1>6. OnTheList' /\ NobodyForgotten'
  BY <1>0 DEF Kept, OnTheList, NobodyForgotten, Alive, find_dead_child, Wanted, Children, InTable
<1> QED BY <1>1, <1>2, <1>4, <1>5, <1>6 DEF Kept, Tables

\* The invariant behind the theorems below.
LEMMA KeptInv == Spec => []Kept
<1>1. Init => Kept
  BY InitInv DEF Kept
<1>2. Kept /\ [Next]_vars => Kept'
  <2> SUFFICES ASSUME Kept, [Next]_vars PROVE Kept'
    OBVIOUS
  <2>1. CASE UNCHANGED vars
    BY <2>1, StutterKeeps
  <2>2. ASSUME NEW t \in Threads, QuietStep(t) \/ TableAct(t)
        PROVE  Kept'
    <3>1. Core /\ Tables /\ OnTheList /\ NobodyForgotten
      BY DEF Kept
    <3>2. Core' /\ Tables'
      BY <2>2, <3>1, QuietCore, QuietSteps, QuietTables, TableSteps
    <3>3. Watch(t) /\ WatchOver(t)
      BY <2>2, <3>1, QuietWatch, TableWatch
    <3>4. OnTheList' /\ NobodyForgotten'
      BY <3>1, <3>3, WatchKeeps
    <3> QED BY <3>2, <3>4 DEF Kept
  <2> QED BY <2>1, <2>2, NextCases
<1> QED BY <1>1, <1>2, PTL DEF Spec

\* Whatever the threads of any number of processes do, every thread in the table has
\* a living parent that can collect it, nobody but its parent collects it, and the two
\* counters of a process count what do_exit, Thread_New and Thread_Delete mean them to.
THEOREM ThreadLifeInv == Spec => []Inv
<1>1. Kept => Inv
  BY DEF Kept, Core, Tables, Inv
<1> QED BY <1>1, KeptInv, PTL

\* sys_wait4 and sys_wait_for_thread never sleep beside what they wait for: the end or
\* the stop of a child wakes its parent even if it blocks SIGCHLD, "Hand all childs over
\* to psyko_killer" wakes init, and who waits for a thread is on its list until then.
THEOREM ThreadLifeNobodyForgotten == Spec => []NobodyForgotten
<1>1. Kept => NobodyForgotten
  BY DEF Kept
<1> QED BY <1>1, KeptInv, PTL

\* "Last out closing the door": nobody but the last thread of a process closes it, the
\* last thread does close it unless a sys_spawn_thread failed in the process, and it is
\* freed only when all its threads have been collected, by however many collectors.
THEOREM ThreadLifeOnlyLastOutCloses == Spec => []OnlyLastOutCloses
<1>1. ASSUME Kept PROVE OnlyLastOutCloses
  <2> SUFFICES ASSUME NEW p \in Procs
               PROVE  LET T == {t \in Threads : tr_psProcess[t] = p}
                          Failed == {t \in T : tr_nState[t] = "failed"}
                          Ended  == {t \in T : tr_nState[t] \in {"TS_ZOMBIE", "deleted"}}
                      IN  /\ process[p] = "live" => T \ Ended # {}
                          /\ process[p] \in {"closed", "freed", "freed twice"} =>
                               \A t \in T \ (Ended \cup Failed) : pc[t] = "exit"
                          /\ process[p] = "closed" => Failed = {}
                          /\ process[p] \in {"freed", "freed twice"} =>
                               \A t \in T \ Failed : tr_nState[t] = "deleted"
    BY DEF OnlyLastOutCloses
  <2> DEFINE T == {t \in Threads : tr_psProcess[t] = p}
             Failed == {t \in T : tr_nState[t] = "failed"}
             Ended  == {t \in T : tr_nState[t] \in {"TS_ZOMBIE", "deleted"}}
  <2>0. /\ T = Of(p) /\ Closing(p)
        /\ \A t \in T : pc[t] \in {"close", "exit"} => tr_nState[t] = "TS_RUN"
    BY <1>1 DEF Of, Kept, Tables, Door, Core, Whereabouts
  <2>1. process[p] = "live" => T \ Ended # {}
    BY <2>0 DEF Closing, Living
  <2>2. process[p] = "closed" => \A t \in T \ Ended : pc[t] = "exit"
    BY <2>0 DEF Closing, Living
  <2>3. process[p] = "closed" => Failed = {}
    BY <2>0, <2>2
  <2>4. process[p] \in {"freed", "freed twice"} => \A t \in T : tr_nState[t] \in {"deleted", "failed"}
    BY <2>0 DEF Closing, Counted
  <2> QED BY <2>1, <2>2, <2>3, <2>4
<1> QED BY <1>1, KeptInv, PTL
=============================================================================
