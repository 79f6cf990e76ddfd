-------------------------------- MODULE Fifo ---------------------------------
(***************************************************************************)
(* Pipes and fifos: kernel/kernel/vfs/fifo.c, a client of the wait queues  *)
(* of sema.c.                                                              *)
(*                                                                         *)
(* pn_hMutex is held while a call looks at the node, so each such stretch  *)
(* is one step.  unlock_and_suspend ends one; its end, where the wait node *)
(* is unlinked and a pending signal looked at, is a step of its own,       *)
(* because the mutex is only taken again afterwards.                       *)
(*                                                                         *)
(* A thread has one file on the node, opened for reading or for writing.   *)
(* Creating the node and giving it back are the business of the inode      *)
(* cache.                                                                  *)
(***************************************************************************)
EXTENDS Integers, Sequences, FiniteSets, WaitQueue

CONSTANTS
  Readers, Writers,   \* threads that open the fifo O_RDONLY and O_WRONLY
  Named,              \* has the fifo a name (pn_psHostInode # NULL)?
  PIPE_BUF,           \* size of the buffer, a power of two
  Payloads,           \* what each writer writes: sequences of bytes
  ReadLens,           \* the nLen of pi_read
  NonBlockers,        \* threads that use O_NONBLOCK
  Selectors,          \* threads that use select
  Interrupted,        \* the calls, of Calls, that signals interrupt
  MaxOpens            \* bound on the open sequence numbers

Threads == Readers \cup Writers
Calls   == {"pi_open", "pi_read", "pi_write"}
Queues  == {"pn_hReadSema", "pn_hWriteSema", "pn_hReaderQueue", "pn_hWriterQueue"}

ASSUME FifoTypes ==
  /\ IsFiniteSet(Readers) /\ IsFiniteSet(Writers) /\ Readers \cap Writers = {}
  /\ Named \in BOOLEAN
  /\ PIPE_BUF \in Nat \ {0}
  /\ \A w \in Writers : Payloads[w] \subseteq Seq(Nat)
  /\ ReadLens \subseteq Nat \ {0}
  /\ Interrupted \subseteq Calls
  /\ MaxOpens \in Nat

VARIABLES
  pn_nReaders, pn_nWriters,           \* files opened or being opened
  pn_nReadOpenSeq, pn_nWriteOpenSeq,  \* how often it was opened
  pn_nInPos, pn_nOutPos, pn_nBytesInBuffer, pn_anBuffer,
  queue,        \* the rings of the four wait queues
  tr_nState,    \* is a thread running, asleep or ready?
  tr_nSigPend,  \* threads with a pending signal
  pc,           \* the call a thread is in
  nSeq,         \* the sequence number that pi_open remembers
  nLen,         \* the length a pi_read asks for
  pBuffer,      \* what a pi_write has left to write
  nonblock,     \* threads with O_NONBLOCK in the cookie of their file
  sr_bReady,    \* select requests that were notified
  got           \* history: what the last pi_read of a thread copied out

ring   == <<pn_nInPos, pn_nOutPos, pn_nBytesInBuffer, pn_anBuffer>>
counts == <<pn_nReaders, pn_nWriters, pn_nReadOpenSeq, pn_nWriteOpenSeq>>
sched  == <<queue, tr_nState, tr_nSigPend, pc>>
vars   == <<ring, counts, sched, nSeq, nLen, pBuffer, nonblock, sr_bReady, got>>

Init ==
  /\ pn_nReaders = 0 /\ pn_nWriters = 0
  /\ pn_nReadOpenSeq = 0 /\ pn_nWriteOpenSeq = 0
  /\ pn_nInPos = 0 /\ pn_nOutPos = 0 /\ pn_nBytesInBuffer = 0
  /\ pn_anBuffer = [k \in 0..(PIPE_BUF - 1) |-> 0]
  /\ queue = [s \in Queues |-> <<>>]
  /\ tr_nState = [t \in Threads |-> "run"]
  /\ tr_nSigPend = {}
  /\ pc = [t \in Threads |-> "closed"]
  /\ nSeq = [t \in Threads |-> 0]
  /\ nLen = [t \in Readers |-> 0]
  /\ pBuffer = [t \in Writers |-> <<>>]
  /\ nonblock = {}
  /\ sr_bReady = {}
  /\ got = [t \in Readers |-> <<>>]

-----------------------------------------------------------------------------
(* Waiting and waking.                                                     *)

\* wakeup_sem: the threads of ring s it makes ready.  A woken thread stays in
\* the ring until it runs and absorbs further calls that wake the first only.
Woken(s, bAll) ==
  {t \in IF bAll THEN Members(queue[s]) ELSE IF queue[s] = <<>> THEN {} ELSE {Head(queue[s])} :
     tr_nState[t] = "asleep"}

\* The call of thread t goes on in place after waking W.
Goes(t, place, W) ==
  /\ pc' = [pc EXCEPT ![t] = place]
  /\ tr_nState' = [u \in Threads |-> IF u \in W THEN "ready" ELSE tr_nState[u]]
  /\ UNCHANGED <<queue, tr_nSigPend>>

\* It returns after waking W; signals are handled on the way to user mode, a
\* SIGPIPE that pi_write sent to its own thread too.
Returns(t, place, W) ==
  /\ pc' = [pc EXCEPT ![t] = place]
  /\ tr_nState' = [u \in Threads |-> IF u \in W THEN "ready" ELSE tr_nState[u]]
  /\ tr_nSigPend' = tr_nSigPend \ {t}
  /\ UNCHANGED queue

\* unlock_and_suspend( s, pn_hMutex ) in place, after waking W.
Sleeps(t, place, s, W) ==
  /\ pc' = [pc EXCEPT ![t] = place]
  /\ tr_nState' = [u \in Threads |-> IF u = t THEN "asleep"
                                     ELSE IF u \in W THEN "ready" ELSE tr_nState[u]]
  /\ queue' = [queue EXCEPT ![s] = add_to_waitlist(@, t)]
  /\ UNCHANGED tr_nSigPend

pi_notify_read_select  == sr_bReady' = sr_bReady \cup {t \in Readers : pc[t] = "select"}
pi_notify_write_select == sr_bReady' = sr_bReady \cup {t \in Writers : pc[t] = "select"}

-----------------------------------------------------------------------------
(* Open and close.                                                         *)

\* Side by side, what a reader and a writer look at.
Others(t)   == IF t \in Readers THEN pn_nWriters ELSE pn_nReaders
OtherSeq(t) == IF t \in Readers THEN pn_nWriteOpenSeq ELSE pn_nReadOpenSeq
OwnSeq(t)   == IF t \in Readers THEN pn_nReadOpenSeq ELSE pn_nWriteOpenSeq
OpenQueue(t)  == IF t \in Readers THEN "pn_hReaderQueue" ELSE "pn_hWriterQueue"
OtherQueue(t) == IF t \in Readers THEN "pn_hWriterQueue" ELSE "pn_hReaderQueue"

\* One more or one less file on t's side.
Attach(t) ==
  /\ IF t \in Readers THEN pn_nReaders' = pn_nReaders + 1 /\ UNCHANGED pn_nWriters
     ELSE pn_nWriters' = pn_nWriters + 1 /\ UNCHANGED pn_nReaders
Detach(t) ==
  /\ IF t \in Readers THEN pn_nReaders' = pn_nReaders - 1 /\ UNCHANGED pn_nWriters
     ELSE pn_nWriters' = pn_nWriters - 1 /\ UNCHANGED pn_nReaders

\* The loop of pi_open, which remembered seq, after waking W: wait until the
\* other side is there or has been there.
OpenLoop(t, bNonBlock, seq, W) ==
  IF ~Named \/ bNonBlock \/ Others(t) # 0 \/ OtherSeq(t) # seq
  THEN Returns(t, "open", W) /\ nSeq' = [nSeq EXCEPT ![t] = 0]
  ELSE Sleeps(t, "pi_open", OpenQueue(t), W) /\ nSeq' = [nSeq EXCEPT ![t] = seq]

\* Mutant: only the first of the threads that wait for this side is told.
OpenWakes_one(t) == Woken(OtherQueue(t), FALSE)

OpenWakes(t) == Woken(OtherQueue(t), TRUE)

pi_open(t) ==
  /\ pc[t] = "closed" /\ OwnSeq(t) < MaxOpens
  /\ \E bNonBlock \in {FALSE, (t \in NonBlockers)} :
       /\ nonblock' = IF bNonBlock THEN nonblock \cup {t} ELSE nonblock
       /\ OpenLoop(t, bNonBlock, OtherSeq(t), OpenWakes(t))
  /\ Attach(t)
  /\ pn_nReadOpenSeq'  = pn_nReadOpenSeq  + (IF t \in Readers THEN 1 ELSE 0)
  /\ pn_nWriteOpenSeq' = pn_nWriteOpenSeq + (IF t \in Writers THEN 1 ELSE 0)
  /\ UNCHANGED <<ring, nLen, pBuffer, sr_bReady, got>>

\* The loop of pi_open after the mutex was taken again.
pi_open_resume(t) ==
  /\ pc[t] = "pi_open" /\ tr_nState[t] = "run"
  /\ OpenLoop(t, FALSE, nSeq[t], {})
  /\ UNCHANGED <<ring, counts, nLen, pBuffer, nonblock, sr_bReady, got>>

\* Mutant: a file that is closed wakes its own side.
CloseWakes_own(t) == Woken(IF t \in Readers THEN "pn_hReadSema" ELSE "pn_hWriteSema", TRUE)

CloseWakes(t) == Woken(IF t \in Readers THEN "pn_hWriteSema" ELSE "pn_hReadSema", TRUE)

Reset == pn_nOutPos' = 0 /\ pn_nInPos' = 0 /\ pn_nBytesInBuffer' = 0

\* Closing wakes the whole other side.  The last reader empties the buffer.
pi_close(t) ==
  /\ pc[t] = "open"
  /\ Detach(t)
  /\ nonblock' = nonblock \ {t}
  /\ IF t \in Readers /\ pn_nReaders' = 0 THEN Reset
     ELSE UNCHANGED <<pn_nOutPos, pn_nInPos, pn_nBytesInBuffer>>
  /\ Returns(t, "closed", CloseWakes(t))
  /\ IF t \in Readers THEN pi_notify_write_select ELSE pi_notify_read_select
  /\ UNCHANGED <<pn_anBuffer, pn_nReadOpenSeq, pn_nWriteOpenSeq, nSeq, nLen, pBuffer, got>>

-----------------------------------------------------------------------------
(* Reading and writing.                                                    *)

Lesser(a, b) == IF a < b THEN a ELSE b

\* Mutant: a read wakes a writer only if the buffer was full.
ReadWakes_full == IF pn_nBytesInBuffer = PIPE_BUF THEN Woken("pn_hWriteSema", FALSE) ELSE {}

ReadWakes == Woken("pn_hWriteSema", FALSE)

\* The loop of pi_read for nLen = n, with the mutex held.
ReadLoop(t, n) ==
  /\ UNCHANGED <<counts, pn_nInPos, pn_anBuffer, nSeq, pBuffer, nonblock>>
  /\ \/ /\ pn_nBytesInBuffer > 0
        /\ LET k == Lesser(n, pn_nBytesInBuffer) IN
           /\ pn_nBytesInBuffer' = pn_nBytesInBuffer - k
           /\ got' = [got EXCEPT ![t] = [j \in 1..k |-> pn_anBuffer[(pn_nOutPos + j - 1) % PIPE_BUF]]]
           /\ pn_nOutPos' = (pn_nOutPos + k) % PIPE_BUF
        /\ pi_notify_write_select
        /\ Returns(t, "open", ReadWakes)
        /\ nLen' = [nLen EXCEPT ![t] = 0]
     \/ /\ pn_nBytesInBuffer = 0
        /\ pn_nWriters = 0 \/ t \in nonblock        \* 0 and -EWOULDBLOCK
        /\ got' = [got EXCEPT ![t] = <<>>]
        /\ Returns(t, "open", {})
        /\ nLen' = [nLen EXCEPT ![t] = 0]
        /\ UNCHANGED <<pn_nOutPos, pn_nBytesInBuffer, sr_bReady>>
     \/ /\ pn_nBytesInBuffer = 0
        /\ pn_nWriters # 0 /\ t \notin nonblock
        /\ Sleeps(t, "pi_read", "pn_hReadSema", {})
        /\ nLen' = [nLen EXCEPT ![t] = n]
        /\ UNCHANGED <<pn_nOutPos, pn_nBytesInBuffer, sr_bReady, got>>

pi_read(t) == t \in Readers /\ pc[t] = "open" /\ \E n \in ReadLens : ReadLoop(t, n)

pi_read_resume(t) == pc[t] = "pi_read" /\ tr_nState[t] = "run" /\ ReadLoop(t, nLen[t])

\* pi_write ends, whatever is left to write.
WriteReturns(t, W) == Returns(t, "open", W) /\ pBuffer' = [pBuffer EXCEPT ![t] = <<>>]

\* Mutant: pBuffer is not advanced by what was copied.
Rest_again(d, k) == SubSeq(d, 1, Len(d) - k)

\* pBuffer and nBytesToWrite after k bytes of d were copied.
Rest(d, k) == SubSeq(d, k + 1, Len(d))

\* One turn of the outer loop of pi_write with d left to write, or a wait for
\* space.  The next turn takes the mutex again.
WriteLoop(t, d) ==
  /\ UNCHANGED <<counts, pn_nOutPos, nSeq, nLen, nonblock, got>>
  /\ \/ /\ pn_nBytesInBuffer < PIPE_BUF
        /\ LET k    == Lesser(Len(d), PIPE_BUF - pn_nBytesInBuffer)
               rest == Rest(d, k)
               W    == Woken("pn_hReadSema", FALSE)
           IN  /\ pn_nBytesInBuffer' = pn_nBytesInBuffer + k
               /\ pn_anBuffer' = [p \in DOMAIN pn_anBuffer |->
                    LET j == (p - pn_nInPos) % PIPE_BUF IN IF j < k THEN d[j + 1] ELSE pn_anBuffer[p]]
               /\ pn_nInPos' = (pn_nInPos + k) % PIPE_BUF
               /\ IF rest = <<>> \/ pn_nReaders = 0 \/ t \in nonblock
                  THEN WriteReturns(t, W)
                  ELSE Goes(t, "pi_write", W) /\ pBuffer' = [pBuffer EXCEPT ![t] = rest]
        /\ pi_notify_read_select
     \/ /\ pn_nBytesInBuffer = PIPE_BUF
        /\ pn_nReaders = 0 \/ t \in nonblock        \* -EPIPE and -EWOULDBLOCK
        /\ WriteReturns(t, {})
        /\ UNCHANGED <<pn_nInPos, pn_nBytesInBuffer, pn_anBuffer, sr_bReady>>
     \/ /\ pn_nBytesInBuffer = PIPE_BUF
        /\ pn_nReaders # 0 /\ t \notin nonblock
        /\ Sleeps(t, "pi_write", "pn_hWriteSema", {})
        /\ pBuffer' = [pBuffer EXCEPT ![t] = d]
        /\ UNCHANGED <<pn_nInPos, pn_nBytesInBuffer, pn_anBuffer, sr_bReady>>

pi_write(t) == t \in Writers /\ pc[t] = "open" /\ \E d \in Payloads[t] : WriteLoop(t, d)

pi_write_resume(t) == pc[t] = "pi_write" /\ tr_nState[t] = "run" /\ WriteLoop(t, pBuffer[t])

-----------------------------------------------------------------------------
(* The end of unlock_and_suspend, and signals.                             *)

\* The node is unlinked, and a pending signal ends the call: an open gives its
\* count back but wakes nobody.  It does so without pn_hMutex, a moment after it
\* was unlinked; until then it counts, as it did while it was ready to run, and
\* no wake-up of its queue is for one thread only, so nobody sees a difference.
suspend_returns(t) ==
  /\ tr_nState[t] = "ready"
  /\ tr_nState' = [tr_nState EXCEPT ![t] = "run"]
  /\ queue' = [s \in Queues |-> IF t \in Members(queue[s]) THEN remove_from_waitlist(queue[s], t)
                                 ELSE queue[s]]
  /\ \/ /\ t \notin tr_nSigPend
        /\ UNCHANGED <<counts, tr_nSigPend, pc, nSeq, nLen, pBuffer>>
     \/ /\ t \in tr_nSigPend
        /\ tr_nSigPend' = tr_nSigPend \ {t}
        /\ pc' = [pc EXCEPT ![t] = IF @ = "pi_open" THEN "closed" ELSE "open"]
        /\ nSeq' = [nSeq EXCEPT ![t] = 0]
        /\ nLen' = [r \in Readers |-> IF r = t THEN 0 ELSE nLen[r]]
        /\ pBuffer' = [w \in Writers |-> IF w = t THEN <<>> ELSE pBuffer[w]]
        /\ IF pc[t] = "pi_open" THEN Detach(t) /\ UNCHANGED <<pn_nReadOpenSeq, pn_nWriteOpenSeq>>
           ELSE UNCHANGED counts
  /\ UNCHANGED <<ring, nonblock, sr_bReady, got>>

\* A signal wakes the sleeper, unless it came before the sleeper slept.
send_signal(t) ==
  /\ pc[t] \in Interrupted /\ tr_nState[t] \in {"asleep", "ready"}
  /\ tr_nSigPend' = tr_nSigPend \cup {t}
  /\ tr_nState' \in {tr_nState, [tr_nState EXCEPT ![t] = "ready"]}
  /\ UNCHANGED <<ring, counts, queue, pc, nSeq, nLen, pBuffer, nonblock, sr_bReady, got>>

-----------------------------------------------------------------------------
(* O_NONBLOCK and select.                                                  *)

\* FIONBIO of pi_ioctl, and pi_setflags: a file may be shared, so also while
\* its thread is inside a call.
pi_setflags(t) ==
  /\ t \in NonBlockers /\ pc[t] \notin {"closed", "pi_open"}
  /\ nonblock' = IF t \in nonblock THEN nonblock \ {t} ELSE nonblock \cup {t}
  /\ UNCHANGED <<ring, counts, sched, nSeq, nLen, pBuffer, sr_bReady, got>>

\* Is there something for t to read, or space to write to, or an end to see?
Ready(t) ==
  Others(t) = 0 \/ IF t \in Readers THEN pn_nBytesInBuffer > 0 ELSE pn_nBytesInBuffer # PIPE_BUF

\* A request for something that is there notifies all requests of its side.
pi_add_select_req(t) ==
  /\ t \in Selectors /\ pc[t] = "open"
  /\ pc' = [pc EXCEPT ![t] = "select"]
  /\ sr_bReady' = IF ~Ready(t) THEN sr_bReady
                  ELSE sr_bReady \cup {u \in Threads : /\ u = t \/ pc[u] = "select"
                                                       /\ u \in Readers <=> t \in Readers}
  /\ UNCHANGED <<ring, counts, queue, tr_nState, tr_nSigPend, nSeq, nLen, pBuffer, nonblock, got>>

\* select ends when it was notified, timed out or was interrupted.
pi_rem_select_req(t) ==
  /\ pc[t] = "select"
  /\ pc' = [pc EXCEPT ![t] = "open"]
  /\ sr_bReady' = sr_bReady \ {t}
  /\ UNCHANGED <<ring, counts, queue, tr_nState, tr_nSigPend, nSeq, nLen, pBuffer, nonblock, got>>

-----------------------------------------------------------------------------
Continue(t) ==
  \/ suspend_returns(t)
  \/ pi_open_resume(t) \/ pi_read_resume(t) \/ pi_write_resume(t)

Next ==
  \E t \in Threads :
    \/ pi_open(t) \/ pi_close(t) \/ pi_read(t) \/ pi_write(t)
    \/ Continue(t)
    \/ pi_setflags(t) \/ pi_add_select_req(t) \/ pi_rem_select_req(t)
    \/ send_signal(t)

Spec == Init /\ [][Next]_vars

\* A ready thread gets a CPU, a notified select too, and a program that is not
\* inside a call closes its file in the end.
Fairness ==
  \A t \in Threads :
    /\ WF_vars(Continue(t))
    /\ WF_vars(t \in sr_bReady /\ pi_rem_select_req(t))
    /\ SF_vars(pi_close(t))

FairSpec == Spec /\ Fairness

-----------------------------------------------------------------------------
(* Properties.                                                             *)

\* The types of PipeNode_s; the positions agree with the number of bytes, and
\* the two counts, which pi_close and an interrupted pi_open take back, with
\* the files that are open or being opened.
TypeOK ==
  /\ pn_nBytesInBuffer \in 0..PIPE_BUF
  /\ pn_nOutPos \in 0..(PIPE_BUF - 1)
  /\ pn_nInPos = (pn_nOutPos + pn_nBytesInBuffer) % PIPE_BUF
  /\ pn_anBuffer \in [0..(PIPE_BUF - 1) -> Nat]
  /\ queue \in [Queues -> Seq(Threads)] /\ \A s \in Queues : OneNodeEach(queue[s])
  /\ tr_nState \in [Threads -> {"run", "asleep", "ready"}]
  /\ \A t \in Threads : tr_nState[t] # "run" <=> \E s \in Queues : t \in Members(queue[s])
  /\ tr_nSigPend \subseteq {t \in Threads : pc[t] \in Interrupted}
  /\ pc \in [Threads -> Calls \cup {"closed", "open", "select"}]
  /\ nSeq \in [Threads -> 0..MaxOpens] /\ nLen \in [Readers -> ReadLens \cup {0}]
  /\ pBuffer \in [Writers -> Seq(Nat)]
  /\ pn_nReadOpenSeq \in 0..MaxOpens /\ pn_nWriteOpenSeq \in 0..MaxOpens
  /\ nonblock \subseteq {t \in Threads : pc[t] # "closed"}
  /\ sr_bReady \subseteq {t \in Threads : pc[t] = "select"}
  /\ pn_nReaders = Cardinality({t \in Readers : pc[t] # "closed"})
  /\ pn_nWriters = Cardinality({t \in Writers : pc[t] # "closed"})

\* The queue that the call of t waits in.
CallQueue(t) ==
  CASE pc[t] = "pi_open" -> OpenQueue(t) [] pc[t] = "pi_read" -> "pn_hReadSema"
    [] OTHER -> "pn_hWriteSema"

\* A thread has a wait node only in the queue of the call it is in, an open that
\* may wait is not O_NONBLOCK, and a call that waits still knows what it was
\* asked for.
InPlace ==
  /\ \A t \in Threads, s \in Queues :
       t \in Members(queue[s]) => pc[t] \in Calls /\ s = CallQueue(t)
  /\ \A t \in Threads : pc[t] = "pi_open" => t \notin nonblock
  /\ \A t \in Readers : pc[t] # "pi_write" /\ (pc[t] = "pi_read" => nLen[t] \in ReadLens)
  /\ \A t \in Writers : pc[t] # "pi_read" /\ IF pc[t] = "pi_write"
                                             THEN pBuffer[t] # <<>> \/ <<>> \in Payloads[t]
                                             ELSE pBuffer[t] = <<>>

\* Nobody sleeps in pi_open beside a file of the other side, not even beside
\* one that came and went before the sleeper ran: an open wakes everybody, and
\* the sequence number remembers it.
OpenRendezvous ==
  \A t \in Threads : pc[t] = "pi_open" /\ tr_nState[t] = "asleep" =>
    Others(t) = 0 /\ OtherSeq(t) = nSeq[t]

\* The counts, positions and rings agree, every sleeper is in the queue it will
\* be woken from, and no opener is left behind.
Inv == TypeOK /\ InPlace /\ OpenRendezvous

\* Nobody is forgotten.  A reader that sleeps in pi_read has a writer to wait
\* for, as the last writer's close wakes all readers; it has nothing to read if
\* it is the only reader (a write wakes one reader, which may leave bytes to
\* which nobody wakes the others); and a select that was not notified has
\* nothing to report.  An interrupted pi_open breaks the first and the last.
NotForgotten ==
  /\ \A t \in Readers : pc[t] = "pi_read" /\ tr_nState[t] = "asleep" =>
       pn_nWriters # 0 /\ (Readers = {t} => pn_nBytesInBuffer = 0)
  /\ \A t \in Threads : pc[t] = "select" /\ t \notin sr_bReady => ~Ready(t)

\* What the ring buffer holds, oldest byte first.
Contents == [j \in 1..pn_nBytesInBuffer |-> pn_anBuffer[(pn_nOutPos + j - 1) % PIPE_BUF]]

Channel == INSTANCE PipeChannel WITH channel <- Contents, left <- pBuffer

\* The ring buffer, its wrap-around, the chunks of a write and the reset of the
\* last reader's close implement a bounded first-in first-out channel.
ImplementsChannel == Channel!Spec

\* If programs close their files in the end, every read and every write
\* returns: no wake-up is lost and readers and writers do not wait for each
\* other.  It needs that a call which takes a wake-up of one thread goes on to
\* read or write: no signal interrupts pi_write, nor pi_read beside a second
\* reader.
CallEnds == \A t \in Threads : pc[t] \in {"pi_read", "pi_write"} ~> pc[t] \notin {"pi_read", "pi_write"}

=============================================================================
