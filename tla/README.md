# TLA+ models of the AtheOS kernel

AtheOS is a multi-threaded, SMP-capable operating system: a monolithic kernel
in C (`src/kernel`), a journaled file system (`src/kernel/fs/afs`), drivers, a
graphics server and its C++ library (`src/system`), and ported programs. The
modules here model the parts of the kernel on which everything else depends and
whose errors are hardest to provoke in a test:

| Part of the kernel | Source | Modules |
|---|---|---|
| Semaphores, wait queues, sleeping and waking | `kernel/kernel/sema.c`, parts of `schedule.c` and `psignals.c` | `WaitQueue`, `Semaphore`, `SemaphoreProofs`, `MCSemaphore` |
| Message ports, a client of the semaphores | `kernel/kernel/msgport.c`, with the waiting of `sema.c` | `MsgPort`, `MsgPortProofs`, `MCMsgPort` |
| The metadata journal of AFS, with the cache below it and mount, sync and unmount around it | `kernel/fs/afs/journal.c`, parts of `afs.c` and `kernel/kernel/bcache.c` | `AfsJournal`, `DurableStore`, `MCAfsJournal`, `AfsJournalProofs`, `AfsJournalStoreProofs` |
| The block cache, seen from the file systems and from the flusher | `kernel/kernel/bcache.c` | `BlockCache`, `BlockCacheProofs`, `MCBlockCache` |
| Record locks, a client of `unlock_and_suspend` | `kernel/kernel/vfs/flock.c` | `Flock`, `ByteLocks`, `FlockProofs`, `MCFlock` |
| Pipes and fifos, a client of the wait queues | `kernel/kernel/vfs/fifo.c` | `Fifo`, `PipeChannel`, `FifoProofs`, `MCFifo` |
| The life of threads and processes: fork, spawn, exit, wait, collect | `kernel/kernel/fork.c`, `threads.c`, parts of `schedule.c` and `psignals.c` | `ThreadLife`, `ThreadLifeProofs`, `MCThreadLife` |

Paths below are relative to `src/`. `PROJECT.json` maps each definition to the
lines it models and lists the runs, mutants, hazards, findings and theorems.

## 1. Inventory

### What runs concurrently

Kernel threads run on several CPUs and are preempted by the timer. Interrupt
handlers run on top of them. Three kinds of protection are used: spinlocks with
interrupts disabled, kernel semaphores, and flags that are set under one of the
two. Nothing above the scheduler is allowed to block with a spinlock held, so
every blocking operation of the kernel has the shape "look at the state under a
lock, link a node into a queue, release the lock, `Schedule()`, take the lock
again, look again". The hard questions are all about what other threads, timers
and signals do while the lock is not held.

### Components

*Semaphores* (`kernel/kernel/sema.c`). State: a table of semaphores, each with
a counter, a holder, flags and a ring of wait nodes that live on the stacks of
the blocked threads. Operations: create, delete, lock (with count, flags and
timeout), unlock, `lock_mutex`/`unlock_mutex`, `sleep_on_sem`/`wakeup_sem`,
`unlock_and_suspend`, `spinunlock_and_suspend`. Every other blocking kernel
component is a client. Correct when: a mutex admits one thread; a wake-up is
never lost; a returned call leaves no node behind; a timeout, a signal and a
deletion end the wait with the right result.

*Scheduler* (`schedule.c`). State: run state per thread, ready list, sleep list
ordered by resume time, wait rings. Operations: `Schedule`, `add_to_waitlist`,
`wake_up_queue`, `add_to_sleeplist`, `wake_up_sleepers` (timer interrupt).
Shares `g_sSchedSpinLock` with the semaphores: `g_sSemListSpinLock` is a macro
for it.

*Signals* (`psignals.c`). State: pending and blocked sets, handlers. Makes
blocked threads ready and interrupts their calls.

*Threads and processes* (`threads.c`, `process.c`, `fork.c`, `exec.c`,
`pgroup.c`, with `sys_wait4` in `schedule.c`). State: thread and process tables,
parents, exit codes, zombies, two counters of threads per process. Operations:
`sys_Fork`, `sys_spawn_thread`, `sys_exit`, `sys_exit_thread`, `sys_wait4`,
`sys_wait_for_thread`, `sys_resume_thread`, stopping. Hard: an exit racing a wait,
a parent that dies first, counters that are changed without the lock. Correct when:
whoever waits is woken, every zombie has a parent that can collect it, and the last
thread, and no other, closes the process.

*Timers* (`timer.c`): ordered list of timers, interrupt-driven callbacks,
alarms.

*Message ports* (`msgport.c`). State: a table of ports, each with a list of
messages and a counting semaphore that is meant to count them; the ports of each
process in a list. `send_msg_x`, `get_msg_x` with timeout, create, delete,
cleanup at exit. Hard: a reader waits on the semaphore without the lock that
protects the list. Correct when: no message is left that nobody will be led to,
a reader of a deleted port returns, and no port outlives its process.

*Virtual memory* (`areas.c`, `memory.c`, `pagefault.c`, `swap.c`, `mman.c`,
allocators): areas, copy-on-write page counts, swap map.

*Block cache* (`bcache.c`). State: a hash of blocks, a list of unlocked blocks
in order of use and one of locked blocks, a dirty and a busy flag and a
reference count per block, callbacks of logged blocks. Operations:
`get_cache_block`, `get_empty_block`, `mark_blocks_dirty`,
`release_cache_block`, `cached_read`, `cached_write`, `write_logged_blocks`,
`flush_cache_block`, `flush_device_cache`, `release_cache_blocks` when memory is
short, and the flusher thread. Hard: the lock is not held during I/O, the busy
flag is what is left. Correct when: a block keeps what was last written to it
through flushing, eviction and read-ahead; a callback comes in the end; nobody waits for ever for a busy block.

*AFS journal* (`fs/afs/journal.c`). State: list of transactions, their buffers,
a hash table of blocks, counters of log blocks, the superblock's valid range.
Hard: a crash at any step, a ring that wraps, a cache that flushes on its own.

*AFS proper* (`afs.c`, `balloc.c`, `btree.c`, `bt_delete.c`, `stream.c`,
`attribs.c`, `index.c`): directories and indexes as b+trees, block allocation,
file streams; all of it a client of the journal.

*Record locks* (`kernel/kernel/vfs/flock.c`). State: a list of locked ranges
per file, sorted by owner and range, with the records of the threads that wait
for each lock. Operations: `F_SETLK`, `F_SETLKW`, `F_UNLCK`, cleanup when a
thread is collected. Hard: locks are split, joined and shortened while threads
wait for them; deadlock is looked for only when a thread goes to sleep. Correct
when: a byte has many readers or one writer, no call touches a byte outside its
range, no circle of waiters forms, and every waiter gets on.

*Fifos and pipes* (`kernel/kernel/vfs/fifo.c`). State: a ring buffer, counts of
readers and writers, open sequence numbers, four wait queues and two select
lists. Operations: open, close, read, write, `O_NONBLOCK`, select. Correct when:
bytes come out once and in order, an open meets the other side, and nobody
sleeps who could go on.

*VFS* (`kernel/kernel/vfs`): inode cache with reference counts, path lookup,
ptys, node monitors.

*Network* (`kernel/kernel/net`): packet queues, interfaces, routes, ARP cache
with retry timers, UDP ports, a TCP with its own timer thread.

*SMP, interrupts, boot, ELF loader, debugger*; *other file systems* (FAT, NFS,
RAM disk); *drivers*; *application server and libatheos*; *utilities*;
*third-party code* (Qt and KHTML under `abrowse`, FreeType under the application
server).

### Interaction

Files, fifos, sockets, message ports and the block cache call into the
semaphores to wait. The semaphores call the scheduler's queue functions. The
timer interrupt and `send_signal` make waiting threads ready from outside. AFS
operations bracket their metadata writes with journal transactions; the journal
hands finished transactions to the block cache together with a callback, and
the cache calls back when a block is in place.

## 2. Semaphores

### The model

All code in `sema.c` and the queue functions of `schedule.c` run under one
spinlock, so one action of `Semaphore` is one stretch between taking and
releasing it. A call that blocks is an action that ends with the thread in
`TS_WAIT` or `TS_SLEEP` and a `..._resume` action that starts when it is
dispatched. The loop of `do_lock_semaphore_ex` may go around any number of
times: `lock_semaphore_resume` either returns or blocks again.

| Code | Model |
|---|---|
| `ss_lNestCount`, `ss_hHolder`, `ss_psWaitQueue` | variables of the same names; a ring is a sequence, head first |
| the array behind `get_semaphore_by_handle` | `table`: free, live, unlinked (first half of delete done), freed |
| `tr_nState`, `tr_nSigPend` | variables of the same names |
| node in `g_psFirstSleeping` | `sleepers`, with `deadline` ahead of, at or past the clock |
| program counter and locals | `pc`, `arg` |
| `do_lock_semaphore_ex` | `lock_semaphore_ex`, `lock_semaphore_resume`, both through `TryLock` |
| `lock_mutex`, `unlock_mutex` | the same names, `lock_mutex_resume` |
| `do_unlock_semaphore_ex` | `unlock_semaphore_ex` through `Release` |
| `sleep_on_sem`, `wakeup_sem`, `spinunlock_and_suspend` | the same names and `_resume` |
| `unlock_and_suspend` | three actions: enter the ring, unlock, resume; the code releases the spinlock between the first two |
| `do_delete_semaphore` | two actions, `delete_semaphore` and `delete_wakes`: the code releases the spinlock between them |
| `wake_up_sleepers`, `send_signal`, `handle_signals` | the same names |

`held`, `stale`, `faults` and `cause` are history variables: how often a thread is
inside a mutex, which nodes outlived their call, whether a walk met one of them, and
what made a thread ready. Guards read them in two places: a thread unlocks only what
it holds, and whom `delete_wakes` and `wakeup_sem` wake beyond a dead node is open.

Memory that is gone is modelled only as far as wait nodes go. `lock_mutex` does not
test the handle it is called with, and reads through a null pointer if it is not valid
(`sema.c:1053-1055`); the model returns `EINVAL`. `unlock_and_suspend` uses the pointer it
fetched before `Schedule()`; its writes into a freed wait queue (`sema.c:1456`) are left out.

A handle is a mutex, a counting semaphore or a wait queue. The documentation of
`create_semaphore` says the uses must not be mixed, and the clients in the
repository keep to it. `Calls` selects which functions the clients of a run use.

### The runs

| Run | Instance | Checks |
|---|---|---|
| `sem_mutex` | 3 threads, one recursive mutex, both lock interfaces, timeouts, signals | `MutualExclusion`, `NoLostWakeup`, `SleepListMatchesCallers`, `LockResultIsTrue` |
| `sem_live` | 2 threads, a mutex and a wait queue, every blocking call and deletion, with timeouts and signals, under fairness (193099 states) | the inductive invariant `Inv`, `DeleteWakesAll`, `TimedWaitEnds`, `HandOff`, `DeletedWaitEnds` |
| `sem_counter` | two consumers and one producer of a counting semaphore | `CounterNoLostWakeup`, which TLC finds violated |

Three threads are the smallest number at which one can hold, one can be woken
and one can overtake; two are enough where the hazard is between a call and the
timer or a deletion. A depth or count of 1 to 3 (`MaxCount`) reaches recursion,
the zero crossing of the counter and a second post before the first is used.
A deadline has three positions because the code compares with `>` in one place
and `>=` in another. Thread symmetry is used in the runs that check safety.

In `sem_live` a caller may leave by a timeout, a signal or a wake-up between the two
halves of `do_delete_semaphore`. Its node is then dead memory in the ring that is about
to be walked. `DeleteWakesAll` and `DeletedWaitEnds` promise nothing after a walk that met
such a node (`"dangling_node" \in faults`), and hold in every other order of the two
halves and the callers' returns. They are false without the exemption, with a third
thread that waits behind the dead node: see the table below.

Deadlock checking is off: clients of a mutex may lock
it twice without recursion, or sleep on a queue that nobody wakes, and that is
the client's error and not the kernel's.

Fairness: the scheduler eventually runs every ready thread (round robin within
a priority) and the timer interrupt keeps coming, so a dispatched call proceeds
(`Continue`, `LeaveCall`), the clock moves (`TimePasses`) and `wake_up_sleepers`
runs. No client is assumed to make any call: `HandOff` does not assume that the
holder of a mutex releases it.

### What disagrees with the documentation

One run is kept as a counterexample: `sem_counter`. Two posts in a row wake only the
first of two waiters, because `wake_up_queue` passes over a head that is already
ready. The second sleeps although the counter is positive (`sema.c:1313`), against
the documentation of `create_semaphore` (`sema.c:295-296`).

The others are found by TLC within seconds on the instance named (two or three threads,
one handle of each kind in use, infinite timeouts unless said otherwise); their properties
are in the module, the runs are not kept.

| Property | Calls | What TLC finds |
|---|---|---|
| `NoLostWakeup` | create, `lock_mutex` without `bIgnoreSignals`, signal; three threads | `lock_mutex` interrupted by a signal after it was woken leaves without waking the next waiter (`sema.c:1087`). |
| `SleepReportsTimeout` | create, sleep; finite timeouts | `sleep_on_sem` returns 0, not the documented `ETIME` (`sema.c:1604`), after its timeout. |
| `DeleteWakesAll` without its hypothesis | create, sleep, wakeup, delete; three threads | A waiter made ready between the halves of `do_delete_semaphore` returns with its node still in the ring, and the walk that wakes the others goes through it. |
| `SignalEndsWait` | create, lock, unlock, signal | A signal pending before `lock_semaphore` does not keep it from blocking (`sema.c:968-970` says it would). |

`sem_mutex` and `sem_live` call `lock_mutex` with `bIgnoreSignals` because of the first
line: they say nothing of the callers that do not.

### What is proved

`SemaphoreProofs` proves, for every set of threads and handles and every value
of the other constants that satisfies `KindsDisjoint` and `ConstantTypes`:

- `Invariance`: `Spec => []Inv`, the inductive invariant;
- `RingsMatch`: the ring of a valid handle holds exactly the blocked callers;
- `MutexesExclude`: mutual exclusion;
- `NoWakeupLost`: if `lock_mutex` is called only with `bIgnoreSignals`
  (`"none" \notin MutexFlags`), the first waiter of a free mutex is awake. The
  hypothesis is necessary: see the first line of the table above;
- `SleepListMatches`: the sleep list holds exactly what
  `SleepListMatchesCallers` says, with timeouts, signals, deletions and all;
- `LockResults`: `LockResultIsTrue`, an action property;
- `DeletionWakes`: `DeleteWakesAll`, so that the race of the third line of the table
  is the only way to leave somebody asleep on a freed semaphore;
- `ConsumerWoken`: `CounterNoLostWakeup` if at most one thread takes counting
  semaphores, for any number of producers, any counts and every other call. With two
  consumers it is false: `sem_counter`.

`Inv` is `TypeOK /\ CallArgs /\ FreeUnused /\ RingMatchesCallers /\ MutexCount`.
Mutual exclusion alone is not inductive: a second thread gets into a recursive
mutex if `ss_hHolder` names it, so `MutexCount` ties the counter and the holder
to who is inside. `MutexCount` is preserved by a blocked `unlock_and_suspend`
only because its arguments are known (`CallArgs`). The rings are needed because
`remove_from_waitlist` takes out a node that must be there exactly once, and
`FreeUnused` because `create_semaphore` starts with the ring it finds. The step
from `Inv` to `Inv'` has one lemma per part and, in it, one case per action:
`TypeStep`, `CallingStep` (arguments and rings), `MutexStep`. `WakeStep` does
the same for `NoLostWakeup`: each action either leaves the front of the ring
awake, takes the mutex, or wakes the new front.

The other results are inductions on top of `Inv`. `SleepListMatchesCallers` is
inductive with it, because `CallArgs` knows that `lock_mutex` has no timeout.
`DeleteWakesAll` needs to know what the ring of a semaphore looks like between
the two halves of its deletion (`DeletedRing`): a node for every thread still in
a call on it, once each, and otherwise only nodes counted as `stale`. TLC has
checked this strengthening on three threads with deletion, locks, releases,
sleeps, wake-ups, `unlock_and_suspend`, timeouts and signals. `ConsumerWoken` adds
that the one possible waiter sleeps only while the counter is too small for it (`Fed`).

Left to TLC: the three liveness properties.

## 3. Message ports

### The model

Every function of `msgport.c` runs with `g_hPortListSema` held, a semaphore of
count 1 that is only used through `lock_mutex` and `unlock_mutex`; that this
excludes is `MutexesExclude` of section 2. One action is therefore one stretch
with the lock held. `get_msg_x` is the exception that makes the component
interesting: it finds the list empty, lets go of the lock, waits on the port's
own semaphore and takes the lock again.

| Code | Model |
|---|---|
| `g_sMsgPorts` | `port`: none, live, deleting, deleted |
| the message list, `mp_nCount` | `mp_nCount`; messages are linked in at the end and taken from the front within one step, so only their number matters |
| `mp_hSyncSema` | its counter `sync`, its wait queue `ring` |
| `pr_psFirstPort ...`, `mp_hOwner` | `pr_ports`, `mp_hOwner` |
| `sys_create_port` | `sys_create_port`, then `count_port` after the lock is released |
| `sys_delete_port`, `exit_free_ports` | the same names, up to the moment in which `do_delete_semaphore` has taken the handle out of the table and releases the spinlock (`begin_delete`) |
| the rest of `do_delete_port` | `do_delete_port`, with the walk of the ring in `delete_semaphore`; for an exiting process it begins with the next port |
| `send_msg_x` | the same name |
| `get_msg_x` up to the `unlock_mutex` | `get_msg_x`: `take_message` or `start_waiting` |
| `lock_semaphore( hSyncSema, 0, nTimeOut )` | `lock_sync`, and `lock_sync_resume` each time the thread is dispatched: the loop of `do_lock_semaphore_ex` as in `Semaphore`, for a semaphore of one count and without recursion |
| `get_msg_x` from the second `lock_mutex` on | `revalidate` |

`awake` are the threads of a wait queue that were made ready; `expired` those
whose resume time has passed. A thread that is woken exactly at its resume time
and sleeps for one more tick is not told apart from one that is woken a tick
later (`Semaphore` has that case). `MayRead` says which threads read a port:
the application server and the loopers of the C++ library read a port from one
thread, and two of the properties are about that use.

Between the two steps of a deletion `g_hPortListSema` is held, so nobody sends, creates
or looks for a port (`PortListFree`), but readers that wait on the semaphore may return
with a timeout or a signal and leave their nodes in the ring. What the walk does from
such a node on is undefined: any of the readers behind it may be left asleep, and
`dangling` is set.

`nMaxCount` and the timeout of `send_msg_x` are stored or passed and never
looked at, so a sender never waits. `MaxMsgs` bounds the list instead.

### The run

`port_queue` (353445 states) has three threads in two processes and two ports; `p1` has one
reader, `p2` has two, which belong to the same process. One reader of both is
sent signals. Two messages per port reach a message sent while another is in
flight. The timeouts are zero and finite; since nothing forces a finite timeout
to run out, every behaviour of an infinite one is among those checked. It checks

- `Inv`, the invariant of the proofs, with wait queues and owner lists among its
  parts, and of its parts `TokensCoverMessages` by name;
- `MessageWakesReader` and, under fairness, `MessageReceived`: the only reader
  of a port is awake beside a message, and returns;
- `DeletedGetEnds`: whoever reads a port that is deleted returns, unless the walk of the
  ring met a dead node. The window between the halves is in the run: readers time out and
  are interrupted in it. Without the exemption the property is false.

Fairness: a thread inside a call that can run eventually does (`Continue`). No
client is assumed to send anything. Deadlock checking is off: once every handle
was used and every process is gone, nothing is left to do.

What the run shows about two readers: a reader that finds a message takes it
even when a waiting reader has already taken the count that was posted for it.
The code then prints "failed to lock mp_hSyncSema even though there was pending
messages" (`msgport.c:325`), and the waiting reader finds the list empty and
starts over (`msgport.c:331`), with its full timeout. Both lines are reachable,
and neither does damage: the surplus is on the side of the counts.

### What is proved

`MsgPortProofs` proves, for any finite sets of threads and ports, any processes
and any choice of the other constants that satisfies `PortConstants`:

- `PortInvariance`: `Spec => []Inv`;
- `TokensCover`: counts and counts in the hands of readers are at least as many
  as messages, however many readers there are;
- `PortRings`, `ProcessesListTheirPorts`: wait queues and owner lists;
- `DeletedPortWakes`: `DeletionWakes`, nobody is left asleep on a deleted port, unless a
  walk met the node of a reader that had returned;
- `OnlyReaderWakes`: `MessageWakesReader`;
- `PortsCounted`: `PortCount`, the system-wide count, which is increased outside
  the lock.

`Inv` adds to these properties what they need to be inductive: the types,
that a call inside `get_msg_x` is on a port that exists or existed
(`ReadersKnowPort`, without which a new port could be born with waiters), and
that a handle that is not valid has no messages and no waiters
(`DeadPortsEmpty`). While a port is being deleted its ring holds at least the blocked
readers (`RingMatchesReaders`), which is why a walk without a dead node wakes them all.
`TokensCoverMessages` is proved with the cardinality of
`Holders`, which each step changes by at most one. `OnlyReaderWakes` follows
from it: when the semaphore is 0 and the only reader is not a holder, there is
no message, so the reader may go to sleep. What linking and unlinking a node
does to a ring (`RingRemoveMembers`, `RingAppendMembers`) serves the wait queues and
the port lists of processes alike.

Left to TLC: the two liveness properties.

## 4. The AFS journal

### The model

The variables follow `_AfsVolume`, `_AfsTransaction` and `_AfsHashEnt`. A block
on disk is a value or the index block of a transaction buffer. A file-system
operation holds `av_hJournalLock` from `afs_begin_transaction` to
`afs_end_transaction`, so there is one at a time, but what it does on disk takes
many writes. `todo` is what the running call has left to do; each element is
one write or one update, and between any two of them the cache's own thread may
write any dirty block and the machine may stop.

| Code | Model |
|---|---|
| `av_psFirstTrans ... av_psLastTrans` | `trans`, oldest first |
| `at_nLogStart`, `at_nBlockCount`, `at_nPendingLogBlocks`, the two `at_bWritten...` flags | `start`, `count`, `pending`, `logged`, `ondisk` of a transaction; `written` is the loop variable of `afs_write_transaction_to_disk` |
| `av_sLogHashTable` | `hash`, a function from blocks to entries |
| superblock in memory and on disk | `sb`, `superblock` |
| `afs_write_transaction_to_log` | `write_log_blocks`, then `write_log_superblock` |
| `afs_write_transaction_to_disk` | `write_logged_blocks`, `count_written_block` for each block, `written_to_disk` |
| `afs_discard_flushed_journal_entries` | the same name, then the next transaction follows to the cache |
| `afs_wait_for_log_space`, `afs_wait_for_block_to_leave_log` | a step that puts another round of flush, write and discard in front of itself |
| `flush_block_list` and the callback of the journal | `flush_block_list` |
| `afs_mount`, `afs_replay_log` | `afs_mount`, `afs_replay_log` one block at a time, `replay_done` |
| loss of power | `Crash`, and `CrashInLogWrite` in which any part of a log write may be on disk |

A merge that gets no buffer (`merge_fails`) takes back the blocks it has placed: it
deletes the buffers that are new and strips the one that was there
(`journal.c:962-984`), which `TakenBack` counts. A header that cannot be allocated is not modelled.
If `afs_create_transaction` fails (`journal.c:1084`, 1136, 1170) the volume
is left with a transaction that is in the log; `afs_merge_transactions` refuses to merge
into it (870), the end of the operation undoes it, and the next
`afs_begin_transaction` tries again. If `afs_logged_write` fails (1363, 1371) nothing
has changed yet, and the operation is ended without submitting.

`panic` does not return (`kernel/kernel/kernel.c:344-363`), so a panic is a
state in which only a crash is possible.

`DurableStore` is the abstract specification: a store with a current, a
committed and a durable content. `AfsJournal` implements it under the mapping
`Visible` (what `afs_logged_read` returns), `Committed` (what it returns without
the open operation) and `Recovered` (what a replay of the log, as the disk is
now, would leave). The important consequence is that `Recovered` only ever
jumps from one committed state to a later one, whatever block the cache writes
and wherever the log is in its ring.

### The runs

The sizes are 2048 log blocks and 128 blocks per buffer in the code; only their
relation matters. A log of 6 blocks with buffers of 2 makes operations
write the log, fill a second buffer, wrap around, and wait for space.

| Run | Instance | Checks |
|---|---|---|
| `journal_wrap` | log 6, buffer 2, 2 blocks, checkpoints, file writes, sync, 7 calls, under fairness (250764 states) | `Inv`, `LogHoldsUnflushed`, refinement of `DurableStore`, `CallEnds`, `LogDrains` |
| `journal_crash` | log 12, buffer 6, 2 blocks, 6 calls, 2 crashes, aborts, failed allocation, sync, unmount | `ReplayReadsIndex`, refinement of `DurableStore`, `SyncWritesEverything` |

`journal_crash` uses a log that does not wrap, because a mount after a crash
with a moved start is itself a finding (`journal_window`); `journal_wrap` has no
aborted operations because of the dangling entries of `ReadsLiveBuffer`. Two
crashes reach a crash during the replay of the first. Seven calls are three
operations, enough for a log that is behind by two transactions while a third is
open.

A merge fails in `journal_crash` at its first buffer, with nothing placed: two blocks
fit into one buffer. That the take-back after any number of blocks leaves the counters
right (`MergeTakesBack`) is part of the proofs.

`CallEnds` and `LogDrains` exempt two states. A panic of the callback
(`NoCallbackPanic` below) is final. And `afs_wait_for_block_to_leave_log` may be
called for a block that the running operation itself has written (`WaitsForItself`); it
does not look, and neither do its callers (`stream.c:246`, 552, 665). The block
is not in any transaction yet, and its entry stays in the hash table when the
transactions are written, so the loop has no end.

Deadlock checking is off: the calls run out (`MaxCalls`), and a panic is final.

Fairness in `journal_wrap`: the running call proceeds, the flusher threads of
the journal and of the cache run (both are kernel threads that sleep for a
bounded time), a mount completes, and an operation that was begun is ended
(every caller in `fs/afs` pairs the two). `LogDrains` needs the bound on calls:
a file system that never stops writing never has an empty log.

### What disagrees with the documentation or the code's assertions

One run is kept as a counterexample: `journal_window`. `afs_mount` takes the start of
the valid range for the start of the log, so after a crash the log window is
shifted past the log area.

Four more have their property in the module and are found by TLC with
`BufBlocks = 2`, `MaxCalls = 8` and no crash:

| Property | Instance | What TLC finds |
|---|---|---|
| `NoCallbackPanic` | log 6, 2 blocks, checkpoint | The cache may flush a logged block before `at_nPendingLogBlocks` was incremented (`journal.c:571`): the callback panics (`journal.c:296`), although the count is documented as that of the blocks still to come (514-515). |
| `NoEmptyRun` | log 6, 3 blocks, no optional calls | A buffer that ends exactly at the end of the log makes the next one's first run empty, and the write hits the panic of `journal.c:771`. |
| `ReadsLiveBuffer` | log 6, 2 blocks, abort | The transaction that holds a block goes to the cache while the open operation has rewritten the block; if the operation is then undone, the hash entry points into a freed buffer (`journal.c:1030`). |
| `FileBlockLeftLog` | log 6, 2 blocks, file | `afs_wait_for_block_to_leave_log` returns while the log on disk still holds the block (`journal.c:1079`). |

### What is proved

`AfsJournalProofs` proves, for every size of the log and of the buffers, every
number of blocks and every bound on calls and crashes:

- `JournalInvariant`: `Spec /\ []LogStaysInItsArea => []Inv`;
- `LogKeepsUnflushed`: `Spec /\ []LogStaysInItsArea => []LogHoldsUnflushed`.

`AfsJournalStoreProofs` goes on from there:

- `ReplayFollowsLog`: `Spec /\ []LogStaysInItsArea => []ReplayFollows`;
- `ReplayFindsIndex`: `Spec /\ []LogStaysInItsArea => []ReplayReadsIndex`;
- `SyncIsComplete`: `Spec /\ []LogStaysInItsArea => SyncWritesEverything`;
- `JournalImplementsStore`:
  `Spec /\ []LogStaysInItsArea /\ []ReadsLiveBuffer => StoreSpec`, the refinement of
  `DurableStore`;
- `OnlyUndoLeavesStale`:
  `Spec /\ []LogStaysInItsArea /\ [][UndoesOwnBlocks]_vars => []ReadsLiveBuffer`;
- `JournalKeepsPromise`:
  `Spec /\ []LogStaysInItsArea /\ [][UndoesOwnBlocks]_vars => StoreSpec`.

`LogStaysInItsArea` (`av_nLoggStart` is the first block of the log) is the property
that `journal_window` refutes: once a mount has moved the window, the log runs over
the metadata behind it and nothing is true of it any more. The theorems say what the
journal guarantees in every behaviour up to that mount, wrapped logs, crashes,
crashes within a log write, replays, undone operations and failed merges included.

The constants are assumed to be positive, and `BufBlocks` to divide `LogSize`, as 128
does 2048: `afs_merge_transactions` sets aside `LogSize / 128` blocks for the index
blocks of a merge (`journal.c:874`), and `ReserveCovers` shows that this is enough
only because a log of that many buffers is full exactly when they are.

`Inv` is inductive; its parts, and what each one is needed for:

- `CallShape` and `StepsReady`: which steps may follow which, and what the next one
  finds. A merge comes right after its wait for space, so the room that was found is
  still there; a transaction written to the log under a running operation is followed
  by a new one, so the operation always has one to merge into.
- `CountsAgree`: `at_nBlockCount`, `av_nOldBlockCount` and `av_nPendingLogBlocks` are
  the lengths of the log images, with their index blocks, and their sum is at most
  the log. `MergeCounts` computes what a merge adds, by the buffers it begins.
- `ListInOrder`: transactions go to the log and the cache one after the other, and
  each starts in the log where the one before it ends. With the sum this gives
  `LogsApart`: two transactions never share a block of the ring, so writing the log of
  the open one leaves the others alone.
- `CacheFollows`: the dirty blocks are those handed over by the oldest transaction,
  and the callbacks to come are `at_nPendingLogBlocks`, plus one between the handover
  and the count. When the count is zero, all its blocks are in place.
- `OneCopyPerBlock` and `HashFollows`: the hash entry of a block points to its newest
  copy in a transaction that is not in the cache, so a merge finds the copy that it
  has to overwrite, and does not add a second one.
- `LogInPlace`: the superblock covers exactly the logged transactions, and their
  images are on disk; `LogHoldsUnflushed` follows from it.
- `NothingInMemory`: what a mount starts from.

The lemmas about `LogImage` and `BufferOrder` (`journal.c` keeps the buffers newest
first) are by cases on the buffer that holds a position, not by induction. Sums over
the list are a recursive function, `LogSums`; the few facts about it that need
induction use `UpTo`, which takes the property as a set of numbers and follows from
the well-foundedness of the naturals.

The second part is about what is on disk while nothing is in memory, of which `Inv`
says little. `ReplayFollows` is its inductive invariant: from the superblock's start
on, the valid range is index blocks, each followed by as many blocks as it names, up to
its end; a replay that has read part of it is at the block its index calls for, and
what it has read last of a block is in that block's place. When a volume stops, it
holds because the range is the images of the logged transactions (`LogIsOn`), and an
image reads back as the blocks of its transaction (`PlaceIs`, `NamedNext`,
`LogNames`). A crash within a log write only touches blocks outside the range. A crash
within a replay leaves the range alone, so that the next mount starts over and finds
the same (`FoundSame`).

For sync and the refinement the three states of the store are tied to one notion:
`Newer(T, n, d, b, v)` says that `v` is the newest copy of block `b` in the first `n`
transactions of `T`, or the block on disk `d` if none holds it. `Committed` is the newest
copy in all transactions (`NewerCommitted`), `Recovered` that in the logged ones
(`NewerRecovered`). Each step then either keeps the copies, or replaces one where it
should: a superblock write makes `Recovered` what is committed, a merge commits the new
contents, a transaction leaves the list when its copies are in their place
(`InPlaceThen`), a flush writes the copy the oldest transaction holds. A sync ends with
`nPendingLog = 0`, so no transaction holds a block and `Committed` is the disk
(`NothingPending`).

`JournalImplementsStore` assumes that no read goes through a stale `he_pBuffer`, which
the code does not guarantee (see the table above): `afs_discard_transactions` keeps the
entry of a block that a transaction held when the operation wrote it, and that
transaction may have been handed to the cache while the operation ran. `OnlyUndoLeavesStale`
shows that this is the only way: `UndoesOwnBlocks` excludes exactly those undone blocks, and
then every entry without new content belongs to a transaction that is in the list
and not in the cache (`EntriesLive`). Behaviours in which no operation is undone, those of
`journal_wrap` for one, satisfy it trivially.

Left to TLC: `CallEnds` and `LogDrains`, which are liveness.

## 5. The block cache

### The model

`bc_hLock` is held while a call looks at the cache, so one action is one stretch
with it. It is not held during device I/O, while a caller copies data, and while
`lookup_block` polls for a block that is `CBF_BUSY`; those are the steps at which
other threads come in. `AfsJournal` sees the same cache as a bag of dirty blocks
that are written in any order; `BlockCache` shows what the flags and lists make of
it, with the journal reduced to one callback per logged block.

| Code | Model |
|---|---|
| `CacheBlock_s`: hashed, `CBF_DIRTY`, `CBF_BUSY`, `cb_nRefCount`, `cb_pFunc`, data | `cb`, a record per block number |
| `bc_sNormal`, `bc_sLocked`, `bc_nDirtyCount` | the same names, the lists as sets; `older` is the order of `bc_sNormal`, that of the locked list is never used |
| `get_cache_block` and `cached_read`, with read-ahead | `get_cache_block` (hit, miss, or a wait for memory behind a busy guard entry, `get_cache_block_resume`), `read_block_list`, `get_cache_block_loaded` |
| a caller's use of the block | `modify`, `mark_blocks_dirty`, `release_cache_block` |
| `get_empty_block`, `cached_write` | the same names, `cached_write_copy` for the unlocked `memcpy`, `cached_write_end` |
| `write_logged_blocks` | the same name |
| `cache_flusher`, `flush_device_cache`, `flush_cache_block`, `release_cache_blocks` | the same names for the stretch that picks blocks and marks them busy; `flush_cache_block_resume` after a wait for a busy neighbour |
| `flush_block_list` | `flush_block_list`, one block at a time, without the lock; `flush_block_list_clean` for its second loop, as one step |
| the end of each caller | `flush_ends`, `flush_device_cache_resume`, `release_ends` |

How many blocks are read ahead depends on the device and on memory, so
`ReadRanges` is any range around the block that is not cached. A file system
serialises its writers per block (inode lock, journal lock): `MayUse` lets a block
have many readers or one writer. One overlap is left out by this: the indirect blocks of a
file are read with `get_cache_block` (`stream.c:65`, 108, 128) while the journal may write
them with `write_logged_blocks`, which then finds a block in use. The panic of
`write_logged_blocks` on a callback that has not come yet (`bcache.c:1062`) stops the
kernel, so the step is not there. `written` and `saved` are history.

### The run

`cache_flush`: two users, two flushers, three blocks, lists of two, three calls
(302067 states). One block is metadata, written through the journal and on the
unreliable part of the device; one is the end of a file, changed in place; the third is
written whole with `cached_write`. Lists of two with three blocks make a list end before the work does,
so that `flush_device_cache` has a block where it goes on. Three calls are what a
write, an eviction and a reader need. It checks

- `Inv`, what the flags, lists and counts mean and what the threads may rely on.
  `Consistent`: a busy block has exactly one thread that will free it; a block is in
  the list its reference count calls for, and the count is the number of its users;
  whoever writes a block is alone with it; the block where `flush_device_cache` goes on
  stays in the list, and what `release_cache_blocks` frees is clean. `Contents`: nobody
  sees a block that was only allocated, and what a flush has written stays as it is
  until its second loop has noted it;
- `LastWriteKept`: whatever is flushed, evicted and read ahead, a block has the
  contents last written, and is dirty or on the device;
- `Settles`: once no more calls come, every call returns, nothing stays busy or dirty, and
  every callback has come.

Fairness: threads get a CPU; `lookup_block` polls with a short sleep, so a block
that is free again and again is found free once (strong fairness of `UserStep` and
`FlushStep`); the flusher thread comes round (`WF` of `cache_flusher`). The
bound on calls is what makes them end; a file system that never stops writing
never has a clean cache.

`LastWriteKept` exempts two kinds of blocks, those that `flush_block_list` takes for
written although they are not (`Cleaned`; `written` then says that they may hold
anything):

- A block that was passed over. The first loop of `flush_block_list` passes over a
  locked block, the second clears the dirty flag of every block that is not locked
  *then* (`bcache.c:515`). `flush_cache_block` puts locked neighbours into its list, and
  `cached_write_end` does not wait for a busy block, so a write that ends during the
  I/O of the others leaves its block clean and unwritten. TLC finds this at once if
  the exemption is taken away from a run with reliable blocks.
- A block whose write failed. The second loop clears the dirty flag all the same.

For a logged block both also mean that the journal is called back, and gives the log
space up, for a block that is not in place, although its documentation says the
callback comes "when the buffer is safely written to disk" (`journal.c:514-516`). A block
may be both logged and written with `cached_write`, when it changes from metadata to file data
(`journal.c:581-591`, `stream.c:246`). No property here says when a callback comes, only
that it comes; `AfsJournal` takes it that a block is in place then.

Also seen: read errors are not looked at by `read_block_list`'s callers
(`bcache.c:637`, 880). `flush_device_cache` skips busy and locked
blocks, so a sync may return before everything is written.

### What is proved

`BlockCacheProofs` proves, for any finite set of users and any set of flushers, devices
of any size, lists and read-ahead of any length, any number of calls and any bad blocks
(`BlockCacheTypes`):

- `BlockCacheInv`: `Spec => []Inv`;
- `BlockCacheLastWriteKept`: `LastWriteKept`.

`Inv` is inductive. Its core is that owners of busy blocks only ever move in one way
(`OwnersMove`): a step takes blocks that are not busy, or frees its own. From it follows
that a block in a thread's list, a guard, and the block where an iteration goes on are
nobody else's (`OwnersUnique`, `GuardAlone`, `LoadAlone`), which is why a step of one thread leaves
what the others know (`FlushersStay`, `UsersStay`, `OthersStay`). There is one lemma per
action for `Consistent` and one for `Contents`; actions of the same shape share a lemma:
`TakeStep` (a call gets hold of a block), `LoadStep` (blocks are read), `ReleaseStep`
(a user lets go), `StartsConsistent` and `MovesOnConsistent` (a flush marks blocks),
`ReleasedConsistent` (blocks are freed). `flush_block_list` needs both halves: it
writes data to the device only because a dirty block is never garbage.

`LastWriteKept` is inductive on top of `Inv`. Most steps leave what a user would see of
a block (`KeepsBlock`); the step that could lose a write is the release of a block, and
there the second half of `Kept` says that a clean block nobody is changing is on the
device.

Left to TLC: `Settles`, which is liveness.

## 6. Record locks

### The model

`g_hFileLockMutex` is held from the first look at the lists until the call returns
or sleeps. A call that waits has three steps: up to `unlock_and_suspend`, the end of
`unlock_and_suspend` where a pending signal is seen, and the stretch after the mutex
was taken again.

| Code | Model |
|---|---|
| `i_psFirstLock` of a file | the same name, a sequence of locks |
| the wait queue of a lock and its records | `waiters` of the lock |
| `psNewLock` | `new` |
| `lock_inode_record` | `lock_inode_record`, `suspend_returns`, `lock_inode_record_resume`, all through `TryLock` |
| `insert_lock` | `Below` and `Beyond` (what is left of the list under and over the range, shortened), `Extra` (`psExtraLock`, the upper part of a split lock), `Joined` (the new lock with its neighbours) |
| `detect_deadlock` | the same name: the chain of holders from the lock's owner comes to the caller if every set of threads closed under it does |
| `unlock_inode_record`, `flock_thread_died` | the same names |

`trimmed` is history: threads whose blocker was shortened while they slept.

`ByteLocks` is the abstract specification: a mode per thread and byte, and calls that
change one range. `Flock` implements it under `Mode`.

`Requests` holds ranges that are not empty (`FlockTypes`). `lock_file` and
`unlock_file` do not refuse others: with a negative `l_len`, or a start beyond
`MAX_FILE_OFFSET` and `l_len` 0, `nEnd` is less than `nStart`, and `insert_lock` then
splits a lock around such a range into two parts that overlap. What follows is about
programs that do not do this.

### The run

`flock_range`: three threads on a file of three bytes, with requests that share, cover,
split and touch one another and can wait in a circle of three; one thread gets
signals; allocations for a split may fail (24213 states). It checks
`Inv`, which is the types with `SortedDisjoint`, the order insert_lock relies on, and
`WaitsForConflict`, that a sleeper is linked to one lock that is in its way;
`NoDeadlock`, in which threads that were woken but are still linked count, so that the
search of `detect_deadlock` ends as well; the refinement
`ImplementsByteLocks`; and `LockCallEnds`. Fairness: ready threads run, programs
end, ended threads are collected by `wait4`. Without the last two nothing would
make the holder of a lock give it up. Deadlock checking is off because all
threads may be gone.

Seen while modelling, without a run: `insert_lock` (line 251) links the record of an
unlock into the global list when the file has no locks, although its comment (line
314) says "unless we are in fact unlocking"; the record is a local variable. With
`UnlockEmpty = TRUE` TLC finds `NoDeadRecord` violated; the passing run has it
`FALSE`. A lock that is shortened or split does not wake its waiters; they go on when
the rest is given up, which is why `LockCallEnds` still holds. `delete_file_lock`
deletes a wait queue under its waiters, which `unlock_and_suspend` then uses (section 2).
`locks_conflict` does not look at the owner: a thread that wants to upgrade its own
lock is told `EDEADLK` or `EWOULDBLOCK`. The locks of a dead thread stay until it is collected.

### What is proved

`FlockProofs` proves, for any number of threads and files, any `MaxOffset` and any
ranges that are not empty (`FlockTypes`):

- `FlockInv`: `Spec => []Inv`;
- `FlockNoDeadlock`: `NoDeadlock`;
- `FlockImplementsByteLocks`: the refinement of `ByteLocks`.

The first half is about one list. `Before` and `After` are where `insert_lock` cuts it;
`HoleHalves` says that both sides of the hole are in order, clear of the range and
share no owner but the caller, and `GrownHalves` that this stays so when the new lock
takes in its neighbours. From these follow the order of the new list, what becomes of
the waiters (`Rings`: nobody comes to wait for another thread or for two locks, and
whoever is not woken still waits, for a lock as wide as before unless it was cut), and
which bytes change (`CarvedBytes`, `GrownBytes`). The second half is about the actions.
`Inv` and `NoDeadlock` are proved together (`Ordered`). `Inv` is inductive as it stands.
For `NoDeadlock` a step changes for nobody but the caller whom he waits for
(`HolderKept`); when the caller goes to sleep, `detect_deadlock` has found a set of
threads that contains the holder, is closed under waiting and does not contain the
caller, and a circle through the caller would lie, from the holder on, within that
set and so have been there before (`CircleAvoided`). The refinement maps an inserted
lock to `Acquire`, an unlock to `Release`, a collected thread to `Die`, and everything
else, waiting, failing and being interrupted, to no change.

Left to TLC: `LockCallEnds`, which is liveness.

## 7. Fifos and pipes

### The model

`pn_hMutex` plays the part `g_hFileLockMutex` has above. The ring buffer keeps its
positions, the four wait queues are rings of `WaitQueue`, the counts and open sequence numbers are
as in the code. `Woken` is `wakeup_sem`: all, or the first of the ring, which does
nothing if that one is ready already.

| Code | Model |
|---|---|
| `pi_open` | `pi_open`, `pi_open_resume` through `OpenLoop` |
| `pi_close` | `pi_close`, with `Reset` by the last reader |
| `pi_read`, `pi_write` | the same names and `_resume`, through `ReadLoop` and `WriteLoop`, one turn each |
| `pi_setflags`, `pi_add_select_req`, `pi_rem_select_req` | the same names |
| `unlock_and_suspend` | `Sleeps`, `suspend_returns` |

`PipeChannel` is the abstract specification: a bounded first-in first-out channel;
`Fifo` implements it under `Contents`.

### The run

`fifo_pipe`: a named fifo, one reader, two writers, a buffer of two bytes, a write of
three bytes and one of one, two opens per side (164594 states). The buffer wraps, a
write takes several turns, and a peer can come and go before a sleeper runs. It
checks `Inv`, which is `TypeOK`, the counts tied to the open files and the positions to
the number of bytes, with `InPlace`, where wait nodes and arguments of calls are, and
`OpenRendezvous`; `NotForgotten`; the refinement
`ImplementsChannel`; `CallEnds`. Fairness: ready threads run, a notified select
returns, and a program outside a call closes its file in the end. Deadlock checking is off:
the opens run out, and a thread may wait in `pi_open` for a peer that never comes.

`NotForgotten` says three things: a reader asleep in `pi_read` has a writer to wait for;
the only reader of a fifo is not asleep beside data; a select that was not notified has
nothing to report. Signals interrupt only `pi_read` in this run (`Interrupted`), and there is
one reader, because of what TLC finds otherwise:

- with `"pi_open"` interrupted a thread in `pi_read` sleeps for a writer whose open was
  taken back (`fifo.c:243`): `NotForgotten` is violated;
- with `"pi_write"` interrupted a write that leaves absorbs the wake-up another needed:
  `CallEnds` is violated;
- with two readers a write wakes the first of the ring only, and two writes in a row may wake
  the same one, so the other sleeps beside data; if the woken one is interrupted instead,
  nobody reads, and `CallEnds` is violated. `NotForgotten` promises the
  second of its parts to an only reader for this reason.

Also seen:
an interrupted `pi_write` reports an error although part of its data was
written; the last reader's close empties the buffer and woken writers may write into a
pipe without readers; writes of up to `PIPE_BUF` bytes are not atomic.

### What is proved

`FifoProofs` proves, for any finite sets of readers and writers, any size of the
buffer and any payloads (`FifoTypes`):

- `FifoInv`: `Spec => []Inv`;
- `FifoNotForgotten`: `NotForgotten`, for any number of readers and writers, if no signal
  interrupts `pi_open`. The hypothesis is needed: an interrupted open gives its count
  back and wakes nobody;
- `FifoImplementsChannel`: `Spec => ImplementsChannel`, the refinement.

`OpenRendezvous` alone is not inductive: that an open wakes everybody helps only those
who are in the ring it wakes, which is what `InPlace` says. The steps are proved in layers that each
look at a few variables: `SchedStep` (rings, run states, places), `CountsStep` (the two
counts as cardinalities), `RingStep` (positions and bytes), `DataStep` (arguments of
blocked calls) and `RendezvousStep`. For the refinement, `ReadContents` and
`WriteContents` say what one turn of `pi_read` and `pi_write` does to `Contents` when
the positions wrap; they rest on two facts about `%`, `ModSum` and `ModDifference`.

Left to TLC: `CallEnds`, which is liveness.

## 8. Threads and processes

### The model

The thread table, the states and the signals are protected by the scheduler's
spinlock, so a stretch with it is one action of `ThreadLife`. The counters of a
process are not: each `atomic_add`, and each later look at a counter, is an action.

| Code | Model |
|---|---|
| `tr_nState`, `tr_hParent`, `tr_psProcess`, `tr_nSigPend`, `tr_psTermWaitList` | the same names; `TS_RUN` is running or ready; all waiters of a thread are woken at once, so their ring is a set |
| a thread that is not, or no longer, in the table | the states `none`, `created`, `deleted`, `failed` |
| `tr_nExitCode` of a stopped thread | `unreported`: not yet reset by `wait4` |
| `pr_nThreadCount`, `pr_nLivingThreadCount` | the same names |
| the rest of `Process_s` | `process`: live, closed by its last thread, freed, freed twice |
| `sys_Fork`, `sys_spawn_thread` | `sys_Fork` in one step, as nobody knows the child before; `sys_spawn_thread` and `spawn_thread_insert`, as others of the process may end in between |
| `do_exit` | `do_exit`, `do_exit_close`, `do_exit_zombie` |
| `sys_wait4`, `Thread_Delete` | `sys_wait4`, one `sys_wait4_turn` per turn of the loop, then `Thread_Delete`, `Thread_Delete_count`, `Thread_Delete_process` |
| `sys_wait_for_thread` | the same name and `_resume` |
| `send_signal`, `wakeup_thread` | `Pending`, `Woken`, with `Unmasked`, `Forces` |
| `handle_signals` | one signal per step, lowest number first; SIGCHLD, if ignored, starts the loop that collects children (`reaping`) |
| thread 1 | `init`; `InitWaits` is the loop at the end of `SysInit` |

Whether a thread blocks or ignores SIGCHLD is chosen at the start (`Masks`).
`MArray_Insert` gives out rising numbers, so a handle is used once.

### The run

`thread_life`: init and two more threads in up to three processes, one of which may
have several threads; SIGSTOP and SIGCONT from anybody; the second thread blocks
SIGCHLD, ignores it, or neither (337944 states). Three threads are a grandparent, a
parent that may end first, and a child, or two threads of one process with their
collector. The calls of init are to fork and to collect. It checks

- `Inv`: the types; `ParentsAlive`, that the parent of every thread in the table is
  alive and that whoever deletes a thread is its parent; `CountsAgree`, what the two
  counters count; `OnTheList`, that who waits for the end of a thread is on its list;
  and what these need to be inductive (below);
- `NobodyForgotten`: nobody sleeps in `wait4` beside a child it asks for, nor in
  `wait_for_thread` for a thread that has ended. It holds with SIGCHLD blocked
  because `send_signal` wakes for SIGCHLD all the same;
- `OnlyLastOutCloses`: nobody but the last thread of a process closes it; the last one does,
  unless a `sys_spawn_thread` failed in the process; and it is freed only when all
  its threads have been collected;
- `OrphansCollected`: init collects every zombie that is its child, from the start or
  by inheritance. Fairness: threads that can run get a CPU, and init goes on
  collecting.

Deadlock checking is off: the handles run out.

`thread_two_collectors` is a counterexample, with four threads. Anybody may fork a
process and the process spawn threads; its first thread has the parent that forked
it, the spawned ones have init (`threads.c:611`). Two collectors may both decrement
`pr_nThreadCount` and then both find it 0 (`threads.c:694-698`), and both remove and free
the process: `FreedOnce` is violated. Two collectors with a zombie each take four
threads, so that `thread_life` does not contain this behaviour; the theorems below do
not exclude it.

### What is proved

`ThreadLifeProofs` proves, for any number of threads and processes and any choice of
masks, signals and arguments of `wait4` (`ThreadLifeTypes`):

- `ThreadLifeInv`: `Spec => []Inv`;
- `ThreadLifeNobodyForgotten`: `NobodyForgotten`;
- `ThreadLifeOnlyLastOutCloses`: `OnlyLastOutCloses`.

`Inv` has, beside what is worth knowing, what makes it inductive: `Whereabouts` ties
the place of a thread to its state, so that a step of one thread does not disturb what
another is in the middle of; `InHand` says what the thread that a call creates or
collects is; `Door` that somebody is left to close every live process, and nobody comes in
afterwards. The proof has these layers: the types and `Whereabouts` (`Core`), for
which every action is described by what it moves (`Moved`, `Fits`); the actions that
leave the tables alone (`Quiet`); those that create, end or collect a thread, with one
lemma per action about the sets whose sizes are the counters; and `Watch`, what a step may
do to a sleeper's wait condition. Nothing in it depends on who
collects the threads of a process.

Left to TLC: `OrphansCollected`, which is liveness.

### Seen while modelling

Without a run of their own:

- A `sys_spawn_thread` that fails after `Thread_New` calls `Thread_Delete`, which does
  not take back `pr_nLivingThreadCount`: the last thread of the process does not find
  that it is the last ("Last out closing the door", `fork.c:123`), and files, ports
  and semaphores are not given back. `OnlyLastOutCloses` exempts such
  processes, those with a thread in the state `failed`, from its second part.
- `sys_wait4` tests `psThread` where it means `psChild` (`schedule.c:957`) and reads
  the state of a child at address 0; the model goes on as if that were no state it
  knows. For a positive `hPid` it verifies only that the thread exists, whoever its
  parent is, although the comment says "we verify that we has a child"
  (`schedule.c:915`), so a caller may wait for a thread that is not its child until a
  signal comes.
- If the status cannot be copied to the caller of `sys_wait4` (`EFAULT`), a zombie is left
  as it is (`schedule.c:985-997`) and a stop counts as reported (969-972). Both are in the model.
- A SIGCONT or SIGKILL that comes after `handle_signals` has picked SIGSTOP and before
  `stop_thread` is pending, but the thread stops.
- `sys_exit` kills the threads that are in the table; one that is being spawned
  survives.
- `sys_wait_for_thread` returns `wq_nCode`, which nobody has set if it was woken by
  something else than the end of the thread.
- A zombie runs on its kernel stack until `Schedule` has switched, while its parent, on
  another CPU, may free that stack.

## 9. What is not modelled, and why

- Semaphores: failure to allocate on creation; ownership by processes and the
  cleanup on exit and exec (`sema.c:573-647`), cloning of contexts; the
  deadlock detector, which is compiled out; information calls and debugger
  commands; reuse of a handle after deletion; restart of system calls on
  `EINTR`.
- Scheduler: priorities, quanta and the order of the ready list. Any ready
  thread may run next, which includes every order the code can produce.
- Signals: changes of masks and handlers, stack frames, signals to groups, the
  orphaned groups of job control, alarms.
- Threads: `exec`, failing forks, changes of groups and sessions, `send_data` and
  `receive_data`, `sys_suspend_thread`, `sys_SetThreadExitCode`, bad user pointers except that of `sys_wait4`; init
  does not take part in signals.
- Message ports: contents and sizes of messages (`E2BIG`), failed allocation,
  reuse of a handle, the information calls, which change nothing.
- Journal: I/O errors; failed allocation of transaction headers, hash entries and
  journal blocks (section 4); a torn superblock write (one sector); the chains of the
  hash table, and with them the readers that walk it while another thread
  relinks it; the contents of file data; the block bitmap and `as_nUsedBlocks`.
- Block cache: `setup_device_cache` and `shutdown_device_cache`; the uncached
  `read_phys_blocks` and `write_phys_blocks`; resizing of the hash table; the
  compaction of the heap in `bcalloc.c`; several devices; read errors; the
  branches for `bOnlyLoggedBlocks`, which is always false.
- Record locks: `F_GETLK`, which changes nothing; ranges of negative length, which
  `lock_file` does not refuse; failed allocation of the first record (the call returns
  at once).
- Fifos: creation and freeing of the node, which belong to the inode cache;
  failed creation of a wait queue.
- Everything listed as `not_modelled` in `PROJECT.json`: drivers and hardware
  access, user-space programs and third-party code are outside the kernel's own
  logic; the other kernel components are in the plan.

## 10. Plan

Done: `Semaphore`, `MsgPort`, `Flock` (refining `ByteLocks`), `Fifo` (refining
`PipeChannel`), `BlockCache`, `ThreadLife` and `AfsJournal` (refining `DurableStore`)
with their proofs.

To model next: the alarms of `timer.c` and `psignals.c`; the inode cache; the b+trees
of AFS against a reference map; ARP and TCP.
