----------------------------- MODULE AfsJournal -----------------------------
(***************************************************************************)
(* The metadata journal of the AtheOS file system,                         *)
(* kernel/fs/afs/journal.c, with the part of the block cache               *)
(* (kernel/kernel/bcache.c) and of mount and unmount (kernel/fs/afs/afs.c) *)
(* that it rests on.                                                       *)
(*                                                                         *)
(* Metadata blocks written by a file-system operation are collected        *)
(* (newBlocks), merged at the end of the operation into the current        *)
(* "super" transaction, written from there to the log on disk, then to the *)
(* block cache, and flushed by the cache to their place.  Only then is     *)
(* their log space given back.  The superblock on disk says which part of  *)
(* the log a mount must replay.                                            *)
(*                                                                         *)
(* An operation holds av_hJournalLock from afs_begin_transaction to        *)
(* afs_end_transaction, so there is one at a time.  What it does on disk   *)
(* is a sequence of steps, kept in todo: between two of them the block     *)
(* cache may flush any block and the machine may stop.                     *)
(***************************************************************************)
EXTENDS Integers, Sequences, SequencesExt, FiniteSets

CONSTANTS
    LogSize,    \* as_nLogSize: blocks of the log area (2048 in the code)
    BufBlocks,  \* blocks of a transaction buffer, and the size that makes an
                \* operation write the log (128 in the code, for both)
    NumBlocks,  \* metadata blocks, placed right after the log area
    Calls,      \* which optional calls the file system makes, a subset of
                \* {"abort", "nomem", "checkpoint", "file", "sync", "unmount"}
    MaxCalls,   \* bound: calls made by the file system
    MaxCrash    \* bound: crashes

ASSUME SizesAssumption ==
    /\ LogSize \in Nat \ {0}
    /\ BufBlocks \in Nat \ {0}
    /\ NumBlocks \in Nat \ {0}
    /\ LogSize % BufBlocks = 0     \* 2048 and 128 in the code
    /\ MaxCalls \in Nat
    /\ MaxCrash \in Nat

VARIABLES
    \* on disk
    disk,           \* content of every block
    superblock,     \* as_nLogStart and as_nValidLogBlocks as last written
    \* the volume in memory
    mode,           \* "mounted", "down", "replay", or the panic that was hit
    nLoggStart,     \* av_nLoggStart
    sb,             \* *av_psSuperBlock
    trans,          \* the list of transactions, av_psLastTrans first
    nOldBlockCount, \* av_nOldBlockCount
    nPendingLog,    \* av_nPendingLogBlocks
    newBlocks,      \* av_psFirstLogBlock: blocks the open operation wrote
    hash,           \* av_sLogHashTable
    started,        \* av_nTransactionStarted
    todo,           \* what the running call has left to do
    leave,          \* argument and nRun of afs_wait_for_block_to_leave_log
    replay,         \* locals of afs_replay_log
    \* the block cache
    cache,          \* dirty blocks
    \* bookkeeping
    fileBlocks,     \* blocks handed out for file data
    nextId,         \* name of the next transaction
    nCalls, nCrash  \* for the bounds

volume == <<nLoggStart, sb, trans, nOldBlockCount, nPendingLog, newBlocks,
            hash, started, leave, fileBlocks, nextId>>
vars == <<disk, superblock, mode, volume, todo, replay, cache, nCalls, nCrash>>
-----------------------------------------------------------------------------
(* Disk layout and the types of the state.                                 *)

Block   == (LogSize + 1)..(LogSize + NumBlocks)
Addr    == 1..(2 * LogSize + NumBlocks)     \* covers a window moved by one mount

\* A block on disk: data, or the index block of a transaction buffer.
Data(v)   == [val |-> v, idx |-> <<>>]
Index(bs) == [val |-> 0, idx |-> bs]

NoBuffer == <<0, 0>>
Freed    == -1          \* what a read through a stale he_pBuffer returns
NoEntry  == [present |-> FALSE, trans |-> 0, buffer |-> NoBuffer, new |-> 0]
Clean    == [dirty |-> FALSE, val |-> 0, func |-> 0]

nLoggEnd == nLoggStart + LogSize - 1
Reserve  == LogSize \div BufBlocks

Entry == [present : BOOLEAN,        \* in the hash table
          trans : Nat,              \* he_psTransaction, 0 for NULL
          buffer : Nat \X Nat,      \* he_pBuffer: transaction and slot
          new : Nat]                \* he_psTransBuf->jb_pData, 0 for NULL

Transaction == [id : Nat, start : Nat, count : Nat,
                blocks : Seq([blk : Block, val : Nat]),
                logged : BOOLEAN, ondisk : BOOLEAN,
                pending : Int, written : Nat]

\* av_psFirstTrans and the oldest transaction.
Current == Last(trans)
Oldest  == Head(trans)
HasOpen == trans # <<>> /\ ~Current.logged

\* Transaction buffers hold BufBlocks blocks each.
Buffers(n) == (n + BufBlocks - 1) \div BufBlocks
-----------------------------------------------------------------------------
(* Reading.                                                                *)

\* What the cache returns for a block.
CachedRead(b) == IF cache[b].dirty THEN cache[b].val ELSE disk[b].val

\* The copy he_pBuffer points to.
LiveBuffer(ref) == \E i \in 1..Len(trans) : trans[i].id = ref[1]
BufferRead(ref) ==
    IF LiveBuffer(ref)
    THEN trans[CHOOSE i \in 1..Len(trans) : trans[i].id = ref[1]].blocks[ref[2]].val
    ELSE Freed

afs_logged_read(b) ==
    IF ~hash[b].present THEN CachedRead(b)
    ELSE IF hash[b].new # 0 THEN hash[b].new
    ELSE BufferRead(hash[b].buffer)
-----------------------------------------------------------------------------
(* The log of a transaction: for every buffer, newest first, its index     *)
(* block and then its blocks, from at_nLogStart on and around the end of   *)
(* the log.                                                                *)

BufferPart(bs, k) ==
    SubSeq(bs, (k - 1) * BufBlocks + 1,
           IF k * BufBlocks > Len(bs) THEN Len(bs) ELSE k * BufBlocks)

\* How many blocks the buffers after buffer k hold.
NewerBlocks(bs, k) ==
    IF k * BufBlocks < Len(bs) THEN Len(bs) - k * BufBlocks ELSE 0

\* The blocks of a transaction, bs, in the order of its buffers, newest first.
BufferOrder(bs) ==
    [p \in 1..Len(bs) |->
       LET k == CHOOSE k \in 1..Buffers(Len(bs)) :
                  NewerBlocks(bs, k) < p /\ p <= NewerBlocks(bs, k - 1)
       IN  BufferPart(bs, k)[p - NewerBlocks(bs, k)]]

\* How many blocks of its log come before the index block of buffer k.
LogBefore(bs, k) == NewerBlocks(bs, k) + Buffers(Len(bs)) - k

BufferIndex(bs, k) ==
    Index([i \in 1..Len(BufferPart(bs, k)) |-> BufferPart(bs, k)[i].blk])

LogImage(bs) ==
    [p \in 1..(Len(bs) + Buffers(Len(bs))) |->
       LET k == CHOOSE k \in 1..Buffers(Len(bs)) :
                  LogBefore(bs, k) < p /\ p <= LogBefore(bs, k - 1)
       IN  IF p = LogBefore(bs, k) + 1 THEN BufferIndex(bs, k)
           ELSE Data(BufferPart(bs, k)[p - LogBefore(bs, k) - 1].val)]

\* How many blocks of the log the first i - 1 transactions of a list take.
LogSums(ts) ==
    LET n[i \in 1..(Len(ts) + 1)] == IF i = 1 THEN 0 ELSE n[i - 1] + ts[i - 1].count
    IN  n

\* Position i of a log that starts at start and wraps after end.
LogPos(start, first, end, i) ==
    IF start + i <= end THEN start + i ELSE first + (start + i - end) - 1

\* The blocks of the log that writing t changes.
LogWrites(t) ==
    LET image == LogImage(t.blocks)
    IN  [a \in {LogPos(t.start, nLoggStart, nLoggEnd, i - 1) : i \in 1..Len(image)}
           |-> image[CHOOSE i \in 1..Len(image) :
                        LogPos(t.start, nLoggStart, nLoggEnd, i - 1) = a]]

\* The disk with the blocks that w gives.
Overwritten(w) == [a \in Addr |-> IF a \in DOMAIN w THEN w[a] ELSE disk[a]]

\* A buffer that ends exactly at the end of the log leaves the next one with
\* an empty first run.
EmptyRun(t) ==
    LET n == Buffers(Len(t.blocks))
    IN  \E k \in 1..(n - 1) :
          t.start + Len(t.blocks) - (n - k) * BufBlocks + k = nLoggEnd + 1
-----------------------------------------------------------------------------
(* A freshly formatted volume, mounted.                                    *)

Init ==
    /\ disk = [a \in Addr |-> Data(0)]
    /\ superblock = [start |-> 1, valid |-> 0]
    /\ mode = "mounted"
    /\ nLoggStart = 1
    /\ sb = superblock
    /\ trans = <<>>
    /\ nOldBlockCount = 0
    /\ nPendingLog = 0
    /\ newBlocks = <<>>
    /\ hash = [b \in Block |-> NoEntry]
    /\ started = FALSE
    /\ todo = <<>>
    /\ leave = [blk |-> 0, run |-> 0, got |-> {}]
    /\ replay = [pos |-> 0, left |-> 0, idx |-> <<>>]
    /\ cache = [b \in Block |-> Clean]
    /\ fileBlocks = {}
    /\ nextId = 1
    /\ nCalls = 0
    /\ nCrash = 0
-----------------------------------------------------------------------------
(* Calls of the file system.  Each one starts with no other call running:  *)
(* av_hJournalLock is held by the operation, av_hJournalListsLock by the   *)
(* call.                                                                   *)

\* The new transaction starts where the one before it ends.
NewTransaction ==
    [id |-> nextId, count |-> 0, blocks |-> <<>>, logged |-> FALSE,
     ondisk |-> FALSE, pending |-> 0, written |-> 0,
     start |-> IF trans = <<>> THEN nLoggStart
               ELSE LogPos(Current.start, nLoggStart, nLoggEnd, Current.count)]

afs_create_transaction ==
    /\ trans' = Append(trans, NewTransaction)
    /\ nextId' = nextId + 1

Idle == mode = "mounted" /\ todo = <<>>

MayCall == nCalls < MaxCalls /\ nCalls' = nCalls + 1

afs_begin_transaction ==
    /\ Idle /\ ~started /\ MayCall
    /\ started' = TRUE
    /\ IF HasOpen THEN UNCHANGED <<trans, nextId>> ELSE afs_create_transaction
    /\ leave' = [leave EXCEPT !.got = {}]
    /\ UNCHANGED <<disk, superblock, mode, nLoggStart, sb, nOldBlockCount, nPendingLog,
                   newBlocks, hash, todo, replay, cache, fileBlocks, nCrash>>

\* The call's number serves as the new content of the block.
afs_logged_write(b) ==
    /\ Idle /\ started /\ MayCall
    /\ hash' = [hash EXCEPT ![b] =
                  IF @.present THEN [@ EXCEPT !.new = nCalls + 1]
                  ELSE [present |-> TRUE, trans |-> Current.id,
                        buffer |-> NoBuffer, new |-> nCalls + 1]]
    /\ newBlocks' = IF hash[b].new # 0 THEN newBlocks ELSE <<b>> \o newBlocks
    /\ fileBlocks' = fileBlocks \ {b}
    /\ UNCHANGED <<disk, superblock, mode, nLoggStart, sb, trans, nOldBlockCount,
                   nPendingLog, started, todo, leave, replay, nextId, cache, nCrash>>

\* Calls that go through the steps below.
Run(steps) ==
    /\ todo' = steps
    /\ UNCHANGED <<disk, superblock, mode, nLoggStart, sb, trans, nOldBlockCount,
                   nPendingLog, newBlocks, hash, started, replay, cache, nextId, nCrash>>

\* An operation that would make the transaction longer than a buffer writes
\* the transaction to the log first.
afs_end_transaction(bSubmitChanges) ==
    /\ Idle /\ started
    /\ bSubmitChanges \/ "abort" \in Calls
    /\ Run((IF nOldBlockCount + Len(newBlocks) > BufBlocks
              THEN <<"log", "create">> ELSE <<>>)
           \o (IF bSubmitChanges THEN <<"space", "merge">> ELSE <<"revert">>)
           \o <<"discard", "end">>)
    /\ UNCHANGED <<leave, fileBlocks, nCalls>>

afs_checkpoint_journal ==
    /\ Idle /\ started /\ MayCall
    /\ "checkpoint" \in Calls
    /\ Run((IF nOldBlockCount + Len(newBlocks) + Reserve > LogSize
              THEN <<"log", "create">> ELSE <<>>)
           \o <<"space", "merge", "discard">>)
    /\ UNCHANGED <<leave, fileBlocks>>

\* Called for a block that was allocated for file data.  The round below takes
\* afs_create_transaction to get its memory.
afs_wait_for_block_to_leave_log(b) ==
    /\ Idle /\ started /\ MayCall
    /\ "file" \in Calls
    /\ b \notin fileBlocks
    /\ Run(<<"leave">>)
    /\ leave' = [leave EXCEPT !.blk = b, !.run = 0]
    /\ UNCHANGED fileBlocks

\* Mutant: the flusher does not look for transactions that are in place.
afs_journal_flusher_no_discard ==
    /\ Idle /\ ~started
    /\ trans # <<>>
    /\ Run(<<"log">>)
    /\ UNCHANGED <<leave, fileBlocks, nCalls>>

\* The journal flusher thread, once a second.
afs_journal_flusher ==
    /\ Idle /\ ~started
    /\ trans # <<>>
    /\ Run(<<"log", "discard">>)
    /\ UNCHANGED <<leave, fileBlocks, nCalls>>

\* afs_flush_journal, followed by flush_device_cache.
afs_sync ==
    /\ Idle /\ ~started /\ MayCall
    /\ "sync" \in Calls
    /\ Run(<<"flush", "log", "drain", "flush">>)
    /\ UNCHANGED <<leave, fileBlocks>>

afs_unmount ==
    /\ Idle /\ ~started /\ MayCall
    /\ "unmount" \in Calls
    /\ Run(<<"flush", "log", "drain", "flush", "unmount">>)
    /\ UNCHANGED <<leave, fileBlocks>>
-----------------------------------------------------------------------------
(* The block cache.                                                        *)

\* Writing a set of dirty blocks to their place; the callback of a logged
\* block takes one from at_nPendingLogBlocks and panics below zero.
PendingAfter(t, S) == t.pending - Cardinality({b \in S : cache[b].func = t.id})

flush_block_list(S) ==
    /\ disk' = [a \in Addr |-> IF a \in S THEN Data(cache[a].val) ELSE disk[a]]
    /\ cache' = [b \in Block |-> IF b \in S THEN Clean ELSE cache[b]]
    /\ trans' = [i \in 1..Len(trans) |->
                   [trans[i] EXCEPT !.pending = PendingAfter(trans[i], S)]]
    /\ mode' = IF \E i \in 1..Len(trans) : PendingAfter(trans[i], S) < 0
               THEN "panic in callback" ELSE mode

Dirty == {b \in Block : cache[b].dirty}

\* The cache's own thread may pick any dirty block at any time.
cache_flusher(b) ==
    /\ mode = "mounted"
    /\ b \in Dirty
    /\ flush_block_list({b})
    /\ UNCHANGED <<superblock, nLoggStart, sb, nOldBlockCount, nPendingLog, newBlocks, hash,
                   started, leave, fileBlocks, nextId, todo, replay, nCalls, nCrash>>
-----------------------------------------------------------------------------
(* The steps of the running call.                                          *)

Step(name) == mode = "mounted" /\ todo # <<>> /\ Head(todo) = name

\* What a step that touches neither the disk nor the cache leaves alone.
InMemory == UNCHANGED <<disk, superblock, mode, nLoggStart, cache, replay, nCalls, nCrash>>

\* flush_device_cache of afs_flush_journal, and afs_force_flush_transaction.
flush_device_cache ==
    /\ Step("flush")
    /\ flush_block_list(Dirty)
    /\ todo' = Tail(todo)
    /\ UNCHANGED <<superblock, nLoggStart, sb, nOldBlockCount, nPendingLog, newBlocks, hash,
                   started, leave, fileBlocks, nextId, replay, nCalls, nCrash>>

afs_force_flush_transaction ==
    /\ Step("force")
    /\ flush_block_list({b \in Dirty : trans # <<>> /\ \E i \in 1..Len(Oldest.blocks) :
                                          Oldest.blocks[i].blk = b})
    /\ todo' = Tail(todo)
    /\ UNCHANGED <<superblock, nLoggStart, sb, nOldBlockCount, nPendingLog, newBlocks, hash,
                   started, leave, fileBlocks, nextId, replay, nCalls, nCrash>>

\* afs_write_transaction_to_log, up to the superblock.
write_log_blocks ==
    /\ Step("log")
    /\ IF ~HasOpen
       THEN /\ todo' = Tail(todo)
            /\ UNCHANGED <<disk, mode>>
       ELSE IF EmptyRun(Current)
       THEN /\ mode' = "panic in log"
            /\ UNCHANGED <<disk, todo>>
       ELSE /\ disk' = Overwritten(LogWrites(Current))
            /\ todo' = <<"super">> \o Tail(todo)
            /\ UNCHANGED mode
    /\ UNCHANGED <<superblock, volume, replay, cache, nCalls, nCrash>>

\* ... and from there: the new range becomes valid.
write_log_superblock ==
    /\ Step("super")
    /\ trans' = [trans EXCEPT ![Len(trans)].logged = TRUE]
    /\ nOldBlockCount' = nOldBlockCount - Len(LogImage(Current.blocks))
    /\ sb' = [sb EXCEPT !.valid = @ + nOldBlockCount]
    /\ superblock' = sb'
    /\ todo' = <<"todisk">> \o Tail(todo)
    /\ UNCHANGED <<disk, mode, nLoggStart, nPendingLog, newBlocks, hash, started, leave,
                   fileBlocks, nextId, replay, cache, nCalls, nCrash>>

\* afs_write_transaction_to_disk on the oldest transaction, if it is in the
\* log and not yet in the cache: hand over the next block ...
NeedsDisk == trans # <<>> /\ Oldest.logged /\ ~Oldest.ondisk

write_logged_blocks ==
    /\ Step("todisk")
    /\ NeedsDisk
    /\ Oldest.written < Len(Oldest.blocks)
    /\ LET e == BufferOrder(Oldest.blocks)[Oldest.written + 1]
       IN  cache' = [cache EXCEPT ![e.blk] =
                       [dirty |-> TRUE, val |-> e.val, func |-> Oldest.id]]
    /\ todo' = <<"count">> \o todo
    /\ UNCHANGED <<disk, superblock, mode, volume, replay, nCalls, nCrash>>

\* ... count it ...
count_written_block ==
    /\ Step("count")
    /\ trans' = [trans EXCEPT ![1].pending = @ + 1, ![1].written = @ + 1]
    /\ todo' = Tail(todo)
    /\ InMemory
    /\ UNCHANGED <<sb, nOldBlockCount, nPendingLog, newBlocks, hash, started, leave,
                   fileBlocks, nextId>>

\* Mutant: an entry that the open operation wrote again is dropped too.
Unlink_all(e) == IF e.trans # Oldest.id THEN e ELSE NoEntry

\* ... and after the last one forget the transaction's hash entries, except
\* those the open operation wrote again.
Unlink(e) == IF e.trans # Oldest.id THEN e
             ELSE IF e.new = 0 THEN NoEntry
             ELSE [e EXCEPT !.trans = 0]

written_to_disk ==
    /\ Step("todisk")
    /\ IF NeedsDisk
       THEN /\ Oldest.written = Len(Oldest.blocks)
            /\ trans' = [trans EXCEPT ![1].ondisk = TRUE]
            /\ hash' = [b \in Block |-> Unlink(hash[b])]
       ELSE UNCHANGED <<trans, hash>>
    /\ todo' = Tail(todo)
    /\ InMemory
    /\ UNCHANGED <<sb, nOldBlockCount, nPendingLog, newBlocks, started, leave, fileBlocks, nextId>>
-----------------------------------------------------------------------------
\* The oldest transaction leaves the log once all its blocks are in place
\* (flushed); the next one follows it into the cache.
Discard(flushed, count, start) ==
    /\ Step("discard")
    /\ IF trans # <<>> /\ Oldest.logged /\ Oldest.ondisk /\ flushed
       THEN /\ trans' = Tail(trans)
            /\ nPendingLog' = nPendingLog - count
            /\ sb' = [start |-> start, valid |-> sb.valid - Oldest.count]
            /\ superblock' = sb'
            /\ todo' = <<"todisk">> \o Tail(todo)
       ELSE /\ todo' = Tail(todo)
            /\ UNCHANGED <<trans, nPendingLog, sb, superblock>>
    /\ UNCHANGED <<disk, mode, nLoggStart, nOldBlockCount, newBlocks, hash, started, leave,
                   fileBlocks, nextId, replay, cache, nCalls, nCrash>>

NextStart == IF Len(trans) = 1 THEN nLoggStart ELSE trans[2].start

\* Mutants: the transaction leaves before its blocks are in place; one block
\* too many is waited for; the start of the valid range is left behind.
discard_early == Discard(TRUE, Oldest.count, NextStart)
discard_late == Discard(Oldest.pending < 0, Oldest.count, NextStart)
discard_keeps_start == Discard(Oldest.pending <= 0, Oldest.count, sb.start)

afs_discard_flushed_journal_entries ==
    Discard(Oldest.pending <= 0, Oldest.count, NextStart)

\* One round of the loops that wait for the log to empty.
OneRound == <<"force", "todisk", "discard">>

\* Mutant: nobody waits.
no_wait_for_log_space ==
    /\ Step("space") \/ Step("drain")
    /\ todo' = Tail(todo)
    /\ InMemory
    /\ UNCHANGED <<sb, trans, nOldBlockCount, nPendingLog, newBlocks, hash, started, leave,
                   fileBlocks, nextId>>

\* Before a merge, and at the end of afs_flush_journal for the whole log.
afs_wait_for_log_space ==
    /\ Step("space") \/ Step("drain")
    /\ LET nBlockCount == IF Head(todo) = "drain" THEN LogSize
                          ELSE Len(newBlocks) + Reserve
       IN  todo' = IF nPendingLog + nBlockCount > LogSize THEN OneRound \o todo
                   ELSE Tail(todo)
    /\ InMemory
    /\ UNCHANGED <<sb, trans, nOldBlockCount, nPendingLog, newBlocks, hash, started, leave,
                   fileBlocks, nextId>>

\* The third round writes the current transaction to the log.
wait_for_block_to_leave_log_round ==
    /\ Step("leave")
    /\ IF hash[leave.blk].present
       THEN /\ todo' = (IF leave.run = 2 THEN <<"log", "create">> ELSE <<>>) \o OneRound \o todo
            /\ leave' = [leave EXCEPT !.run = IF @ < 3 THEN @ + 1 ELSE @]
            /\ UNCHANGED fileBlocks
       ELSE /\ todo' = Tail(todo)
            /\ leave' = [blk |-> 0, run |-> 0, got |-> leave.got \cup {leave.blk}]
            /\ fileBlocks' = fileBlocks \cup {leave.blk}
    /\ InMemory
    /\ UNCHANGED <<sb, trans, nOldBlockCount, nPendingLog, newBlocks, hash, started, nextId>>

create_next_transaction ==
    /\ Step("create")
    /\ afs_create_transaction
    /\ todo' = Tail(todo)
    /\ InMemory
    /\ UNCHANGED <<sb, nOldBlockCount, nPendingLog, newBlocks, hash, started, leave, fileBlocks>>

\* Mutant: every block gets a new place.
IsNew_always(b) == hash[b].new # 0

\* A block the transaction already holds is overwritten in its buffer, the
\* others get a place, in a new buffer when the last one is full.
IsNew(b) == hash[b].trans # Current.id \/ hash[b].buffer = NoBuffer

\* The blocks that get a place, in the order of the list.
Fresh ==
    LET f[i \in 0..Len(newBlocks)] ==
          IF i = 0 THEN <<>>
          ELSE IF IsNew(newBlocks[i]) THEN Append(f[i - 1], newBlocks[i])
          ELSE f[i - 1]
    IN  f[Len(newBlocks)]

\* The transaction's blocks with the new contents, and the blocks it gets.
Merged ==
    [i \in 1..Len(Current.blocks) |->
       LET again == {b \in Range(newBlocks) : ~IsNew(b) /\ hash[b].buffer[2] = i}
       IN  IF again = {} THEN Current.blocks[i]
           ELSE [Current.blocks[i] EXCEPT !.val = hash[CHOOSE b \in again : TRUE].new]]
Added == [i \in 1..Len(Fresh) |-> [blk |-> Fresh[i], val |-> hash[Fresh[i]].new]]

MergedEntry(b) ==
    IF b \notin Range(newBlocks) THEN hash[b]
    ELSE IF ~IsNew(b) THEN [hash[b] EXCEPT !.new = 0]
    ELSE [present |-> TRUE, trans |-> Current.id, new |-> 0,
          buffer |-> <<Current.id, Len(Current.blocks) + CHOOSE i \in 1..Len(Fresh) : Fresh[i] = b>>]

afs_merge_transactions ==
    /\ Step("merge")
    /\ LET old    == Len(Current.blocks)
           nIndex == Buffers(old + Len(Fresh)) - Buffers(old)
       IN  /\ trans' = [trans EXCEPT ![Len(trans)].blocks = Merged \o Added,
                                     ![Len(trans)].count = @ + nIndex + Len(Fresh)]
           /\ nOldBlockCount' = nOldBlockCount + nIndex + Len(Fresh)
           /\ nPendingLog' = nPendingLog + nIndex + Len(Fresh)
    /\ hash' = [b \in Block |-> MergedEntry(b)]
    /\ newBlocks' = <<>>
    /\ leave' = [leave EXCEPT !.got = {}]
    /\ todo' = Tail(todo)
    /\ InMemory
    /\ UNCHANGED <<sb, started, fileBlocks, nextId>>

\* How many buffers the merge deletes when it takes back n blocks from buffers
\* that are all full; it strips the rest from the one before.
TakenBack(n) == n \div BufBlocks

\* No memory for a buffer after n blocks got a place.  What the merge counted for
\* the index blocks so far goes with the buffers it deletes.  An end of
\* transaction then undoes the operation, a checkpoint only fails.
merge_fails ==
    /\ Step("merge")
    /\ "nomem" \in Calls
    /\ \E n \in 0..(Len(Fresh) - 1) :
         LET old    == Len(Current.blocks)
             nIndex == Buffers(old + n) - Buffers(old)
         IN  /\ (old + n) % BufBlocks = 0
             /\ trans' = [trans EXCEPT ![Len(trans)].count = @ + nIndex - TakenBack(n)]
             /\ nOldBlockCount' = nOldBlockCount + nIndex - TakenBack(n)
             /\ nPendingLog' = nPendingLog + nIndex - TakenBack(n)
    /\ todo' = IF Last(todo) = "end" THEN <<"revert">> \o Tail(todo) ELSE <<>>
    /\ InMemory
    /\ UNCHANGED <<sb, newBlocks, hash, started, leave, fileBlocks, nextId>>

\* Blocks no transaction holds leave the hash table, the others go back to
\* what their transaction holds.
afs_discard_transactions ==
    /\ Step("revert")
    /\ hash' = [b \in Block |->
                  IF b \notin Range(newBlocks) THEN hash[b]
                  ELSE IF hash[b].buffer = NoBuffer THEN NoEntry
                  ELSE [hash[b] EXCEPT !.new = 0]]
    /\ newBlocks' = <<>>
    /\ fileBlocks' = fileBlocks \ leave.got
    /\ leave' = [leave EXCEPT !.got = {}]
    /\ todo' = Tail(todo)
    /\ InMemory
    /\ UNCHANGED <<sb, trans, nOldBlockCount, nPendingLog, started, nextId>>

transaction_ended ==
    /\ Step("end")
    /\ started' = FALSE
    /\ todo' = Tail(todo)
    /\ InMemory
    /\ UNCHANGED <<sb, trans, nOldBlockCount, nPendingLog, newBlocks, hash, leave,
                   fileBlocks, nextId>>
-----------------------------------------------------------------------------
(* Unmount, crash, mount and replay.                                       *)

\* The volume is not in memory any more.  Which blocks hold file data is on
\* disk and is not followed across a mount.
Gone ==
    /\ mode' = "down"
    /\ trans' = <<>>
    /\ nOldBlockCount' = 0
    /\ nPendingLog' = 0
    /\ newBlocks' = <<>>
    /\ hash' = [b \in Block |-> NoEntry]
    /\ started' = FALSE
    /\ todo' = <<>>
    /\ leave' = [blk |-> 0, run |-> 0, got |-> {}]
    /\ replay' = [pos |-> 0, left |-> 0, idx |-> <<>>]
    /\ cache' = [b \in Block |-> Clean]
    /\ fileBlocks' = {}
    /\ UNCHANGED <<superblock, nLoggStart, sb, nextId, nCalls>>

unmounted ==
    /\ Step("unmount")
    /\ Gone
    /\ UNCHANGED <<disk, nCrash>>

\* Power is lost at any point.
Crash ==
    /\ nCrash < MaxCrash /\ nCrash' = nCrash + 1
    /\ mode # "down"
    /\ Gone
    /\ UNCHANGED disk

\* ... also in the middle of a write to the log, of which any part may have
\* reached the disk.
CrashInLogWrite ==
    /\ nCrash < MaxCrash /\ nCrash' = nCrash + 1
    /\ Step("log") /\ HasOpen
    /\ \E done \in SUBSET DOMAIN LogWrites(Current) :
         disk' = Overwritten([a \in done |-> LogWrites(Current)[a]])
    /\ Gone

afs_mount ==
    /\ mode = "down"
    /\ sb' = superblock
    /\ nLoggStart' = superblock.start
    /\ mode' = IF superblock.valid = 0 THEN "mounted" ELSE "replay"
    /\ replay' = [pos |-> superblock.start, left |-> superblock.valid, idx |-> <<>>]
    /\ UNCHANGED <<disk, superblock, trans, nOldBlockCount, nPendingLog, newBlocks, hash,
                   started, leave, fileBlocks, nextId, todo, cache, nCalls, nCrash>>

\* Mutant: only index blocks are counted.
replay_counts_index ==
    /\ mode = "replay"
    /\ \/ /\ replay.idx = <<>> /\ replay.left > 0
          /\ replay' = [pos  |-> LogPos(replay.pos, nLoggStart, nLoggEnd, 1),
                        left |-> replay.left - 1,
                        idx  |-> disk[replay.pos].idx]
          /\ UNCHANGED disk
       \/ /\ replay.idx # <<>>
          /\ replay' = [replay EXCEPT !.pos = LogPos(@, nLoggStart, nLoggEnd, 1),
                                      !.idx = Tail(@)]
          /\ disk' = [disk EXCEPT ![Head(replay.idx)] = disk[replay.pos]]
    /\ UNCHANGED <<superblock, mode, volume, todo, cache, nCalls, nCrash>>

\* One block of the log: an index block, or a block the index names.
afs_replay_log ==
    /\ mode = "replay"
    /\ \/ /\ replay.idx = <<>> /\ replay.left > 0
          /\ replay' = [pos  |-> LogPos(replay.pos, nLoggStart, nLoggEnd, 1),
                        left |-> replay.left - 1,
                        idx  |-> disk[replay.pos].idx]
          /\ UNCHANGED disk
       \/ /\ replay.idx # <<>>
          /\ replay' = [pos  |-> LogPos(replay.pos, nLoggStart, nLoggEnd, 1),
                        left |-> replay.left - 1,
                        idx  |-> Tail(replay.idx)]
          /\ disk' = [disk EXCEPT ![Head(replay.idx)] = disk[replay.pos]]
    /\ UNCHANGED <<superblock, mode, volume, todo, cache, nCalls, nCrash>>

replay_done ==
    /\ mode = "replay"
    /\ replay.idx = <<>> /\ replay.left = 0
    /\ mode' = "mounted"
    /\ sb' = [start |-> nLoggStart, valid |-> 0]
    /\ superblock' = sb'
    /\ replay' = [pos |-> 0, left |-> 0, idx |-> <<>>]
    /\ UNCHANGED <<disk, nLoggStart, trans, nOldBlockCount, nPendingLog, newBlocks, hash,
                   started, leave, fileBlocks, nextId, todo, cache, nCalls, nCrash>>
-----------------------------------------------------------------------------
FileSystemCall ==
    \/ afs_begin_transaction
    \/ \E b \in Block : afs_logged_write(b)
    \/ \E bSubmitChanges \in BOOLEAN : afs_end_transaction(bSubmitChanges)
    \/ afs_checkpoint_journal
    \/ \E b \in Block : afs_wait_for_block_to_leave_log(b)
    \/ afs_sync
    \/ afs_unmount

CallStep ==
    \/ flush_device_cache
    \/ afs_force_flush_transaction
    \/ write_log_blocks
    \/ write_log_superblock
    \/ write_logged_blocks
    \/ count_written_block
    \/ written_to_disk
    \/ afs_discard_flushed_journal_entries
    \/ afs_wait_for_log_space
    \/ wait_for_block_to_leave_log_round
    \/ create_next_transaction
    \/ afs_merge_transactions
    \/ merge_fails
    \/ afs_discard_transactions
    \/ transaction_ended
    \/ unmounted

Mount == afs_mount \/ afs_replay_log \/ replay_done

Next ==
    \/ FileSystemCall
    \/ afs_journal_flusher
    \/ CallStep
    \/ \E b \in Block : cache_flusher(b)
    \/ Mount
    \/ Crash
    \/ CrashInLogWrite

Spec == Init /\ [][Next]_vars

\* The threads of the journal and of the cache keep running, and a transaction
\* that was begun is ended.
Fairness ==
    /\ WF_vars(CallStep)
    /\ WF_vars(afs_end_transaction(TRUE))
    /\ WF_vars(afs_journal_flusher)
    /\ \A b \in Block : WF_vars(cache_flusher(b))
    /\ WF_vars(Mount)

FairSpec == Spec /\ Fairness
-----------------------------------------------------------------------------
(* Properties.                                                             *)

StepNames == {"log", "super", "create", "todisk", "count", "force", "discard", "space",
              "merge", "revert", "end", "leave", "flush", "drain", "unmount"}

\* The values of the state, as the code declares them.
TypeOK ==
    /\ disk \in [Addr -> [val : Int, idx : Seq(Block)]]
    /\ superblock \in [start : Nat, valid : Nat]
    /\ mode \in {"mounted", "down", "replay", "panic in callback", "panic in log"}
    /\ nLoggStart \in Nat
    /\ sb \in [start : Nat, valid : Nat]
    /\ trans \in Seq(Transaction)
    /\ nOldBlockCount \in Nat /\ nPendingLog \in Nat
    /\ newBlocks \in Seq(Block)
    /\ hash \in [Block -> Entry]
    /\ started \in BOOLEAN
    /\ todo \in Seq(StepNames)
    /\ leave \in [blk : {0} \cup Block, run : 0..3, got : SUBSET Block]
    /\ replay \in [pos : Nat, left : Int, idx : Seq(Block)]
    /\ cache \in [Block -> [dirty : BOOLEAN, val : Nat, func : Nat]]
    /\ fileBlocks \subseteq Block
    /\ nextId \in Nat \ {0} /\ nCalls \in Nat /\ nCrash \in Nat

\* The step that comes next, and whether the running call holds one.
At(name) == todo # <<>> /\ Head(todo) = name
Ahead(name) == \E i \in 1..Len(todo) : todo[i] = name

\* The log as a sequence: position i of the valid range, counted from 0, and
\* the blocks its index still names there.
ValidPos(i) == LogPos(superblock.start, 1, LogSize, i)

Named ==
    LET rest[i \in 0..superblock.valid] ==
          IF i = 0 THEN <<>>
          ELSE IF rest[i - 1] = <<>> THEN disk[ValidPos(i - 1)].idx
          ELSE Tail(rest[i - 1])
    IN  rest

\* What replaying the valid range of the log leaves in every block.
Recovered ==
    [b \in Block |->
       LET named  == Named
           copies == {i \in 0..(superblock.valid - 1) :
                        named[i] # <<>> /\ Head(named[i]) = b}
       IN  IF copies = {} THEN disk[b].val
           ELSE disk[ValidPos(CHOOSE i \in copies : \A j \in copies : j <= i)].val]

InMemoryState == mode \notin {"down", "replay"}

Committed ==
    [b \in Block |->
       IF ~InMemoryState THEN Recovered[b]
       ELSE IF hash[b].present /\ LiveBuffer(hash[b].buffer) THEN BufferRead(hash[b].buffer)
       ELSE CachedRead(b)]

Visible == [b \in Block |-> IF InMemoryState THEN afs_logged_read(b) ELSE Recovered[b]]

\* The journal implements the durable store: reads see every write at once,
\* an operation is undone or kept as a whole, and whenever the machine stops
\* the log and the blocks on disk together hold a committed state.
Store == INSTANCE DurableStore WITH
           Value <- 0..MaxCalls, mem <- Visible, committed <- Committed, durable <- Recovered
StoreSpec == Store!Spec

\* What the steps that are left look like: a log write and a handover of a
\* block are finished first; a merge comes right after its wait for space and
\* the last flush after the wait for an empty log; a transaction that is
\* written to the log under a running operation is followed by a new one.
CallShape ==
    /\ \A i \in 2..Len(todo) :
         /\ todo[i] \notin {"count", "super"}
         /\ todo[i] = "merge" => todo[i - 1] = "space"
         /\ todo[i] = "flush" => todo[i - 1] = "drain"
    /\ \A i \in 1..Len(todo) :
         /\ todo[i] \in {"end", "unmount", "leave"} => i = Len(todo)
         /\ todo[i] \in {"create", "space", "merge", "revert", "leave", "end"} => started
         /\ started /\ todo[i] \in {"log", "super"} => \E j \in i..Len(todo) : todo[j] = "create"
         /\ todo[i] = "create" =>
              \A j \in 1..(i - 1) : \/ todo[j] \in {"todisk", "count"}
                                    \/ j = 1 /\ todo[j] \in {"log", "super"}
    /\ Ahead("leave") => leave.blk # 0

\* A running operation has a transaction to merge into, and the next step
\* finds what it relies on.
StepsReady ==
    /\ started /\ ~Ahead("create") => HasOpen
    /\ Ahead("create") => (HasOpen <=> At("log") \/ At("super"))
    /\ At("super") => HasOpen
    /\ At("count") => NeedsDisk /\ Oldest.written < Len(Oldest.blocks)
    /\ At("merge") => nPendingLog + Len(newBlocks) + Reserve <= LogSize
    /\ At("flush") /\ Tail(todo) \in {<<>>, <<"unmount">>} => nPendingLog = 0

\* The counters agree with the lists they count, and the log is never
\* promised to more blocks than it has.
CountsAgree ==
    /\ \A i \in 1..Len(trans) : trans[i].count = Len(LogImage(trans[i].blocks))
    /\ nOldBlockCount = IF HasOpen THEN Current.count ELSE 0
    /\ nPendingLog = LogSums(trans)[Len(trans) + 1]
    /\ nPendingLog <= LogSize

\* Transactions go to the log and to the cache in their order, one after the
\* other, and each starts in the log where the one before it ends.
ListInOrder ==
    /\ \A i \in 1..Len(trans) :
         /\ trans[i].id \in 1..(nextId - 1)
         /\ trans[i].start \in nLoggStart..nLoggEnd
         /\ trans[i].written <= Len(trans[i].blocks)
         /\ trans[i].written > 0 \/ trans[i].ondisk => i = 1 /\ trans[i].logged
         /\ trans[i].ondisk => trans[i].written = Len(trans[i].blocks)
    /\ \A i \in 2..Len(trans) :
         /\ trans[i - 1].logged
         /\ trans[i - 1].id < trans[i].id
         /\ trans[i].start = LogPos(trans[i - 1].start, nLoggStart, nLoggEnd, trans[i - 1].count)

\* The blocks of the oldest transaction that were handed to the cache.
Handed == IF trans = <<>> THEN 0 ELSE Oldest.written + (IF At("count") THEN 1 ELSE 0)

\* The cache is dirty with blocks of the oldest transaction only, the callbacks
\* still to come are counted, and what was handed over is what the cache reads.
CacheFollows ==
    /\ \A b \in Block : cache[b].dirty => cache[b].func # 0
    /\ \A b \in Block : cache[b].func # 0 =>
         /\ cache[b].dirty
         /\ trans # <<>> /\ cache[b].func = Oldest.id
         /\ \E p \in 1..Handed : BufferOrder(Oldest.blocks)[p].blk = b
    /\ \A p \in 1..Handed :
         CachedRead(BufferOrder(Oldest.blocks)[p].blk) = BufferOrder(Oldest.blocks)[p].val
    /\ \A i \in 1..Len(trans) :
         trans[i].pending + (IF i = 1 /\ At("count") THEN 1 ELSE 0)
           = Cardinality({b \in Block : cache[b].func = trans[i].id})

\* No block has two copies in one transaction: a replay would keep the older.
OneCopyPerBlock ==
    \A i \in 1..Len(trans) : \A j, k \in 1..Len(trans[i].blocks) :
      trans[i].blocks[j].blk = trans[i].blocks[k].blk => j = k

\* The entry of a block that the open operation wrote has its new content, and
\* he_pBuffer is the newest copy in a transaction until that one is in the cache.
Holds(i, b) == \E j \in 1..Len(trans[i].blocks) : trans[i].blocks[j].blk = b
Newest(i, b) == \A k \in (i + 1)..Len(trans) : ~Holds(k, b)

HashFollows ==
    /\ \A i, j \in 1..Len(newBlocks) : newBlocks[i] = newBlocks[j] => i = j
    /\ \A b \in Block :
         /\ hash[b].new # 0 <=> \E i \in 1..Len(newBlocks) : newBlocks[i] = b
         /\ ~hash[b].present => hash[b] = NoEntry
         /\ hash[b].present => hash[b].new # 0 \/ hash[b].buffer # NoBuffer
         /\ hash[b].buffer # NoBuffer /\ hash[b].trans # 0 => hash[b].buffer[1] = hash[b].trans
         /\ hash[b].buffer # NoBuffer => hash[b].buffer[1] \in 1..(nextId - 1)
         /\ hash[b].trans < nextId
    /\ \A b \in Block : \A i \in 1..Len(trans) :
         /\ hash[b].buffer[1] = trans[i].id =>
              /\ hash[b].buffer[2] \in 1..Len(trans[i].blocks)
              /\ trans[i].blocks[hash[b].buffer[2]].blk = b
              /\ Newest(i, b)
         /\ Holds(i, b) /\ Newest(i, b) /\ ~trans[i].ondisk =>
              hash[b].trans = trans[i].id /\ hash[b].buffer[1] = trans[i].id

\* What is written to the log of a transaction is on disk.
InLog(t) ==
    \A p \in 1..Len(LogImage(t.blocks)) :
      disk[LogPos(t.start, nLoggStart, nLoggEnd, p - 1)] = LogImage(t.blocks)[p]

\* The valid range of the log, as the superblock on disk gives it, holds
\* exactly the logged transactions that are not yet in place, in order: the
\* log never runs into its own tail and no space is given back early.
LogHoldsUnflushed ==
    mode = "mounted" =>
      /\ superblock = sb
      /\ superblock.valid = LogSums(trans)[Len(trans) + (IF HasOpen THEN 0 ELSE 1)]
      /\ \A i \in 1..Len(trans) : trans[i].logged =>
           \A p \in 1..Len(LogImage(trans[i].blocks)) :
             disk[ValidPos(LogSums(trans)[i] + p - 1)] = LogImage(trans[i].blocks)[p]

\* ... and so does a volume that has stopped with a panic; between the write of
\* the log blocks and that of the superblock the open one is there as well.
LogInPlace ==
    InMemoryState =>
      /\ superblock = sb
      /\ superblock.valid = LogSums(trans)[Len(trans) + (IF HasOpen THEN 0 ELSE 1)]
      /\ superblock.start = IF trans = <<>> THEN nLoggStart ELSE Oldest.start
      /\ \A i \in 1..Len(trans) : trans[i].logged => InLog(trans[i])
      /\ At("super") => InLog(Current)

\* A volume that is not mounted has nothing in memory, and a replay stays in
\* the log.
NothingInMemory ==
    /\ ~InMemoryState => trans = <<>> /\ newBlocks = <<>> /\ todo = <<>> /\ ~started
    /\ mode = "replay" => replay.pos \in nLoggStart..nLoggEnd

\* What the journal relies on between its steps.
Inv ==
    /\ TypeOK
    /\ CallShape
    /\ StepsReady
    /\ CountsAgree
    /\ ListInOrder
    /\ CacheFollows
    /\ OneCopyPerBlock
    /\ HashFollows
    /\ LogInPlace
    /\ NothingInMemory

\* How much of the valid range a replay has read.
Replayed == superblock.valid - replay.left

\* What a mount finds in the valid range is index blocks, each followed by all
\* the blocks it names.  A replay reads it in that order, and what it has read
\* of a block last is in its place.
ReplayFollows ==
    ~InMemoryState =>
      /\ superblock.start \in 1..LogSize /\ superblock.valid <= LogSize
      /\ Named[superblock.valid] = <<>>
      /\ \A i \in 0..(superblock.valid - 1) : Named[i] = <<>> => disk[ValidPos(i)].idx # <<>>
      /\ mode = "replay" =>
           /\ replay.left \in 0..superblock.valid
           /\ replay.pos = ValidPos(Replayed)
           /\ replay.idx = Named[Replayed]
           /\ \A i \in 0..(Replayed - 1) :
                /\ Named[i] # <<>>
                /\ \A j \in (i + 1)..(Replayed - 1) :
                     Named[j] # <<>> => Head(Named[j]) # Head(Named[i])
                => disk[Head(Named[i])].val = disk[ValidPos(i)].val

\* afs_sync and afs_unmount return with every committed block in its place.
Synced == \A b \in Block : disk[b].val = Committed[b]
SyncWritesEverything ==
    [][Step("flush") /\ Tail(todo) \in {<<>>, <<"unmount">>} /\ todo' = Tail(todo)
         => Synced']_vars

\* A replay reads as index blocks only blocks that were written as such.
ReplayReadsIndex ==
    mode = "replay" /\ replay.idx = <<>> /\ replay.left > 0 => disk[replay.pos].idx # <<>>

\* The log stays in the area the format set aside for it.
LogStaysInItsArea == nLoggStart = 1

\* at_nPendingLogBlocks does not go below zero.
NoCallbackPanic == mode # "panic in callback"

\* A write to the log never meets an empty run at the end of the log.
NoEmptyRun == mode # "panic in log"

\* A read never goes through a pointer into a freed transaction buffer.
ReadsLiveBuffer ==
    \A b \in Block : hash[b].present /\ hash[b].new = 0 => LiveBuffer(hash[b].buffer)

\* A block handed out for file data is no longer in the journal.
FileBlockLeftLog ==
    mode = "mounted" =>
      \A i \in 0..(superblock.valid - 1) : Named[i] # <<>> => Head(Named[i]) \notin fileBlocks

\* A call waits for a block that its own operation wrote.  Writing the current
\* transaction to the log does not help: the block is not in it, and
\* written_to_disk keeps its hash entry, so the loop has no end.
WaitsForItself == leave.blk # 0 /\ hash[leave.blk].new # 0

\* Every call ends, unless the machine stops or an operation waits for a block it
\* wrote itself.
CallEnds == todo # <<>> ~> todo = <<>> \/ mode # "mounted" \/ WaitsForItself

\* What is committed becomes durable and leaves the log, unless the machine stops
\* or an operation waits for a block it wrote itself.
LogDrains ==
    []<>(\/ mode # "mounted" \/ WaitsForItself
         \/ Recovered = Committed /\ superblock.valid = 0)
=============================================================================
