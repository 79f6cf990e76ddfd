----------------------------- MODULE BlockCache ------------------------------
(***************************************************************************)
(* The block cache: kernel/kernel/bcache.c, for one device.                *)
(*                                                                         *)
(* bc_hLock is held while a call looks at the cache, so each such stretch  *)
(* is one step; it is not held during device I/O, while a caller copies    *)
(* data, and while lookup_block waits for a block that is CBF_BUSY.        *)
(*                                                                         *)
(* Users are threads inside a file system.  A file system locks its inodes *)
(* and journal lists, so that a block has many readers or one writer.      *)
(* Flushers are the threads that write back and release: bcache_flusher,   *)
(* threads that sync, unmount or wait for log space, and threads that run  *)
(* out of memory.  The heaps of bcalloc.c are external: an allocation      *)
(* succeeds at once or after a window without the lock, and what           *)
(* alloc_cache_blocks releases in that window a Flusher releases here.     *)
(***************************************************************************)
EXTENDS Integers, FiniteSets

CONSTANTS
  Users, Flushers,  \* threads
  NBlocks,          \* de_nBlockCount
  Data,             \* what a block can hold
  Garbage,          \* the contents of a block that was only allocated
  BC_FLUSH_SIZE,    \* blocks in one list of a flush
  MaxReadahead,     \* blocks in one read
  Writes,           \* how users write each block: a function to sets of Ways
  Jobs,             \* what each flusher does: a function to sets of Kinds
  BadBlocks,        \* blocks the device may fail to write
  MaxCalls          \* bound on the calls of all users

Blocks  == 0..(NBlocks - 1)
Threads == Users \cup Flushers
Ways    == {"get_cache_block", "get_empty_block", "cached_write", "write_logged_blocks"}
Kinds   == {"cache_flusher", "flush_device_cache", "flush_cache_block", "release_cache_blocks"}

ASSUME BlockCacheTypes ==
  /\ Users \cap Flushers = {} /\ IsFiniteSet(Users)
  /\ NBlocks \in Nat \ {0} /\ BC_FLUSH_SIZE \in Nat \ {0} /\ MaxReadahead \in Nat \ {0}
  /\ MaxReadahead <= BC_FLUSH_SIZE
  /\ Garbage \notin Data /\ Data # {}
  /\ Writes \in [Blocks -> SUBSET Ways]
  /\ Jobs \in [Flushers -> SUBSET Kinds]
  /\ BadBlocks \subseteq Blocks /\ MaxCalls \in Nat

VARIABLES
  disk,           \* what the device holds
  cb,             \* the cache blocks by number: CacheBlock_s and its data
  bc_sNormal,     \* the blocks in the list of unlocked blocks
  older,          \* the order of that list: the first of each pair comes first
  bc_sLocked,     \* the blocks in the list of locked blocks
  bc_nDirtyCount,
  pc,             \* where a thread is
  job,            \* what a flusher is doing
  nBlock,         \* the block a user asked for
  bWrite,         \* does it hold the file system's lock for writing?
  pBuffer,        \* what it is about to write
  list,           \* pasIoList, apsBlockList: the blocks a thread works on, sorted
  left,           \* the part of list that flush_block_list has not seen yet
  psBuffer,       \* the block where the iteration of a flush goes on
  calls,          \* how many calls the users made
  saved,          \* history: the blocks of its list a flusher has written
  written         \* history: what a block may hold: what was last written to it

lists == <<bc_sNormal, older, bc_sLocked>>
user  == <<nBlock, bWrite, pBuffer, calls>>
flush == <<job, left, psBuffer, saved>>
vars  == <<disk, cb, lists, bc_nDirtyCount, pc, user, list, flush, written>>

NoBlock == -1

\* A number that is not in the hash table.
Absent ==
  [hashed |-> FALSE, data |-> Garbage, dirty |-> FALSE, busy |-> FALSE, ref |-> 0, func |-> FALSE]

Init ==
  /\ disk \in [Blocks -> {CHOOSE d \in Data : TRUE}]
  /\ cb = [b \in Blocks |-> Absent]
  /\ bc_sNormal = {} /\ older = {} /\ bc_sLocked = {} /\ bc_nDirtyCount = 0
  /\ pc = [t \in Threads |-> "idle"]
  /\ job = [t \in Flushers |-> "none"]
  /\ nBlock = [t \in Users |-> NoBlock]
  /\ bWrite = [t \in Users |-> FALSE]
  /\ pBuffer = [t \in Users |-> Garbage]
  /\ list = [t \in Threads |-> {}]
  /\ left = [t \in Flushers |-> {}]
  /\ psBuffer = [t \in Flushers |-> NoBlock]
  /\ calls = 0
  /\ saved = [t \in Flushers |-> {}]
  /\ written = [b \in Blocks |-> {disk[b]}]

-----------------------------------------------------------------------------
(* Lists and locks.                                                        *)

\* The list without the blocks of S, and with the blocks of S, in ascending
\* order, at its head.
Unlinked(S) ==
  /\ bc_sNormal' = bc_sNormal \ S
  /\ older' = {p \in older : p[1] \notin S /\ p[2] \notin S}
Linked(S) ==
  /\ bc_sNormal' = bc_sNormal \cup S
  /\ older' = older \cup (bc_sNormal \X S) \cup {p \in S \X S : p[1] < p[2]}

\* The first n of the blocks of E, and the first one, in the order of the list.
First(E, n) == {b \in E : Cardinality({a \in E : <<a, b>> \in older}) < n}
Oldest(E) == {b \in E : \A a \in E : <<a, b>> \notin older}

\* The file system lets t use b: nobody else is there, or all only read.
MayUse(t, b, w) ==
  \A u \in Users \ {t} : nBlock[u] = b => ~w /\ ~bWrite[u]

\* A call of t on b begins in place, or ends.
Begins(t, b, w, v, place) ==
  /\ pc[t] = "idle" /\ calls < MaxCalls /\ MayUse(t, b, w)
  /\ calls' = calls + 1
  /\ nBlock' = [nBlock EXCEPT ![t] = b]
  /\ bWrite' = [bWrite EXCEPT ![t] = w]
  /\ pBuffer' = [pBuffer EXCEPT ![t] = v]
  /\ pc' = [pc EXCEPT ![t] = place]

Ends(t) ==
  /\ pc' = [pc EXCEPT ![t] = "idle"]
  /\ nBlock' = [nBlock EXCEPT ![t] = NoBlock]
  /\ bWrite' = [bWrite EXCEPT ![t] = FALSE]
  /\ pBuffer' = [pBuffer EXCEPT ![t] = Garbage]
  /\ UNCHANGED calls

Moves(t, place) == pc' = [pc EXCEPT ![t] = place] /\ UNCHANGED user

\* lookup_block waits while the block, or a guard in its place, is busy.
Hit(b)  == cb[b].hashed /\ ~cb[b].busy
Miss(b) == ~cb[b].hashed

\* A block that was found is locked.
LockFound(b) ==
  /\ Unlinked({b})
  /\ bc_sLocked' = bc_sLocked \cup {b}

\* An entry with one reference more, and one less.
Locked(e)   == [e EXCEPT !.ref = @ + 1]
Unlocked(e) == [e EXCEPT !.ref = @ - 1]

\* A block that loses its last reference goes to the head of bc_sNormal.
Unlock(b) ==
  IF cb[b].ref = 1
  THEN Linked({b}) /\ bc_sLocked' = bc_sLocked \ {b}
  ELSE UNCHANGED lists

\* The blocks that get dirty in a step count.
CountDirty == bc_nDirtyCount' = bc_nDirtyCount + Cardinality({b \in Blocks : cb'[b].dirty /\ ~cb[b].dirty})

-----------------------------------------------------------------------------
(* Reading a block into the cache: get_cache_block.                        *)

\* No block from i to j is cached.
Uncached(i, j) == \A k \in i..j : k \in Blocks /\ ~cb[k].hashed

\* Mutant: the blocks before b are not looked up.
ReadRanges_blind(b, n) ==
  {{k \in Blocks : b - n < k /\ k < b + n /\ (k > b => Uncached(b + 1, k))}}

\* The blocks to read with b, n in all: forward as far as nothing is cached, then
\* backward.  The scan goes on behind the end of the device, over blocks that
\* nobody can ask for and that may be cached or not, so there only m of the n
\* are on the device.
ReadRanges(b, n) ==
  {p[1]..p[2] : p \in
     {r \in (0..b) \X (b..(NBlocks - 1)) :
        LET lo == r[1]
            hi == r[2]
        IN  /\ hi < b + n /\ Uncached(b + 1, hi)
            /\ hi = b + n - 1 \/ ~Uncached(b + 1, hi + 1)
            /\ \E m \in IF hi = NBlocks - 1 THEN (hi - b + 1)..n ELSE {n} :
                 /\ lo > hi - m /\ Uncached(lo, b - 1)
                 /\ lo = hi - m + 1 \/ ~Uncached(lo - 1, b - 1)}}

\* An allocation that has to wait leaves a guard, a busy entry, in the table.
Guard == [Absent EXCEPT !.hashed = TRUE, !.busy = TRUE]

\* The blocks of R are put into the table, busy, and b is locked.
Load(t, b, R) ==
  /\ cb' = [k \in Blocks |-> IF k \notin R THEN cb[k]
                             ELSE [Guard EXCEPT !.ref = IF k = b THEN 1 ELSE 0]]
  /\ Linked(R \ {b})
  /\ bc_sLocked' = bc_sLocked \cup {b}
  /\ list' = [list EXCEPT ![t] = R]

get_cache_block(t, b) ==
  /\ \E w \in BOOLEAN :
       /\ w => "get_cache_block" \in Writes[b]
       /\ \/ /\ Hit(b) /\ Begins(t, b, w, Garbage, "held")
             /\ cb' = [cb EXCEPT ![b] = Locked(@)] /\ LockFound(b)
             /\ UNCHANGED list
          \/ /\ Miss(b) /\ Begins(t, b, w, Garbage, "read")
             /\ \E R \in ReadRanges(b, MaxReadahead) : Load(t, b, R)
          \/ /\ Miss(b) /\ Begins(t, b, w, Garbage, "guarded")
             /\ cb' = [cb EXCEPT ![b] = Guard]
             /\ UNCHANGED <<lists, list>>
  /\ UNCHANGED <<disk, bc_nDirtyCount, flush, written>>

\* After the wait the range is searched again, for the number n of blocks that
\* could be allocated.
get_cache_block_resume(t) ==
  /\ pc[t] = "guarded"
  /\ \E n \in 1..MaxReadahead : \E R \in ReadRanges(nBlock[t], n) : Load(t, nBlock[t], R)
  /\ Moves(t, "read")
  /\ UNCHANGED <<disk, bc_nDirtyCount, flush, written>>

read_block_list(t) ==
  /\ pc[t] = "read"
  /\ cb' = [b \in Blocks |-> IF b \in list[t] THEN [cb[b] EXCEPT !.data = disk[b]] ELSE cb[b]]
  /\ Moves(t, "loaded")
  /\ UNCHANGED <<disk, lists, bc_nDirtyCount, list, flush, written>>

get_cache_block_loaded(t) ==
  /\ pc[t] = "loaded"
  /\ cb' = [b \in Blocks |-> IF b \in list[t] THEN [cb[b] EXCEPT !.busy = FALSE] ELSE cb[b]]
  /\ list' = [list EXCEPT ![t] = {}]
  /\ Moves(t, "held")
  /\ UNCHANGED <<disk, lists, bc_nDirtyCount, flush, written>>

-----------------------------------------------------------------------------
(* Using a block that is held.                                             *)

\* Mutant: the block is not marked.
Marked_not(e) == e

Marked(e) == [e EXCEPT !.dirty = TRUE]

\* The user writes into the block; nobody is told yet.
modify(t) ==
  /\ \/ pc[t] = "held" /\ bWrite[t]
     \/ pc[t] = "empty"
  /\ \E v \in Data :
       /\ cb' = [cb EXCEPT ![nBlock[t]].data = v]
       /\ written' = [written EXCEPT ![nBlock[t]] = {v}]
  /\ Moves(t, "modified")
  /\ UNCHANGED <<disk, lists, bc_nDirtyCount, list, flush>>

mark_blocks_dirty(t) ==
  /\ pc[t] = "modified" /\ ~cb[nBlock[t]].busy
  /\ cb' = [cb EXCEPT ![nBlock[t]] = Marked(@)]
  /\ CountDirty
  /\ Moves(t, "marked")
  /\ UNCHANGED <<disk, lists, list, flush, written>>

release_cache_block(t) ==
  /\ pc[t] \in {"held", "marked"} /\ ~cb[nBlock[t]].busy
  /\ cb' = [cb EXCEPT ![nBlock[t]] = Unlocked(@)]
  /\ Unlock(nBlock[t])
  /\ Ends(t)
  /\ UNCHANGED <<disk, bc_nDirtyCount, list, flush, written>>

-----------------------------------------------------------------------------
(* Writing without reading.                                                *)

\* do_get_empty_block: the locked entry of b, found or allocated.  An
\* allocation that had to wait starts over.
EmptyBlock(b) == Locked(IF cb[b].hashed THEN cb[b] ELSE [Absent EXCEPT !.hashed = TRUE])

get_empty_block(t, b) ==
  /\ "get_empty_block" \in Writes[b]
  /\ ~cb[b].busy /\ Begins(t, b, TRUE, Garbage, "empty")
  /\ cb' = [cb EXCEPT ![b] = EmptyBlock(b)] /\ LockFound(b)
  /\ UNCHANGED <<disk, bc_nDirtyCount, list, flush, written>>

cached_write(t, b, v) ==
  /\ "cached_write" \in Writes[b]
  /\ ~cb[b].busy /\ Begins(t, b, TRUE, v, "copy")
  /\ cb' = [cb EXCEPT ![b] = EmptyBlock(b)] /\ LockFound(b)
  /\ UNCHANGED <<disk, bc_nDirtyCount, list, flush, written>>

\* The memcpy, without the lock.
cached_write_copy(t) ==
  /\ pc[t] = "copy"
  /\ cb' = [cb EXCEPT ![nBlock[t]].data = pBuffer[t]]
  /\ written' = [written EXCEPT ![nBlock[t]] = {pBuffer[t]}]
  /\ Moves(t, "copied")
  /\ UNCHANGED <<disk, lists, bc_nDirtyCount, list, flush>>

\* It keeps the pointer and so does not wait for a busy block.
cached_write_end(t) ==
  /\ pc[t] = "copied"
  /\ cb' = [cb EXCEPT ![nBlock[t]] = Unlocked(Marked(@))]
  /\ CountDirty
  /\ Unlock(nBlock[t])
  /\ Ends(t)
  /\ UNCHANGED <<disk, list, flush, written>>

\* The lock is held throughout.  The kernel stops in the panic on a callback
\* that has not come yet, so nothing follows.  The journal reads and writes the
\* blocks of the log under its own lock; indirect blocks are also read with
\* get_cache_block, without it, and MayUse leaves that overlap out.
write_logged_blocks(t, b, v) ==
  /\ "write_logged_blocks" \in Writes[b]
  /\ pc[t] = "idle" /\ calls < MaxCalls /\ MayUse(t, b, TRUE)
  /\ calls' = calls + 1
  /\ ~cb[b].busy /\ ~cb[b].func
  /\ cb' = [cb EXCEPT ![b] = Unlocked([Marked(EmptyBlock(b)) EXCEPT !.data = v, !.func = TRUE])]
  /\ CountDirty
  /\ IF cb[b].ref = 0
     THEN /\ bc_sNormal' = bc_sNormal \cup {b}
          /\ older' = {p \in older : p[1] # b /\ p[2] # b} \cup ((bc_sNormal \ {b}) \X {b})
     ELSE UNCHANGED <<bc_sNormal, older>>
  /\ written' = [written EXCEPT ![b] = {v}]
  /\ UNCHANGED <<disk, bc_sLocked, pc, nBlock, bWrite, pBuffer, list, flush>>

-----------------------------------------------------------------------------
(* Writing back: flush_block_list and its callers.  left is what its first *)
(* loop still has to look at, in the order of the device.                  *)

SetBusy(S, bool) == [b \in Blocks |-> IF b \in S THEN [cb[b] EXCEPT !.busy = bool] ELSE cb[b]]

\* Flusher t marks the blocks L, and the block where it will go on, and
\* unlocks the cache.
Starts(t, kind, place, L, next) ==
  /\ cb' = SetBusy(L \cup ({next} \ {NoBlock}), TRUE)
  /\ list' = [list EXCEPT ![t] = L]
  /\ left' = [left EXCEPT ![t] = L]
  /\ psBuffer' = [psBuffer EXCEPT ![t] = next]
  /\ job' = [job EXCEPT ![t] = kind]
  /\ pc' = [pc EXCEPT ![t] = place]
  /\ UNCHANGED <<disk, lists, bc_nDirtyCount, user, saved, written>>

\* What the loops over bc_sNormal pick.
Unwritten(b) == ~cb[b].busy /\ cb[b].dirty

\* Mutant: it waits until it can fill a list.
cache_flusher_full(t) ==
  /\ pc[t] = "idle"
  /\ LET E == {b \in bc_sNormal : Unwritten(b)} IN
     /\ Cardinality(E) >= BC_FLUSH_SIZE
     /\ Starts(t, "cache_flusher", "write", First(E, BC_FLUSH_SIZE), NoBlock)

cache_flusher(t) ==
  /\ pc[t] = "idle"
  /\ LET E == {b \in bc_sNormal : Unwritten(b)} IN
     E # {} /\ Starts(t, "cache_flusher", "write", First(E, BC_FLUSH_SIZE), NoBlock)

\* The block where an iteration over E goes on after a list L.
GoesOn(E, L) == IF E \subseteq L THEN {NoBlock} ELSE Oldest(E \ L)

\* flush_device_cache and flush_block_cache.  The next block is marked before
\* the lock is released: "The BUSY flag ensure the current node is not
\* deleted".
flush_device_cache(t) ==
  /\ pc[t] = "idle"
  /\ LET E == {b \in bc_sNormal : Unwritten(b)}
         L == First(E, BC_FLUSH_SIZE)
     IN  E # {} /\ \E next \in GoesOn(E, L) : Starts(t, "flush_device_cache", "write", L, next)

\* Blocks are released whether clean or not; if all are clean they go at once.
release_cache_blocks(t) ==
  /\ pc[t] = "idle"
  /\ LET L == First({b \in bc_sNormal : ~cb[b].busy}, BC_FLUSH_SIZE) IN
     /\ L # {}
     /\ IF \E b \in L : cb[b].dirty
        THEN Starts(t, "release_cache_blocks", "write", L, NoBlock)
        ELSE /\ cb' = [b \in Blocks |-> IF b \in L THEN Absent ELSE cb[b]]
             /\ Unlinked(L)
             /\ UNCHANGED <<disk, bc_sLocked, bc_nDirtyCount, pc, user, list, flush, written>>

\* flush_cache_block also takes the dirty neighbours, locked or not: forward
\* from hi, then backward from lo, until one is clean or missing.  It waits for
\* a busy one, with the blocks it has already marked.
Extends(b) == b \in Blocks /\ cb[b].hashed /\ Unwritten(b)
Waits(b)   == b \in Blocks /\ cb[b].hashed /\ cb[b].busy

Upward(lo, hi) ==
  {h \in hi..(lo + BC_FLUSH_SIZE - 1) :
     /\ \A k \in (hi + 1)..h : Extends(k)
     /\ h = lo + BC_FLUSH_SIZE - 1 \/ ~Extends(h + 1)}
Downward(lo, hi) ==
  {l \in (hi - BC_FLUSH_SIZE + 1)..lo :
     /\ \A k \in l..(lo - 1) : Extends(k)
     /\ l = hi - BC_FLUSH_SIZE + 1 \/ ~Extends(l - 1)}

Extend(t, bForward, lo, hi) ==
  \E h \in IF bForward THEN Upward(lo, hi) ELSE {hi} : \E l \in Downward(lo, h) :
    LET Full(i, j) == j - i + 1 = BC_FLUSH_SIZE
    IN  IF bForward /\ ~Full(lo, h) /\ Waits(h + 1)
        THEN Starts(t, "flush_cache_block", "forward", lo..h, NoBlock)
        ELSE IF ~Full(l, h) /\ Waits(l - 1)
        THEN Starts(t, "flush_cache_block", "backward", l..h, NoBlock)
        ELSE Starts(t, "flush_cache_block", "write", l..h, NoBlock)

flush_cache_block(t, b) ==
  /\ pc[t] = "idle"
  /\ Extends(b)
  /\ Extend(t, TRUE, b, b)

flush_cache_block_resume(t) ==
  \E lo, hi \in list[t] :
    /\ list[t] = lo..hi
    /\ \/ pc[t] = "forward" /\ ~Waits(hi + 1) /\ Extend(t, TRUE, lo, hi)
       \/ pc[t] = "backward" /\ ~Waits(lo - 1) /\ Extend(t, FALSE, lo, hi)

\* The first loop of flush_block_list and writev_pos: locked and clean blocks
\* are passed over.
flush_block_list(t) ==
  /\ pc[t] = "write"
  /\ \E b \in left[t] :
     /\ \A k \in left[t] : b <= k
     /\ \/ /\ left' = [left EXCEPT ![t] = @ \ {b}]
           /\ IF cb[b].ref = 0 /\ cb[b].dirty
              THEN disk' = [disk EXCEPT ![b] = cb[b].data] /\ saved' = [saved EXCEPT ![t] = @ \cup {b}]
              ELSE UNCHANGED <<disk, saved>>
        \/ \* The loop ends with nError < 0, but may have taken up one more block.
           /\ b \in BadBlocks /\ cb[b].ref = 0 /\ cb[b].dirty
           /\ \E S \in {{}} \cup {{k} : k \in left[t] \ {b}} : left' = [left EXCEPT ![t] = S]
           /\ UNCHANGED <<disk, saved>>
  /\ pc' = IF left'[t] = {} THEN [pc EXCEPT ![t] = "clean"] ELSE pc
  /\ UNCHANGED <<cb, lists, bc_nDirtyCount, user, list, job, psBuffer, written>>

\* What the second loop takes for written: also a block that the first loop
\* passed over and cached_write has let go of since, and one whose write failed.
Cleaned(S) == {b \in S : cb[b].dirty /\ cb[b].ref = 0}

flush_block_list_clean(t) ==
  /\ pc[t] = "clean" /\ pc' = [pc EXCEPT ![t] = "end"]
  /\ LET S == Cleaned(list[t]) IN
     /\ cb' = [b \in Blocks |-> IF b \in S THEN [cb[b] EXCEPT !.dirty = FALSE, !.func = FALSE] ELSE cb[b]]
     /\ bc_nDirtyCount' = bc_nDirtyCount - Cardinality(S)
     /\ written' = [b \in Blocks |-> IF b \in S \ saved[t] THEN Data ELSE written[b]]
  /\ saved' = [saved EXCEPT ![t] = {}]
  /\ UNCHANGED <<disk, lists, user, list, job, left, psBuffer>>

\* The lock is taken again.
Idle(t) ==
  /\ pc' = [pc EXCEPT ![t] = "idle"]
  /\ list' = [list EXCEPT ![t] = {}]
  /\ psBuffer' = [psBuffer EXCEPT ![t] = NoBlock]
  /\ job' = [job EXCEPT ![t] = "none"]
  /\ UNCHANGED <<left, saved>>

flush_ends(t) ==
  /\ pc[t] = "end" /\ job[t] # "release_cache_blocks" /\ psBuffer[t] = NoBlock
  /\ cb' = SetBusy(list[t], FALSE)
  /\ Idle(t)
  /\ UNCHANGED <<disk, lists, bc_nDirtyCount, user, written>>

\* flush_device_cache goes on with the block it had reached.
flush_device_cache_resume(t) ==
  /\ pc[t] = "end" /\ psBuffer[t] # NoBlock
  /\ LET E == {b \in bc_sNormal : Unwritten(b) /\ <<psBuffer[t], b>> \in older}
         L == {psBuffer[t]} \cup First(E, BC_FLUSH_SIZE - 1)
     IN  \E next \in GoesOn(E, L) :
           /\ cb' = [b \in Blocks |->
                       IF b \in L \cup {next} THEN [cb[b] EXCEPT !.busy = TRUE]
                       ELSE IF b \in list[t] THEN [cb[b] EXCEPT !.busy = FALSE] ELSE cb[b]]
           /\ list' = [list EXCEPT ![t] = L]
           /\ left' = [left EXCEPT ![t] = L]
           /\ psBuffer' = [psBuffer EXCEPT ![t] = next]
  /\ pc' = [pc EXCEPT ![t] = "write"]
  /\ UNCHANGED <<disk, lists, bc_nDirtyCount, user, job, saved, written>>

release_ends(t) ==
  /\ pc[t] = "end" /\ job[t] = "release_cache_blocks"
  /\ cb' = [b \in Blocks |-> IF b \in list[t] THEN Absent ELSE cb[b]]
  /\ Unlinked(list[t])
  /\ Idle(t)
  /\ UNCHANGED <<disk, bc_sLocked, bc_nDirtyCount, user, written>>

-----------------------------------------------------------------------------
\* Steps of a call that has begun.
UserStep(t) ==
  \/ get_cache_block_resume(t) \/ read_block_list(t) \/ get_cache_block_loaded(t)
  \/ modify(t) \/ mark_blocks_dirty(t) \/ release_cache_block(t)
  \/ cached_write_copy(t) \/ cached_write_end(t)

FlushStep(t) ==
  \/ flush_block_list(t) \/ flush_block_list_clean(t) \/ flush_ends(t)
  \/ flush_device_cache_resume(t) \/ flush_cache_block_resume(t) \/ release_ends(t)

Next ==
  \/ \E t \in Users, b \in Blocks :
       \/ get_cache_block(t, b) \/ get_empty_block(t, b)
       \/ \E v \in Data : cached_write(t, b, v) \/ write_logged_blocks(t, b, v)
  \/ \E t \in Users : UserStep(t)
  \/ \E t \in Flushers :
       \/ FlushStep(t)
       \/ "cache_flusher" \in Jobs[t] /\ cache_flusher(t)
       \/ "flush_device_cache" \in Jobs[t] /\ flush_device_cache(t)
       \/ "release_cache_blocks" \in Jobs[t] /\ release_cache_blocks(t)
       \/ "flush_cache_block" \in Jobs[t] /\ \E b \in Blocks : flush_cache_block(t, b)

Spec == Init /\ [][Next]_vars

\* Every thread that can run runs, lookup_block, which polls, finds a block that
\* is free again and again free once, and bcache_flusher comes round again and
\* again.
Fairness ==
  /\ \A t \in Users : SF_vars(UserStep(t))
  /\ \A t \in Flushers : SF_vars(FlushStep(t))
  /\ \A t \in Flushers : "cache_flusher" \in Jobs[t] => WF_vars(cache_flusher(t))

FairSpec == Spec /\ Fairness

-----------------------------------------------------------------------------
(* Properties.                                                             *)

\* The users that hold b, and the threads that will clear its busy flag.
Holders(b) == {t \in Users : nBlock[t] = b /\ pc[t] # "guarded"}
Owners(b) ==
  {t \in Threads : b \in list[t]} \cup {t \in Users : pc[t] = "guarded" /\ nBlock[t] = b}
    \cup {t \in Flushers : psBuffer[t] = b}

UserPlaces  == {"idle", "guarded", "read", "loaded", "held", "modified", "marked", "empty", "copy", "copied"}
FlushPlaces == {"idle", "forward", "backward", "write", "clean", "end"}

CacheBlock ==
  [hashed : BOOLEAN, data : Data \cup {Garbage}, dirty : BOOLEAN, busy : BOOLEAN, ref : Nat, func : BOOLEAN]

\* The fields and variables have their types.
TypeOK ==
  /\ disk \in [Blocks -> Data]
  /\ cb \in [Blocks -> CacheBlock]
  /\ bc_sNormal \subseteq Blocks /\ bc_sLocked \subseteq Blocks /\ bc_nDirtyCount \in Nat
  /\ pc \in [Threads -> UserPlaces \cup FlushPlaces]
  /\ \A t \in Users : pc[t] \in UserPlaces
  /\ \A t \in Flushers : pc[t] \in FlushPlaces
  /\ job \in [Flushers -> Kinds \cup {"none"}]
  /\ nBlock \in [Users -> Blocks \cup {NoBlock}] /\ bWrite \in [Users -> BOOLEAN]
  /\ pBuffer \in [Users -> Data \cup {Garbage}] /\ calls \in Nat
  /\ list \in [Threads -> SUBSET Blocks] /\ left \in [Flushers -> SUBSET Blocks]
  /\ psBuffer \in [Flushers -> Blocks \cup {NoBlock}]
  /\ saved \in [Flushers -> SUBSET Blocks]
  /\ written \in [Blocks -> SUBSET Data]

\* The list of unlocked blocks is a list: its order is strict and total.
Ordered ==
  /\ older \subseteq bc_sNormal \X bc_sNormal
  /\ \A a, b \in bc_sNormal : <<a, b>> \in older <=> a # b /\ <<b, a>> \notin older
  /\ \A a, b, c \in bc_sNormal : <<a, b>> \in older /\ <<b, c>> \in older => <<a, c>> \in older

\* A user waits for memory, with a guard in place of b.
Guarded(b) == \E t \in Users : pc[t] = "guarded" /\ nBlock[t] = b

\* A block is in the list its reference count calls for and in no other, its
\* count is the number of users that hold it, the dirty blocks are counted, and
\* a number that is not hashed has nothing.
ListsAgree ==
  /\ bc_sNormal = {b \in Blocks : cb[b].hashed /\ cb[b].ref = 0 /\ ~Guarded(b)}
  /\ bc_sLocked = {b \in Blocks : cb[b].ref > 0}
  /\ \A b \in Blocks : cb[b].ref = Cardinality(Holders(b)) /\ (~cb[b].hashed => cb[b] = Absent)
  /\ bc_nDirtyCount = Cardinality({b \in Blocks : cb[b].dirty})

\* A busy block has exactly one thread that will free it, for otherwise
\* lookup_block would wait for ever, or two threads would use its node.
BusyOwned ==
  \A b \in Blocks : IF cb[b].busy THEN \E t \in Threads : Owners(b) = {t} ELSE Owners(b) = {}

\* What a user in a call knows: a block that is read or waits for memory is its
\* own, and whoever writes a block is alone with it.
UserKnows(t) ==
  /\ nBlock[t] = NoBlock <=> pc[t] = "idle"
  /\ pc[t] \notin {"read", "loaded"} => list[t] = {}
  /\ pc[t] \in {"read", "loaded"} => nBlock[t] \in list[t]
  /\ pc[t] = "guarded" => cb[nBlock[t]] = Guard
  /\ \A b \in list[t] : cb[b].hashed /\ Holders(b) \subseteq {t}
  /\ pc[t] \in {"modified", "marked", "empty", "copy", "copied"} => bWrite[t]
  /\ pc[t] = "copy" => pBuffer[t] \in Data
  /\ pc[t] \in {"copy", "copied"} => "cached_write" \in Writes[nBlock[t]]
  /\ bWrite[t] => \A u \in Users \ {t} : nBlock[u] = nBlock[t] => nBlock[t] = NoBlock

UsersKnow == \A t \in Users : UserKnows(t)

\* What a flusher knows: the block where its iteration goes on stays in the
\* list of unlocked blocks while it has not got the lock, and so do the blocks
\* it will release, which are clean when it does.
FlusherKnows(t) ==
  /\ pc[t] = "idle" => list[t] = {}
  /\ pc[t] \notin {"idle", "write"} => pc[t] \in {"forward", "backward"} \/ left[t] = {}
  /\ pc[t] \notin {"write", "clean"} => saved[t] = {}
  /\ left[t] \subseteq list[t] /\ saved[t] \subseteq list[t]
  /\ psBuffer[t] # NoBlock =>
       /\ psBuffer[t] \in bc_sNormal
       /\ pc[t] \in {"write", "clean", "end"} /\ job[t] # "release_cache_blocks"
  /\ job[t] = "release_cache_blocks" =>
       /\ list[t] \subseteq bc_sNormal
       /\ pc[t] = "end" => \A b \in list[t] : ~cb[b].dirty

FlushersKnow == \A t \in Flushers : FlusherKnows(t)

Consistent == TypeOK /\ Ordered /\ ListsAgree /\ BusyOwned /\ UsersKnow /\ FlushersKnow

\* The contents of a block are garbage only while it is being read or
\* overwritten; what is dirty is data, and what the journal waits for is dirty.
BlockFilled(b) ==
  /\ cb[b].hashed /\ cb[b].data = Garbage =>
       \/ Guarded(b)
       \/ \E t \in Users : \/ pc[t] = "read" /\ b \in list[t]
                           \/ pc[t] \in {"empty", "copy"} /\ nBlock[t] = b
  /\ cb[b].dirty => cb[b].data # Garbage
  /\ cb[b].func => cb[b].dirty /\ "write_logged_blocks" \in Writes[b]

\* What a user reads is data, from the device if it has just been read.
UserSees(t) ==
  /\ pc[t] = "read" => \A b \in list[t] : cb[b].data = Garbage
  /\ pc[t] = "loaded" => \A b \in list[t] : cb[b].data = disk[b] /\ ~cb[b].dirty
  /\ pc[t] \in {"held", "modified", "marked", "copied"} => cb[nBlock[t]].data # Garbage

\* What a flusher has written stays as it is until it has noted that.
WrittenStays(t) == \A b \in saved[t] : cb[b].ref = 0 /\ cb[b].dirty /\ disk[b] = cb[b].data

Contents ==
  /\ \A b \in Blocks : BlockFilled(b)
  /\ \A t \in Users : UserSees(t)
  /\ \A t \in Flushers : WrittenStays(t)

Inv == Consistent /\ Contents

\* What a user that asks for b would get, and whether somebody is about to mark it.
Content(b)  == IF cb[b].hashed /\ cb[b].data # Garbage THEN cb[b].data ELSE disk[b]
Changing(b) == \E t \in Users : nBlock[t] = b /\ pc[t] \in {"modified", "copied"}

Kept(b) ==
  /\ Content(b) \in written[b]
  /\ cb[b].hashed /\ cb[b].data # Garbage /\ ~cb[b].dirty /\ disk[b] # cb[b].data =>
       written[b] = Data \/ Changing(b)

\* Whatever is flushed, released and read ahead in the meantime, a block keeps
\* what was last written to it, and a block nobody is changing is dirty or
\* on the device.  It says nothing more of a block that flush_block_list took
\* for written although the device failed or it had passed it over: the code
\* gives such a block up (Cleaned), and it may hold anything.
LastWriteKept == \A b \in Blocks : Kept(b)

\* Once the file system makes no more calls (MaxCalls), the cache settles: every
\* call returns, as nobody waits for ever for a busy block, and every block that
\* was written is clean and, unless the code gave it up, on the device.  So every
\* callback of the journal has come (BlockFilled), for a block given up too.
Settles ==
  <>[](/\ \A t \in Threads : pc[t] = "idle"
       /\ \A b \in Blocks : ~cb[b].dirty /\ ~cb[b].busy /\ disk[b] \in written[b])
=============================================================================
