--------------------------- MODULE BlockCacheProofs --------------------------
(***************************************************************************)
(* Proofs about BlockCache.                                                *)
(***************************************************************************)
EXTENDS BlockCache, FiniteSetTheorems, TLAPS

-----------------------------------------------------------------------------
(* Order, counts and owners.                                               *)

\* Unlinking keeps the list in order.
LEMMA UnlinkedOrdered ==
  ASSUME Ordered, NEW S, Unlinked(S)
  PROVE  Ordered'
BY DEF Ordered, Unlinked

\* Linking new blocks keeps the list in order.
LEMMA LinkedOrdered ==
  ASSUME Ordered, NEW S \in SUBSET Int, S \cap bc_sNormal = {}, Linked(S)
  PROVE  Ordered'
<1>1. older' \subseteq bc_sNormal' \X bc_sNormal'
  BY DEF Ordered, Linked
<1>2. \A a, b \in bc_sNormal' :
        <<a, b>> \in older' <=>
          \/ a \in bc_sNormal /\ b \in bc_sNormal /\ <<a, b>> \in older
          \/ a \in bc_sNormal /\ b \in S
          \/ a \in S /\ b \in S /\ a < b
  BY DEF Ordered, Linked
<1>3. \A a, b \in bc_sNormal' : <<a, b>> \in older' <=> a # b /\ <<b, a>> \notin older'
  <2> TAKE a, b \in bc_sNormal'
  <2>1. a \in bc_sNormal /\ b \in bc_sNormal => (<<a, b>> \in older <=> a # b /\ <<b, a>> \notin older)
    BY DEF Ordered
  <2>2. a \in bc_sNormal \cup S /\ b \in bc_sNormal \cup S
    BY DEF Linked
  <2>3. a \in S => a \in Int /\ a \notin bc_sNormal
    OBVIOUS
  <2>4. b \in S => b \in Int /\ b \notin bc_sNormal
    OBVIOUS
  <2> QED
    BY ONLY <1>2, <2>1, <2>2, <2>3, <2>4, a \in bc_sNormal', b \in bc_sNormal'
<1>4. \A a, b, c \in bc_sNormal' : <<a, b>> \in older' /\ <<b, c>> \in older' => <<a, c>> \in older'
  <2> TAKE a, b, c \in bc_sNormal'
  <2>1. /\ a \in bc_sNormal /\ b \in bc_sNormal /\ c \in bc_sNormal
        /\ <<a, b>> \in older /\ <<b, c>> \in older
        => <<a, c>> \in older
    BY DEF Ordered
  <2>2. a \in S => a \in Int /\ a \notin bc_sNormal
    OBVIOUS
  <2>3. b \in S => b \in Int /\ b \notin bc_sNormal
    OBVIOUS
  <2>4. c \in S => c \in Int /\ c \notin bc_sNormal
    OBVIOUS
  <2> QED
    BY ONLY <1>2, <2>1, <2>2, <2>3, <2>4, a \in bc_sNormal', b \in bc_sNormal', c \in bc_sNormal'
<1> QED
  BY <1>1, <1>3, <1>4 DEF Ordered

\* The owners of blocks, one by one.
Owned ==
  /\ \A b \in Blocks : \A t, u \in Threads : t \in Owners(b) /\ u \in Owners(b) => t = u
  /\ \A b \in Blocks : cb[b].busy <=> \E t \in Threads : t \in Owners(b)

\* BusyOwned with the owners as sets, before and after a step.
LEMMA OwnedIsBusyOwned ==
  (Owned <=> BusyOwned) /\ (Owned' <=> BusyOwned')
<1>1. \A b : Owners(b) \subseteq Threads /\ Owners(b)' \subseteq Threads
  BY DEF Owners, Threads
<1> QED
  BY <1>1 DEF Owned, BusyOwned

\* What a step of t does to the owners if it only takes blocks that are not
\* busy, and frees only blocks of its own.
OwnersMove(t) ==
  /\ \A b \in Blocks : \A u \in Threads \ {t} : u \in Owners(b)' <=> u \in Owners(b)
  /\ \A b \in Blocks : t \in Owners(b)' => cb'[b].busy /\ (~cb[b].busy \/ t \in Owners(b))
  /\ \A b \in Blocks : t \notin Owners(b)' => (cb'[b].busy <=> cb[b].busy /\ t \notin Owners(b))

\* A thread that takes or frees the blocks it owns leaves one owner per busy
\* block.
LEMMA OwnersMoved ==
  ASSUME Owned, NEW t \in Threads, OwnersMove(t)
  PROVE  Owned'
<1>1. \A b \in Blocks : \A u, v \in Threads : u \in Owners(b)' /\ v \in Owners(b)' => u = v
  BY DEF Owned, OwnersMove
<1>2. ASSUME NEW b \in Blocks PROVE cb'[b].busy <=> \E u \in Threads : u \in Owners(b)'
  BY DEF Owned, OwnersMove
<1> QED
  BY <1>1, <1>2 DEF Owned

\* The users of a block can be counted ...
LEMMA HoldersFinite ==
  ASSUME NEW b
  PROVE  IsFiniteSet(Holders(b)) /\ Cardinality(Holders(b)) \in Nat
BY BlockCacheTypes, FS_Subset, FS_CardinalityType DEF Holders

\* ... and so can the blocks.
LEMMA BlocksFinite ==
  /\ IsFiniteSet(Blocks)
  /\ \A S : S \subseteq Blocks => IsFiniteSet(S) /\ Cardinality(S) \in Nat
<1>1. IsFiniteSet(Blocks)
  BY BlockCacheTypes, FS_Interval DEF Blocks
<1> QED
  BY <1>1, FS_Subset, FS_CardinalityType

\* A user gets hold of a block, or lets go of one.
LEMMA HoldersGrow ==
  ASSUME NEW b, NEW t, t \notin Holders(b), Holders(b)' = Holders(b) \cup {t}
  PROVE  Cardinality(Holders(b)') = Cardinality(Holders(b)) + 1
BY HoldersFinite, FS_AddElement

\* A user that lets go of a block lowers the count by one.
LEMMA HoldersShrink ==
  ASSUME NEW b, NEW t, t \in Holders(b), Holders(b)' = Holders(b) \ {t}
  PROVE  /\ Cardinality(Holders(b)') = Cardinality(Holders(b)) - 1
         /\ Cardinality(Holders(b)) >= 1
         /\ Cardinality(Holders(b)) = 1 => Holders(b)' = {}
<1>1. Cardinality(Holders(b)') = Cardinality(Holders(b)) - 1
  BY HoldersFinite, FS_RemoveElement
<1>2. Cardinality(Holders(b)) # 0
  BY HoldersFinite, FS_EmptySet
<1>3. IsFiniteSet(Holders(b)')
  BY HoldersFinite, FS_RemoveElement
<1> QED
  BY <1>1, <1>2, <1>3, HoldersFinite, FS_EmptySet

-----------------------------------------------------------------------------
(* Steps that change only the contents of blocks.                          *)

\* A user that is in a call works on a block.
LEMMA NBlockType ==
  ASSUME Consistent, NEW t \in Users, pc[t] # "idle"
  PROVE  nBlock[t] \in Blocks /\ nBlock[t] # NoBlock
BY DEF Consistent, TypeOK, UsersKnow, UserKnows

\* One entry is replaced.
LEMMA EntrySet ==
  ASSUME cb \in [Blocks -> CacheBlock], NEW k \in Blocks, NEW e \in CacheBlock, cb' = [cb EXCEPT ![k] = e]
  PROVE  /\ cb' \in [Blocks -> CacheBlock] /\ cb'[k] = e /\ cb[k] \in CacheBlock
         /\ \A b \in Blocks \ {k} : cb'[b] = cb[b]
OBVIOUS

\* Marking a block dirty changes that flag only.
LEMMA MarkedFields ==
  ASSUME NEW e \in CacheBlock
  PROVE  /\ Marked(e) \in CacheBlock /\ Marked(e).dirty
         /\ Marked(e).hashed = e.hashed /\ Marked(e).busy = e.busy
         /\ Marked(e).ref = e.ref /\ Marked(e).func = e.func /\ Marked(e).data = e.data
BY DEF Marked, CacheBlock

\* Taking a reference changes the count only.
LEMMA LockedFields ==
  ASSUME NEW e \in CacheBlock
  PROVE  /\ Locked(e) \in CacheBlock /\ Locked(e).ref = e.ref + 1
         /\ Locked(e).hashed = e.hashed /\ Locked(e).busy = e.busy
         /\ Locked(e).dirty = e.dirty /\ Locked(e).func = e.func /\ Locked(e).data = e.data
BY DEF Locked, CacheBlock

\* So does giving it back.
LEMMA UnlockedFields ==
  ASSUME NEW e \in CacheBlock, e.ref > 0
  PROVE  /\ Unlocked(e) \in CacheBlock /\ Unlocked(e).ref = e.ref - 1
         /\ Unlocked(e).hashed = e.hashed /\ Unlocked(e).busy = e.busy
         /\ Unlocked(e).dirty = e.dirty /\ Unlocked(e).func = e.func /\ Unlocked(e).data = e.data
BY DEF Unlocked, CacheBlock

\* CBF_BUSY is a flag of its own.
LEMMA BusyFields ==
  ASSUME NEW e \in CacheBlock, NEW x \in BOOLEAN
  PROVE  /\ [e EXCEPT !.busy = x] \in CacheBlock /\ [e EXCEPT !.busy = x].busy = x
         /\ [e EXCEPT !.busy = x].hashed = e.hashed /\ [e EXCEPT !.busy = x].ref = e.ref
         /\ [e EXCEPT !.busy = x].dirty = e.dirty /\ [e EXCEPT !.busy = x].func = e.func
         /\ [e EXCEPT !.busy = x].data = e.data
BY DEF CacheBlock

\* The fields of the entry that stands for a block being loaded.
LEMMA GuardFields ==
  /\ Guard \in CacheBlock /\ Guard.ref = 0 /\ ~Guard.dirty /\ Guard.busy /\ Guard.hashed
  /\ ~Guard.func /\ Guard.data = Garbage
BY DEF Guard, Absent, CacheBlock

\* A block somebody holds is in the table.
LEMMA HeldHashed ==
  ASSUME Consistent, NEW t \in Users, NEW b \in Blocks, t \in Holders(b)
  PROVE  cb[b].ref \in Nat /\ cb[b].ref > 0 /\ cb[b].hashed
<1>1. cb[b].ref = Cardinality(Holders(b)) /\ (~cb[b].hashed => cb[b] = Absent)
  BY DEF Consistent, ListsAgree
<1>2. Cardinality(Holders(b)) \in Nat /\ Cardinality(Holders(b)) # 0
  BY HoldersFinite, FS_EmptySet
<1> QED
  BY <1>1, <1>2 DEF Absent

\* The first owner is the only one.
LEMMA OwnersUnique ==
  ASSUME Consistent, NEW b \in Blocks, NEW t \in Threads, t \in Owners(b)
  PROVE  cb[b].busy /\ \A u \in Owners(b) : u = t
BY OwnedIsBusyOwned DEF Consistent, Owned, Owners, Threads

\* A guard is nobody else's.
LEMMA GuardAlone ==
  ASSUME Consistent, NEW u \in Users, pc[u] = "guarded"
  PROVE  /\ nBlock[u] \in Blocks /\ cb[nBlock[u]] = Guard /\ Holders(nBlock[u]) = {}
         /\ \A x \in Threads \ {u} : nBlock[u] \notin list[x]
<1>1. nBlock[u] \in Blocks /\ cb[nBlock[u]] = Guard /\ u \in Threads
  BY NBlockType DEF Consistent, UsersKnow, UserKnows, Threads
<1>2. Holders(nBlock[u]) = {}
  BY <1>1, HoldersFinite, FS_EmptySet, GuardFields DEF Consistent, ListsAgree
<1>3. u \in Owners(nBlock[u])
  BY DEF Owners
<1>4. \A x \in Owners(nBlock[u]) : x = u
  BY <1>1, <1>3, OwnersUnique
<1>5. \A x \in Threads \ {u} : nBlock[u] \notin list[x]
  BY <1>4 DEF Owners
<1> QED
  BY <1>1, <1>2, <1>5

\* Entries that differ in the data alone, and only where there is a block.
DataOnly ==
  \A b \in Blocks :
    /\ cb'[b].hashed = cb[b].hashed /\ cb'[b].dirty = cb[b].dirty /\ cb'[b].busy = cb[b].busy
    /\ cb'[b].ref = cb[b].ref /\ cb'[b].func = cb[b].func
    /\ ~cb[b].hashed => cb'[b] = cb[b]

\* A step of a user that changes only data leaves lists, order and owners as
\* they are.
LEMMA DataStep ==
  ASSUME Consistent, NEW t \in Users, NEW place, pc[t] # "guarded", place # "guarded",
         Moves(t, place), DataOnly, UNCHANGED <<lists, bc_nDirtyCount, list, flush>>
  PROVE  Ordered' /\ ListsAgree' /\ BusyOwned' /\ FlushersKnow'
<1> USE DEF Moves, lists, user, flush
<1>1. Ordered'
  BY DEF Consistent, Ordered
<1>2. \A b : Guarded(b)' <=> Guarded(b)
  BY DEF Guarded, Consistent, TypeOK, Threads
<1>3. \A b : Holders(b)' = Holders(b)
  BY DEF Holders, Consistent, TypeOK, Threads
<1>4. \A b : Owners(b)' = Owners(b)
  BY DEF Owners, Consistent, TypeOK, Threads
<1>5. ListsAgree'
  <2>1. {b \in Blocks : cb'[b].dirty} = {b \in Blocks : cb[b].dirty}
    BY DEF DataOnly
  <2>2. {b \in Blocks : cb'[b].ref > 0} = {b \in Blocks : cb[b].ref > 0}
    BY DEF DataOnly
  <2>3. {b \in Blocks : cb'[b].hashed /\ cb'[b].ref = 0 /\ ~Guarded(b)'}
        = {b \in Blocks : cb[b].hashed /\ cb[b].ref = 0 /\ ~Guarded(b)}
    BY <1>2 DEF DataOnly
  <2>4. \A b \in Blocks : cb'[b].ref = Cardinality(Holders(b)') /\ (~cb'[b].hashed => cb'[b] = Absent)
    BY <1>3 DEF DataOnly, Consistent, ListsAgree
  <2> QED
    BY <2>1, <2>2, <2>3, <2>4 DEF Consistent, ListsAgree
<1>6. BusyOwned'
  BY <1>4 DEF Consistent, BusyOwned, DataOnly
<1>7. FlushersKnow'
  <2> SUFFICES ASSUME NEW f \in Flushers PROVE FlusherKnows(f)'
    BY DEF FlushersKnow
  <2>1. pc'[f] = pc[f]
    BY BlockCacheTypes DEF Consistent, TypeOK, Threads
  <2>2. list[f] \subseteq Blocks
    BY DEF Consistent, TypeOK, Threads
  <2>3. FlusherKnows(f)
    BY DEF Consistent, FlushersKnow
  <2> QED
    BY <2>1, <2>2, <2>3 DEF FlusherKnows, DataOnly
<1> QED
  BY <1>1, <1>5, <1>6, <1>7

\* Only t's place changes, in the block it holds.
LEMMA modifyConsistent ==
  ASSUME Consistent, NEW t \in Users, modify(t)
  PROVE  Consistent'
<1> DEFINE b == nBlock[t]
<1>1. b \in Blocks /\ pc[t] \in {"held", "empty"} /\ bWrite[t]
  BY NBlockType DEF modify, Consistent, UsersKnow, UserKnows
<1>2. cb[b].hashed
  BY <1>1, HeldHashed DEF Holders
<1>3. PICK v \in Data : cb' = [cb EXCEPT ![b].data = v]
  BY DEF modify
<1>4. DataOnly /\ cb' \in [Blocks -> CacheBlock]
  BY <1>1, <1>2, <1>3 DEF DataOnly, Consistent, TypeOK, CacheBlock
<1>5. TypeOK'
  BY <1>1, <1>4, BlockCacheTypes DEF modify, Moves, lists, user, flush, Consistent, TypeOK, UserPlaces, Threads
<1>6. Ordered' /\ ListsAgree' /\ BusyOwned' /\ FlushersKnow'
  BY <1>1, <1>4, DataStep DEF modify
<1>7. UsersKnow'
  BY <1>1, <1>4 DEF modify, Moves, user, Consistent, TypeOK, UsersKnow, UserKnows, Threads, Holders, DataOnly
<1> QED
  BY <1>5, <1>6, <1>7 DEF Consistent

\* read_block_list keeps flags, lists, counts and owners consistent.
LEMMA read_block_listConsistent ==
  ASSUME Consistent, NEW t \in Users, read_block_list(t)
  PROVE  Consistent'
<1>1. pc[t] = "read" /\ nBlock[t] \in Blocks
  BY NBlockType DEF read_block_list
<1>2. DataOnly /\ cb' \in [Blocks -> CacheBlock]
  <2>1. \A b \in list[t] : cb[b].hashed
    BY DEF Consistent, UsersKnow, UserKnows
  <2>2. ASSUME NEW b \in Blocks
        PROVE  /\ cb'[b] = IF b \in list[t] THEN [cb[b] EXCEPT !.data = disk[b]] ELSE cb[b]
               /\ cb[b] \in CacheBlock /\ disk[b] \in Data
    BY DEF read_block_list, Consistent, TypeOK
  <2>3. ASSUME NEW b \in Blocks
        PROVE  /\ cb'[b] \in CacheBlock
               /\ cb'[b].hashed = cb[b].hashed /\ cb'[b].dirty = cb[b].dirty /\ cb'[b].busy = cb[b].busy
               /\ cb'[b].ref = cb[b].ref /\ cb'[b].func = cb[b].func
               /\ ~cb[b].hashed => cb'[b] = cb[b]
    BY <2>1, <2>2 DEF CacheBlock
  <2> QED
    BY <2>3 DEF DataOnly, read_block_list
<1>3. TypeOK'
  BY <1>1, <1>2, BlockCacheTypes DEF read_block_list, Moves, lists, user, flush, Consistent, TypeOK, UserPlaces, Threads
<1>4. Ordered' /\ ListsAgree' /\ BusyOwned' /\ FlushersKnow'
  BY <1>1, <1>2, DataStep DEF read_block_list
<1>5. UsersKnow'
  <2>1. \A u \in Users : pc[u] = "guarded" => cb'[nBlock[u]] = cb[nBlock[u]]
    BY <1>1, GuardAlone DEF read_block_list, Threads
  <2> SUFFICES ASSUME NEW u \in Users PROVE UserKnows(u)'
    BY DEF UsersKnow
  <2>2. UserKnows(u) /\ list[u] \subseteq Blocks
    BY DEF Consistent, TypeOK, UsersKnow, Threads
  <2>3. /\ pc'[u] = IF u = t THEN "loaded" ELSE pc[u]
        /\ list' = list /\ nBlock' = nBlock /\ bWrite' = bWrite /\ pBuffer' = pBuffer
    BY DEF read_block_list, Moves, user, Consistent, TypeOK, Threads
  <2>4. \A b : Holders(b)' = Holders(b)
    BY <1>1 DEF Holders, read_block_list, Moves, user, Consistent, TypeOK
  <2> QED
    BY <1>1, <1>2, <2>1, <2>2, <2>3, <2>4 DEF UserKnows, DataOnly
<1> QED
  BY <1>3, <1>4, <1>5 DEF Consistent

\* cached_write_copy keeps flags, lists, counts and owners consistent.
LEMMA cached_write_copyConsistent ==
  ASSUME Consistent, NEW t \in Users, cached_write_copy(t)
  PROVE  Consistent'
<1> DEFINE b == nBlock[t]
<1>1. b \in Blocks /\ pc[t] = "copy" /\ pBuffer[t] \in Data
  BY NBlockType DEF cached_write_copy, Consistent, UsersKnow, UserKnows
<1>2. cb[b].hashed
  BY <1>1, HeldHashed DEF Holders
<1>3. DataOnly /\ cb' \in [Blocks -> CacheBlock]
  BY <1>1, <1>2 DEF DataOnly, Consistent, TypeOK, CacheBlock, cached_write_copy
<1>4. TypeOK'
  BY <1>1, <1>3, BlockCacheTypes DEF cached_write_copy, Moves, lists, user, flush, Consistent, TypeOK, UserPlaces, Threads
<1>5. Ordered' /\ ListsAgree' /\ BusyOwned' /\ FlushersKnow'
  BY <1>1, <1>3, DataStep DEF cached_write_copy
<1>6. UsersKnow'
  BY <1>1, <1>3 DEF cached_write_copy, Moves, user, Consistent, TypeOK, UsersKnow, UserKnows, Threads, Holders, DataOnly
<1> QED
  BY <1>4, <1>5, <1>6 DEF Consistent

-----------------------------------------------------------------------------
(* The other steps of a call.                                              *)

\* The flushers are not disturbed by a step of a user that leaves their blocks
\* in the list of unlocked blocks, and clean if they were clean.
LEMMA FlushersStay ==
  ASSUME Consistent, UNCHANGED flush, \A f \in Flushers : pc'[f] = pc[f] /\ list'[f] = list[f],
         \A b \in bc_sNormal : (\E f \in Flushers : f \in Owners(b)) =>
                                 b \in bc_sNormal' /\ (cb'[b].dirty => cb[b].dirty)
  PROVE  FlushersKnow'
<1> SUFFICES ASSUME NEW f \in Flushers PROVE FlusherKnows(f)'
  BY DEF FlushersKnow
<1>1. FlusherKnows(f) /\ f \in Threads
  BY DEF Consistent, FlushersKnow, Threads
<1>2. pc'[f] = pc[f] /\ list'[f] = list[f]
  OBVIOUS
<1>3. \A b \in list[f] : f \in Owners(b)
  BY <1>1 DEF Owners
<1>4. psBuffer[f] # NoBlock => f \in Owners(psBuffer[f])
  BY DEF Owners
<1> QED
  BY <1>1, <1>2, <1>3, <1>4 DEF FlusherKnows, flush

\* get_cache_block_loaded keeps flags, lists, counts and owners consistent.
LEMMA get_cache_block_loadedConsistent ==
  ASSUME Consistent, NEW t \in Users, get_cache_block_loaded(t)
  PROVE  Consistent'
<1> USE DEF get_cache_block_loaded, Moves
<1>1. /\ pc[t] = "loaded" /\ nBlock[t] \in Blocks /\ t \in Threads /\ t \notin Flushers
      /\ list[t] \subseteq Blocks
  BY NBlockType, BlockCacheTypes DEF Consistent, TypeOK, Threads
<1>2. /\ cb' \in [Blocks -> CacheBlock]
      /\ \A b \in Blocks : /\ cb'[b].hashed = cb[b].hashed /\ cb'[b].dirty = cb[b].dirty
                           /\ cb'[b].ref = cb[b].ref /\ cb'[b].func = cb[b].func
                           /\ b \in list[t] => ~cb'[b].busy
                           /\ b \notin list[t] => cb'[b] = cb[b]
  <2>1. ASSUME NEW b \in Blocks
        PROVE  /\ cb'[b] = IF b \in list[t] THEN [cb[b] EXCEPT !.busy = FALSE] ELSE cb[b]
               /\ cb[b] \in CacheBlock
    BY DEF Consistent, TypeOK
  <2>2. ASSUME NEW b \in Blocks
        PROVE  /\ cb'[b] \in CacheBlock
               /\ cb'[b].hashed = cb[b].hashed /\ cb'[b].dirty = cb[b].dirty
               /\ cb'[b].ref = cb[b].ref /\ cb'[b].func = cb[b].func
               /\ b \in list[t] => ~cb'[b].busy
    BY <2>1 DEF CacheBlock
  <2> QED
    BY <2>1, <2>2
<1>3. \A b \in list[t] : cb[b].hashed
  BY DEF Consistent, UsersKnow, UserKnows
<1>4. TypeOK'
  BY <1>1, <1>2, BlockCacheTypes DEF lists, user, flush, Consistent, TypeOK, UserPlaces, Threads
<1>5. Ordered'
  BY DEF Consistent, Ordered, lists
<1>6. (\A b : Holders(b)' = Holders(b)) /\ \A b : Guarded(b)' <=> Guarded(b)
  BY <1>1 DEF Holders, Guarded, user, Consistent, TypeOK
<1>7. ListsAgree'
  BY <1>2, <1>3, <1>6 DEF Consistent, ListsAgree, lists
<1>8. BusyOwned'
  <2>1. OwnersMove(t)
    BY <1>1, <1>2, BlockCacheTypes DEF OwnersMove, Owners, user, flush, Threads, Consistent, TypeOK, CacheBlock
  <2> QED
    BY <2>1, <1>1, OwnersMoved, OwnedIsBusyOwned DEF Consistent
<1>9. FlushersKnow'
  BY <1>1, <1>2, FlushersStay DEF Consistent, TypeOK, lists, Threads
<1>10. UsersKnow'
  <2>1. \A u \in Users : pc[u] = "guarded" => cb'[nBlock[u]] = cb[nBlock[u]]
    BY <1>1, <1>2, GuardAlone DEF Threads
  <2> SUFFICES ASSUME NEW u \in Users PROVE UserKnows(u)'
    BY DEF UsersKnow
  <2>2. UserKnows(u) /\ list[u] \subseteq Blocks
    BY DEF Consistent, TypeOK, UsersKnow, Threads
  <2>3. /\ pc'[u] = IF u = t THEN "held" ELSE pc[u]
        /\ list'[u] = IF u = t THEN {} ELSE list[u]
        /\ nBlock' = nBlock /\ bWrite' = bWrite /\ pBuffer' = pBuffer
    BY DEF user, Consistent, TypeOK, Threads
  <2> QED
    <3>1. CASE u = t
      BY ONLY <1>1, <1>2, <1>6, <2>2, <2>3, <3>1 DEF UserKnows
    <3>2. CASE u # t
      BY ONLY <1>2, <1>6, <2>1, <2>2, <2>3, <3>2, u \in Users DEF UserKnows
    <3> QED
      BY <3>1, <3>2
<1> QED
  BY <1>4, <1>5, <1>7, <1>8, <1>9, <1>10 DEF Consistent

\* The dirty blocks are counted, if none gets clean.
LEMMA DirtyCounted ==
  ASSUME Consistent, CountDirty, \A b \in Blocks : cb[b].dirty => cb'[b].dirty
  PROVE  bc_nDirtyCount' = Cardinality({b \in Blocks : cb'[b].dirty}) /\ bc_nDirtyCount' \in Nat
<1> DEFINE D == {b \in Blocks : cb[b].dirty}
           N == {b \in Blocks : cb'[b].dirty /\ ~cb[b].dirty}
           E == {b \in Blocks : cb'[b].dirty}
<1>1. E = D \cup N /\ D \cap N = {} /\ D \subseteq Blocks /\ N \subseteq Blocks /\ E \subseteq Blocks
  OBVIOUS
<1>2. /\ IsFiniteSet(D) /\ IsFiniteSet(N)
      /\ Cardinality(D) \in Nat /\ Cardinality(N) \in Nat /\ Cardinality(E) \in Nat
  BY <1>1, BlocksFinite
<1>3. Cardinality(E) = Cardinality(D) + Cardinality(N) - Cardinality(D \cap N)
  BY <1>1, <1>2, FS_Union
<1>4. Cardinality(D \cap N) = 0
  BY <1>1, FS_EmptySet
<1>5. bc_nDirtyCount = Cardinality(D) /\ bc_nDirtyCount' = bc_nDirtyCount + Cardinality(N)
  BY DEF Consistent, ListsAgree, CountDirty
<1> HIDE DEF D, N, E
<1>6. bc_nDirtyCount' = Cardinality(E)
  BY <1>2, <1>3, <1>4, <1>5
<1> QED
  BY <1>2, <1>6 DEF E

\* The count stays right if no flag changes.
LEMMA DirtySame ==
  ASSUME Consistent, UNCHANGED bc_nDirtyCount, \A b \in Blocks : cb'[b].dirty <=> cb[b].dirty
  PROVE  bc_nDirtyCount' = Cardinality({b \in Blocks : cb'[b].dirty}) /\ bc_nDirtyCount' \in Nat
<1>1. {b \in Blocks : cb'[b].dirty} = {b \in Blocks : cb[b].dirty}
  OBVIOUS
<1> QED
  BY <1>1 DEF Consistent, ListsAgree, TypeOK

\* mark_blocks_dirty keeps flags, lists, counts and owners consistent.
LEMMA mark_blocks_dirtyConsistent ==
  ASSUME Consistent, NEW t \in Users, mark_blocks_dirty(t)
  PROVE  Consistent'
<1> USE DEF mark_blocks_dirty, Moves
<1> DEFINE k == nBlock[t]
<1>1. pc[t] = "modified" /\ k \in Blocks /\ t \in Threads /\ t \notin Flushers
  BY NBlockType, BlockCacheTypes DEF Threads
<1>2. cb[k].ref > 0 /\ cb[k].hashed /\ k \notin bc_sNormal
  BY <1>1, HeldHashed DEF Holders, Consistent, ListsAgree
<1>3. /\ cb' \in [Blocks -> CacheBlock] /\ cb'[k].dirty
      /\ \A b \in Blocks : /\ cb'[b].hashed = cb[b].hashed /\ cb'[b].ref = cb[b].ref
                           /\ cb'[b].busy = cb[b].busy
                           /\ b # k => cb'[b] = cb[b]
  <2>1. cb \in [Blocks -> CacheBlock] /\ cb[k] \in CacheBlock
    BY <1>1 DEF Consistent, TypeOK
  <2> QED
    BY <1>1, <2>1, MarkedFields, EntrySet
<1>4. bc_nDirtyCount' = Cardinality({b \in Blocks : cb'[b].dirty}) /\ bc_nDirtyCount' \in Nat
  BY <1>3, DirtyCounted
<1>5. TypeOK'
  BY <1>1, <1>3, <1>4, BlockCacheTypes DEF lists, user, flush, Consistent, TypeOK, UserPlaces, Threads
<1>6. Ordered'
  BY DEF Consistent, Ordered, lists
<1>7. (\A b : Holders(b)' = Holders(b)) /\ (\A b : Guarded(b)' <=> Guarded(b)) /\ \A b : Owners(b)' = Owners(b)
  BY <1>1 DEF Holders, Guarded, Owners, flush, user, Consistent, TypeOK
<1>8. ListsAgree'
  BY <1>2, <1>3, <1>4, <1>7 DEF Consistent, ListsAgree, lists
<1>9. BusyOwned'
  BY <1>3, <1>7 DEF Consistent, BusyOwned
<1>10. FlushersKnow'
  BY <1>1, <1>2, <1>3, FlushersStay DEF Consistent, TypeOK, lists, Threads
<1>11. UsersKnow'
  BY <1>1, <1>3, <1>7 DEF user, Consistent, TypeOK, UsersKnow, UserKnows, Threads
<1> QED
  BY <1>5, <1>6, <1>8, <1>9, <1>10, <1>11 DEF Consistent

\* A user lets go of its block.
LEMMA ReleaseStep ==
  ASSUME Consistent, NEW t \in Users, NEW k, k = nBlock[t], pc[t] \in {"held", "marked", "copied"},
         Unlock(k), Ends(t), UNCHANGED <<disk, list, flush, written>>,
         cb' \in [Blocks -> CacheBlock], \A b \in Blocks \ {k} : cb'[b] = cb[b],
         cb'[k].hashed = cb[k].hashed, cb'[k].busy = cb[k].busy, cb'[k].ref = cb[k].ref - 1,
         bc_nDirtyCount' = Cardinality({b \in Blocks : cb'[b].dirty}) /\ bc_nDirtyCount' \in Nat
  PROVE  Consistent'
<1>1. k \in Blocks /\ t \in Threads /\ t \notin Flushers /\ t \in Holders(k)
  BY NBlockType, BlockCacheTypes DEF Threads, Holders
<1>2. cb[k].ref \in Nat /\ cb[k].ref > 0 /\ cb[k].hashed /\ k \notin bc_sNormal
  BY <1>1, HeldHashed DEF Consistent, ListsAgree
<1>3. TypeOK'
  BY <1>1, BlockCacheTypes DEF Ends, Unlock, Linked, lists, flush, Consistent, TypeOK, UserPlaces, Threads
<1>4. Ordered'
  <2>1. UNCHANGED lists => Ordered'
    BY DEF Consistent, Ordered, lists
  <2>2. Linked({k}) => Ordered'
    BY <1>1, <1>2, LinkedOrdered, {k} \subseteq Int DEF Blocks, Consistent
  <2> QED
    BY <2>1, <2>2 DEF Unlock
<1>5. /\ \A b \in Blocks : Holders(b)' = Holders(b) \ {t}
      /\ \A b : b # k => t \notin Holders(b)
      /\ \A b \in Blocks : Guarded(b)' <=> Guarded(b)
      /\ \A b : Owners(b)' = Owners(b)
  <2>1. /\ \A u \in Users : pc'[u] = IF u = t THEN "idle" ELSE pc[u]
        /\ \A u \in Users : nBlock'[u] = IF u = t THEN NoBlock ELSE nBlock[u]
    BY DEF Ends, Consistent, TypeOK, Threads
  <2>2. NoBlock \notin Blocks
    BY BlockCacheTypes DEF NoBlock, Blocks
  <2>3. \A b \in Blocks : Holders(b)' = Holders(b) \ {t}
    BY <2>1, <2>2 DEF Holders
  <2>4. \A b : b # k => t \notin Holders(b)
    BY DEF Holders
  <2>5. \A b \in Blocks : Guarded(b)' <=> Guarded(b)
    BY <2>1 DEF Guarded
  <2>6. \A b : Owners(b)' = Owners(b)
    BY <2>1 DEF Owners, flush
  <2> QED
    BY <2>3, <2>4, <2>5, <2>6
<1>6. \A b \in Blocks : cb'[b].ref = Cardinality(Holders(b)')
  <2>1. \A b \in Blocks \ {k} : Holders(b)' = Holders(b)
    BY <1>5
  <2>2. cb'[k].ref = Cardinality(Holders(k)')
    BY <1>1, <1>5, HoldersShrink DEF Consistent, ListsAgree
  <2> QED
    BY <2>1, <2>2 DEF Consistent, ListsAgree
<1>7. ~Guarded(k)
  BY <1>1, GuardAlone DEF Guarded
<1>8. ListsAgree'
  <2>1. bc_sNormal' = {b \in Blocks : cb'[b].hashed /\ cb'[b].ref = 0 /\ ~Guarded(b)'}
    <3>1. bc_sNormal = {b \in Blocks : cb[b].hashed /\ cb[b].ref = 0 /\ ~Guarded(b)}
      BY DEF Consistent, ListsAgree
    <3>2. bc_sNormal' = IF cb[k].ref = 1 THEN bc_sNormal \cup {k} ELSE bc_sNormal
      BY DEF Unlock, Linked, lists
    <3>3. cb'[k].ref = 0 <=> cb[k].ref = 1
      BY <1>2
    <3>4. \A b \in Blocks : b \in bc_sNormal' <=> cb'[b].hashed /\ cb'[b].ref = 0 /\ ~Guarded(b)'
      BY <1>1, <1>2, <1>5, <1>7, <3>1, <3>2, <3>3
    <3> QED
      BY <1>3, <3>4 DEF TypeOK
  <2>2. bc_sLocked' = {b \in Blocks : cb'[b].ref > 0}
    BY <1>1, <1>2 DEF Consistent, ListsAgree, Unlock, lists
  <2> QED
    BY <1>1, <1>2, <1>6, <2>1, <2>2 DEF Consistent, ListsAgree
<1>9. BusyOwned'
  BY <1>5 DEF Consistent, BusyOwned
<1>10. FlushersKnow'
  <2>1. \A b \in bc_sNormal : b \in bc_sNormal' /\ b \in Blocks /\ b # k
    BY <1>2 DEF Unlock, Linked, lists, Consistent, TypeOK
  <2> QED
    BY <1>1, <2>1, FlushersStay DEF Ends, Consistent, TypeOK, Threads
<1>11. UsersKnow'
  <2> SUFFICES ASSUME NEW u \in Users PROVE UserKnows(u)'
    BY DEF UsersKnow
  <2>1. list[u] \subseteq Blocks
    BY DEF Consistent, TypeOK, Threads
  <2>2. CASE u = t
    BY <1>1, <1>5, <2>1, <2>2 DEF Ends, Consistent, TypeOK, UsersKnow, UserKnows, Threads
  <2>3. CASE u # t
    <3>1. pc'[u] = pc[u] /\ nBlock'[u] = nBlock[u] /\ bWrite'[u] = bWrite[u] /\ pBuffer'[u] = pBuffer[u]
      BY <2>3 DEF Ends, Consistent, TypeOK
    <3>2. \A v \in Users : nBlock'[v] = nBlock[v] \/ nBlock'[v] = NoBlock
      BY DEF Ends, Consistent, TypeOK
    <3>3. UserKnows(u)
      BY DEF Consistent, UsersKnow
    <3>4. pc[u] = "guarded" => nBlock[u] \in Blocks \ {k}
      BY <1>7, NBlockType DEF Guarded
    <3> QED
      BY <1>1, <1>5, <2>1, <3>1, <3>2, <3>3, <3>4 DEF UserKnows
  <2> QED
    BY <2>2, <2>3
<1> QED
  BY <1>3, <1>4, <1>8, <1>9, <1>10, <1>11 DEF Consistent

\* release_cache_block keeps flags, lists, counts and owners consistent.
LEMMA release_cache_blockConsistent ==
  ASSUME Consistent, NEW t \in Users, release_cache_block(t)
  PROVE  Consistent'
<1> DEFINE k == nBlock[t]
<1>1. k \in Blocks /\ t \in Holders(k)
  BY NBlockType DEF release_cache_block, Holders
<1>2. cb[k].ref \in Nat /\ cb[k].ref > 0
  BY <1>1, HeldHashed
<1>3. /\ cb' \in [Blocks -> CacheBlock] /\ \A b \in Blocks \ {k} : cb'[b] = cb[b]
      /\ cb'[k].hashed = cb[k].hashed /\ cb'[k].busy = cb[k].busy /\ cb'[k].ref = cb[k].ref - 1
      /\ cb'[k].dirty = cb[k].dirty
  <2>1. cb \in [Blocks -> CacheBlock] /\ cb[k] \in CacheBlock
    BY <1>1 DEF Consistent, TypeOK
  <2> DEFINE e == Unlocked(cb[k])
  <2>2. cb' = [cb EXCEPT ![k] = e]
    BY DEF release_cache_block
  <2>3. /\ e \in CacheBlock /\ e.ref = cb[k].ref - 1
        /\ e.hashed = cb[k].hashed /\ e.busy = cb[k].busy /\ e.dirty = cb[k].dirty
    BY <1>2, <2>1, UnlockedFields
  <2>4. cb' \in [Blocks -> CacheBlock] /\ cb'[k] = e /\ \A b \in Blocks \ {k} : cb'[b] = cb[b]
    BY ONLY <1>1, <2>1, <2>2, <2>3, EntrySet
  <2> QED
    BY ONLY <2>3, <2>4
<1>4. bc_nDirtyCount' = Cardinality({b \in Blocks : cb'[b].dirty}) /\ bc_nDirtyCount' \in Nat
  BY <1>3, DirtySame DEF release_cache_block
<1> QED
  BY <1>3, <1>4, ReleaseStep DEF release_cache_block

\* cached_write_end keeps flags, lists, counts and owners consistent.
LEMMA cached_write_endConsistent ==
  ASSUME Consistent, NEW t \in Users, cached_write_end(t)
  PROVE  Consistent'
<1> DEFINE k == nBlock[t]
<1>1. k \in Blocks /\ t \in Holders(k)
  BY NBlockType DEF cached_write_end, Holders
<1>2. cb[k].ref \in Nat /\ cb[k].ref > 0
  BY <1>1, HeldHashed
<1>3. /\ cb' \in [Blocks -> CacheBlock] /\ \A b \in Blocks \ {k} : cb'[b] = cb[b]
      /\ cb'[k].hashed = cb[k].hashed /\ cb'[k].busy = cb[k].busy /\ cb'[k].ref = cb[k].ref - 1
      /\ cb'[k].dirty
  <2>1. cb \in [Blocks -> CacheBlock] /\ cb[k] \in CacheBlock
    BY <1>1 DEF Consistent, TypeOK
  <2> DEFINE e == Unlocked(Marked(cb[k]))
  <2>2. cb' = [cb EXCEPT ![k] = e]
    BY DEF cached_write_end
  <2>3. /\ Marked(cb[k]) \in CacheBlock /\ Marked(cb[k]).dirty /\ Marked(cb[k]).ref = cb[k].ref
        /\ Marked(cb[k]).hashed = cb[k].hashed /\ Marked(cb[k]).busy = cb[k].busy
    BY ONLY <2>1, MarkedFields
  <2>4. /\ e \in CacheBlock /\ e.ref = cb[k].ref - 1
        /\ e.hashed = cb[k].hashed /\ e.busy = cb[k].busy /\ e.dirty
    BY ONLY <1>2, <2>3, UnlockedFields
  <2>5. cb' \in [Blocks -> CacheBlock] /\ cb'[k] = e /\ \A b \in Blocks \ {k} : cb'[b] = cb[b]
    BY ONLY <1>1, <2>1, <2>2, <2>4, EntrySet
  <2> QED
    BY ONLY <2>4, <2>5
<1>4. bc_nDirtyCount' = Cardinality({b \in Blocks : cb'[b].dirty}) /\ bc_nDirtyCount' \in Nat
  BY <1>3, DirtyCounted DEF cached_write_end
<1> QED
  BY <1>3, <1>4, ReleaseStep DEF cached_write_end

-----------------------------------------------------------------------------
(* The beginnings of calls.                                                *)

\* NoBlock is not a block.
LEMMA NoBlockNone == NoBlock \notin Blocks
BY BlockCacheTypes DEF NoBlock, Blocks

\* What a call begins with.
LEMMA BeginsFacts ==
  ASSUME Consistent, NEW t \in Users, NEW k \in Blocks, NEW w, NEW v, NEW place, Begins(t, k, w, v, place)
  PROVE  /\ \A u \in Users : /\ pc'[u] = IF u = t THEN place ELSE pc[u]
                             /\ nBlock'[u] = IF u = t THEN k ELSE nBlock[u]
                             /\ bWrite'[u] = IF u = t THEN w ELSE bWrite[u]
                             /\ pBuffer'[u] = IF u = t THEN v ELSE pBuffer[u]
         /\ \A f \in Flushers : pc'[f] = pc[f]
         /\ pc[t] = "idle" /\ nBlock[t] = NoBlock /\ list[t] = {}
         /\ t \in Threads /\ t \notin Flushers /\ k # NoBlock
BY BlockCacheTypes, NoBlockNone DEF Begins, Consistent, TypeOK, UsersKnow, UserKnows, Threads

\* A block that is not busy is nobody's, and no guard.
LEMMA NotBusy ==
  ASSUME Consistent, NEW k \in Blocks, ~cb[k].busy
  PROVE  Owners(k) = {} /\ ~Guarded(k) /\ \A u \in Threads : k \notin list[u]
<1>1. Owners(k) = {}
  BY DEF Consistent, BusyOwned
<1> QED
  BY <1>1 DEF Owners, Guarded

\* A user gets hold of a block that was found, or made, without reading it.
LEMMA TakeStep ==
  ASSUME Consistent, NEW t \in Users, NEW k \in Blocks, NEW w \in BOOLEAN, NEW v \in Data \cup {Garbage}, NEW place,
         place \in {"held", "empty", "copy"}, place # "held" => w,
         place = "copy" => v \in Data /\ "cached_write" \in Writes[k],
         Begins(t, k, w, v, place), ~cb[k].busy, LockFound(k),
         UNCHANGED <<disk, bc_nDirtyCount, list, flush, written>>,
         NEW e \in CacheBlock, e.ref = cb[k].ref + 1, e.hashed, ~e.busy, e.dirty = cb[k].dirty,
         cb' = [cb EXCEPT ![k] = e]
  PROVE  Consistent'
<1>1. /\ cb \in [Blocks -> CacheBlock] /\ cb' \in [Blocks -> CacheBlock] /\ cb'[k] = e
      /\ cb[k] \in CacheBlock /\ cb[k].ref \in Nat /\ \A b \in Blocks \ {k} : cb'[b] = cb[b]
  BY EntrySet DEF Consistent, TypeOK, CacheBlock
<1>2. /\ \A u \in Users : /\ pc'[u] = IF u = t THEN place ELSE pc[u]
                          /\ nBlock'[u] = IF u = t THEN k ELSE nBlock[u]
                          /\ bWrite'[u] = IF u = t THEN w ELSE bWrite[u]
                          /\ pBuffer'[u] = IF u = t THEN v ELSE pBuffer[u]
      /\ \A f \in Flushers : pc'[f] = pc[f]
      /\ pc[t] = "idle" /\ nBlock[t] = NoBlock /\ list[t] = {}
      /\ t \in Threads /\ t \notin Flushers /\ k # NoBlock
  BY BeginsFacts
<1>3. Owners(k) = {} /\ ~Guarded(k) /\ \A u \in Threads : k \notin list[u]
  BY NotBusy
<1>4. TypeOK'
  BY <1>1, <1>2 DEF Begins, LockFound, Unlinked, flush, Consistent, TypeOK, UserPlaces, Threads
<1>5. Ordered'
  BY UnlinkedOrdered DEF LockFound, Consistent
<1>6. /\ \A b \in Blocks \ {k} : Holders(b)' = Holders(b)
      /\ Holders(k)' = Holders(k) \cup {t} /\ t \notin Holders(k)
  BY <1>2, NoBlockNone DEF Holders
<1>7. \A b \in Blocks : Guarded(b)' <=> Guarded(b)
  BY <1>2 DEF Guarded
<1>8. \A b \in Blocks : Owners(b)' = Owners(b)
  BY <1>2 DEF Owners, flush
<1>9. ListsAgree'
  <2>1. \A b \in Blocks : b \in bc_sNormal' <=> cb'[b].hashed /\ cb'[b].ref = 0 /\ ~Guarded(b)'
    BY <1>1, <1>7 DEF Consistent, ListsAgree, LockFound, Unlinked
  <2>2. \A b \in Blocks : b \in bc_sLocked' <=> cb'[b].ref > 0
    BY <1>1 DEF Consistent, ListsAgree, LockFound
  <2>3. cb'[k].ref = Cardinality(Holders(k)')
    <3>1. cb[k].ref = Cardinality(Holders(k))
      BY DEF Consistent, ListsAgree
    <3>2. Cardinality(Holders(k)') = Cardinality(Holders(k)) + 1
      BY <1>6, HoldersGrow
    <3>3. cb'[k].ref = cb[k].ref + 1
      BY <1>1
    <3> QED
      BY ONLY <3>1, <3>2, <3>3
  <2>4. \A b \in Blocks : cb'[b].ref = Cardinality(Holders(b)') /\ (~cb'[b].hashed => cb'[b] = Absent)
    BY <1>1, <1>6, <2>3 DEF Consistent, ListsAgree
  <2>5. bc_nDirtyCount' = Cardinality({b \in Blocks : cb'[b].dirty})
    BY <1>1, DirtySame
  <2> QED
    BY <1>4, <2>1, <2>2, <2>4, <2>5 DEF ListsAgree, TypeOK
<1>10. BusyOwned'
  BY <1>1, <1>8 DEF Consistent, BusyOwned
<1>11. FlushersKnow'
  <2>1. \A b \in bc_sNormal : b # k => b \in bc_sNormal' /\ b \in Blocks
    BY DEF LockFound, Unlinked, Consistent, TypeOK
  <2> QED
    BY <1>1, <1>2, <1>3, <2>1, FlushersStay
<1>12. UsersKnow'
  <2> SUFFICES ASSUME NEW u \in Users PROVE UserKnows(u)'
    BY DEF UsersKnow
  <2>1. list[u] \subseteq Blocks \ {k}
    BY <1>3 DEF Consistent, TypeOK, Threads
  <2>2. UserKnows(u)
    BY DEF Consistent, UsersKnow
  <2>3. pc[u] = "guarded" => nBlock[u] \in Blocks \ {k}
    BY <1>3, NBlockType DEF Guarded
  <2>4. \A x \in Users \ {t} : nBlock[x] = k => ~w /\ ~bWrite[x]
    BY DEF Begins, MayUse
  <2> QED
    BY <1>1, <1>2, <1>6, <2>1, <2>2, <2>3, <2>4 DEF UserKnows
<1> QED
  BY <1>4, <1>5, <1>9, <1>10, <1>11, <1>12 DEF Consistent

\* An entry that is not in the table has nothing.
LEMMA AbsentFields ==
  /\ Absent \in CacheBlock /\ Absent.ref = 0 /\ ~Absent.dirty /\ ~Absent.busy /\ ~Absent.hashed
  /\ ~Absent.func /\ Absent.data = Garbage
BY DEF Absent, CacheBlock

\* get_empty_block takes a reference and changes no data.
LEMMA EmptyBlockFields ==
  ASSUME Consistent, NEW k \in Blocks, ~cb[k].busy
  PROVE  /\ EmptyBlock(k) \in CacheBlock /\ EmptyBlock(k).ref = cb[k].ref + 1
         /\ EmptyBlock(k).hashed /\ ~EmptyBlock(k).busy /\ EmptyBlock(k).dirty = cb[k].dirty
         /\ EmptyBlock(k).func = cb[k].func /\ EmptyBlock(k).data = cb[k].data
<1> DEFINE e == IF cb[k].hashed THEN cb[k] ELSE [Absent EXCEPT !.hashed = TRUE]
<1>1. cb[k] \in CacheBlock /\ (~cb[k].hashed => cb[k] = Absent)
  BY DEF Consistent, TypeOK, ListsAgree
<1>2. /\ e \in CacheBlock /\ e.ref = cb[k].ref /\ e.hashed /\ ~e.busy /\ e.dirty = cb[k].dirty
      /\ e.func = cb[k].func /\ e.data = cb[k].data
  BY <1>1 DEF Absent, CacheBlock
<1> HIDE DEF e
<1>3. /\ Locked(e) \in CacheBlock /\ Locked(e).ref = cb[k].ref + 1
      /\ Locked(e).hashed /\ ~Locked(e).busy /\ Locked(e).dirty = cb[k].dirty
      /\ Locked(e).func = cb[k].func /\ Locked(e).data = cb[k].data
  BY <1>2, LockedFields
<1> QED
  BY <1>3 DEF EmptyBlock, e

\* get_empty_block keeps flags, lists, counts and owners consistent.
LEMMA get_empty_blockConsistent ==
  ASSUME Consistent, NEW t \in Users, NEW k \in Blocks, get_empty_block(t, k)
  PROVE  Consistent'
<1>1. ~cb[k].busy
  BY DEF get_empty_block
<1> QED
  BY <1>1, EmptyBlockFields, TakeStep DEF get_empty_block

\* cached_write keeps flags, lists, counts and owners consistent.
LEMMA cached_writeConsistent ==
  ASSUME Consistent, NEW t \in Users, NEW k \in Blocks, NEW v \in Data, cached_write(t, k, v)
  PROVE  Consistent'
<1>1. ~cb[k].busy
  BY DEF cached_write
<1> QED
  BY <1>1, EmptyBlockFields, TakeStep DEF cached_write

\* get_cache_block finds the block.
LEMMA HitConsistent ==
  ASSUME Consistent, NEW t \in Users, NEW k \in Blocks, NEW w \in BOOLEAN,
         Hit(k), Begins(t, k, w, Garbage, "held"), cb' = [cb EXCEPT ![k] = Locked(@)], LockFound(k),
         UNCHANGED <<disk, bc_nDirtyCount, list, flush, written>>
  PROVE  Consistent'
<1>1. ~cb[k].busy /\ cb[k].hashed /\ cb[k] \in CacheBlock
  BY DEF Hit, Consistent, TypeOK
<1>2. /\ Locked(cb[k]) \in CacheBlock /\ Locked(cb[k]).ref = cb[k].ref + 1
      /\ Locked(cb[k]).hashed /\ ~Locked(cb[k]).busy /\ Locked(cb[k]).dirty = cb[k].dirty
  BY <1>1, LockedFields
<1> QED
  BY <1>1, <1>2, TakeStep

\* get_cache_block leaves a guard.
LEMMA GuardConsistent ==
  ASSUME Consistent, NEW t \in Users, NEW k \in Blocks, NEW w \in BOOLEAN,
         Miss(k), Begins(t, k, w, Garbage, "guarded"),
         cb' = [cb EXCEPT ![k] = Guard],
         UNCHANGED <<lists, list, disk, bc_nDirtyCount, flush, written>>
  PROVE  Consistent'
<1> DEFINE e == Guard
<1>1. e \in CacheBlock /\ e.ref = 0 /\ e.hashed /\ e.busy /\ ~e.dirty
  BY GuardFields
<1> HIDE DEF e
<1>2. /\ cb \in [Blocks -> CacheBlock] /\ cb' \in [Blocks -> CacheBlock] /\ cb'[k] = e
      /\ \A b \in Blocks \ {k} : cb'[b] = cb[b]
  BY <1>1, EntrySet DEF Consistent, TypeOK, e
<1>3. cb[k] = Absent /\ cb[k].ref = 0 /\ ~cb[k].dirty /\ ~cb[k].busy /\ ~cb[k].hashed
  BY AbsentFields DEF Consistent, ListsAgree, Miss
<1>4. /\ \A u \in Users : /\ pc'[u] = IF u = t THEN "guarded" ELSE pc[u]
                          /\ nBlock'[u] = IF u = t THEN k ELSE nBlock[u]
                          /\ bWrite'[u] = IF u = t THEN w ELSE bWrite[u]
                          /\ pBuffer'[u] = IF u = t THEN Garbage ELSE pBuffer[u]
      /\ \A f \in Flushers : pc'[f] = pc[f]
      /\ pc[t] = "idle" /\ nBlock[t] = NoBlock /\ list[t] = {}
      /\ t \in Threads /\ t \notin Flushers /\ k # NoBlock
  BY BeginsFacts
<1>5. Owners(k) = {} /\ ~Guarded(k) /\ \A u \in Threads : k \notin list[u]
  BY <1>3, NotBusy
<1>6. TypeOK'
  BY <1>2, <1>4 DEF Begins, lists, flush, Consistent, TypeOK, UserPlaces, Threads
<1>7. Ordered'
  BY DEF Consistent, Ordered, lists
<1>8. /\ \A b \in Blocks : Holders(b)' = Holders(b)
      /\ \A b \in Blocks : Guarded(b)' <=> Guarded(b) \/ b = k
  BY <1>4, NoBlockNone DEF Holders, Guarded
<1>9. ListsAgree'
  <2>1. \A b \in Blocks : b \in bc_sNormal' <=> cb'[b].hashed /\ cb'[b].ref = 0 /\ ~Guarded(b)'
    BY <1>1, <1>2, <1>3, <1>8 DEF Consistent, ListsAgree, lists
  <2>2. \A b \in Blocks : b \in bc_sLocked' <=> cb'[b].ref > 0
    BY <1>1, <1>2, <1>3 DEF Consistent, ListsAgree, lists
  <2>3. \A b \in Blocks : cb'[b].ref = Cardinality(Holders(b)') /\ (~cb'[b].hashed => cb'[b] = Absent)
    BY <1>1, <1>2, <1>3, <1>8 DEF Consistent, ListsAgree
  <2>4. bc_nDirtyCount' = Cardinality({b \in Blocks : cb'[b].dirty})
    BY <1>1, <1>2, <1>3, DirtySame
  <2> QED
    BY <1>6, <2>1, <2>2, <2>3, <2>4 DEF ListsAgree, TypeOK
<1>10. BusyOwned'
  <2>1. /\ \A b \in Blocks \ {k} : Owners(b)' = Owners(b)
        /\ \A u \in Threads : u \in Owners(k)' <=> u = t
    BY <1>4, <1>5, NoBlockNone DEF Owners, flush, Threads
  <2>2. OwnersMove(t)
    BY <1>1, <1>2, <1>3, <1>5, <2>1, OwnersUnique, <1>4, NoBlockNone DEF OwnersMove, Owners
  <2> QED
    BY <1>4, <2>2, OwnersMoved, OwnedIsBusyOwned DEF Consistent
<1>11. FlushersKnow'
  <2>1. \A b \in bc_sNormal : b # k /\ b \in bc_sNormal' /\ b \in Blocks
    BY <1>3 DEF lists, Consistent, TypeOK, ListsAgree
  <2> QED
    BY <1>2, <1>4, <2>1, FlushersStay
<1>12. UsersKnow'
  <2> SUFFICES ASSUME NEW u \in Users PROVE UserKnows(u)'
    BY DEF UsersKnow
  <2>1. list[u] \subseteq Blocks \ {k}
    BY <1>5 DEF Consistent, TypeOK, Threads
  <2>2. UserKnows(u)
    BY DEF Consistent, UsersKnow
  <2>3. pc[u] = "guarded" => nBlock[u] \in Blocks \ {k}
    BY <1>5, NBlockType DEF Guarded
  <2>4. \A x \in Users \ {t} : nBlock[x] = k => ~w /\ ~bWrite[x]
    BY DEF Begins, MayUse
  <2>5. list' = list
    OBVIOUS
  <2>6. CASE u = t
    <3>1. /\ pc'[t] = "guarded" /\ nBlock'[t] = k /\ bWrite'[t] = w /\ list'[t] = {}
          /\ \A x \in Users \ {t} : nBlock'[x] = nBlock[x]
      BY <1>4, <2>5
    <3>2. cb'[k] = Guard
      BY <1>2 DEF e
    <3>3. k # NoBlock
      BY <1>4
    <3> QED
      BY ONLY <2>4, <2>6, <3>1, <3>2, <3>3 DEF UserKnows
  <2>7. CASE u # t
    BY <1>2, <1>4, <1>8, <2>1, <2>2, <2>3, <2>4, <2>5, <2>7 DEF UserKnows
  <2> QED
    BY <2>6, <2>7
<1> QED
  BY <1>6, <1>7, <1>9, <1>10, <1>11, <1>12 DEF Consistent

-----------------------------------------------------------------------------
(* Reading blocks into the cache.                                          *)

\* The blocks to read are on the device, with the one asked for, and the others
\* are not cached.
LEMMA ReadRangesFacts ==
  ASSUME NEW k \in Blocks, NEW n, NEW R \in ReadRanges(k, n)
  PROVE  R \subseteq Blocks /\ k \in R /\ \A b \in R \ {k} : ~cb[b].hashed
<1>1. PICK lo \in 0..k, hi \in k..(NBlocks - 1) :
        R = lo..hi /\ Uncached(k + 1, hi) /\ Uncached(lo, k - 1)
  BY DEF ReadRanges
<1>2. k \in Int /\ NBlocks \in Int
  BY BlockCacheTypes DEF Blocks
<1>3. R \subseteq Blocks /\ k \in R
  BY <1>1, <1>2 DEF Blocks
<1>4. ASSUME NEW b \in R \ {k} PROVE ~cb[b].hashed
  <2>1. b \in (k + 1)..hi \/ b \in lo..(k - 1)
    BY <1>1, <1>2
  <2> QED
    BY <1>1, <2>1 DEF Uncached
<1> QED
  BY <1>3, <1>4

\* The entries of the blocks to read.
LEMMA LoadFacts ==
  ASSUME Consistent, NEW t \in Users, NEW k \in Blocks, NEW R \in SUBSET Blocks, Load(t, k, R)
  PROVE  /\ cb' \in [Blocks -> CacheBlock]
         /\ \A b \in Blocks \ R : cb'[b] = cb[b]
         /\ \A b \in R : /\ cb'[b].hashed /\ cb'[b].busy /\ ~cb'[b].dirty /\ ~cb'[b].func
                         /\ cb'[b].data = Garbage /\ cb'[b].ref = IF b = k THEN 1 ELSE 0
<1> DEFINE e(n) == [Guard EXCEPT !.ref = n]
<1>1. ASSUME NEW n \in Nat
      PROVE  /\ e(n) \in CacheBlock /\ e(n).hashed /\ e(n).busy /\ ~e(n).dirty /\ ~e(n).func
             /\ e(n).data = Garbage /\ e(n).ref = n
  BY DEF Guard, Absent, CacheBlock
<1>2. \A b \in Blocks : cb'[b] = IF b \notin R THEN cb[b] ELSE e(IF b = k THEN 1 ELSE 0)
  BY DEF Load
<1>3. cb' = [b \in Blocks |-> cb'[b]]
  BY DEF Load
<1> HIDE DEF e
<1>4. \A b \in R : \E n \in Nat : n = (IF b = k THEN 1 ELSE 0) /\ cb'[b] = e(n)
  BY <1>2
<1>5. \A b \in R : /\ cb'[b] \in CacheBlock
                   /\ cb'[b].hashed /\ cb'[b].busy /\ ~cb'[b].dirty /\ ~cb'[b].func
                   /\ cb'[b].data = Garbage /\ cb'[b].ref = IF b = k THEN 1 ELSE 0
  BY <1>1, <1>4
<1>6. \A b \in Blocks : cb'[b] \in CacheBlock
  BY <1>2, <1>5 DEF Consistent, TypeOK
<1> QED
  BY <1>2, <1>3, <1>5, <1>6

\* What is known of a user that begins to read, at once or after waiting for
\* memory with a guard.
Reads(t, k) ==
  /\ \A u \in Users : /\ pc'[u] = IF u = t THEN "read" ELSE pc[u]
                      /\ nBlock'[u] = IF u = t THEN k ELSE nBlock[u]
                      /\ u # t => bWrite'[u] = bWrite[u] /\ pBuffer'[u] = pBuffer[u]
  /\ \A f \in Flushers : pc'[f] = pc[f]
  /\ \A u \in Users \ {t} : nBlock[u] = k => ~bWrite'[t] /\ ~bWrite[u]
  /\ pc' \in [Threads -> UserPlaces \cup FlushPlaces]
  /\ nBlock' \in [Users -> Blocks \cup {NoBlock}] /\ bWrite' \in [Users -> BOOLEAN]
  /\ pBuffer' \in [Users -> Data \cup {Garbage}] /\ calls' \in Nat
  /\ list[t] = {}
  /\ \/ pc[t] = "idle" /\ nBlock[t] = NoBlock /\ ~cb[k].hashed
     \/ pc[t] = "guarded" /\ nBlock[t] = k

\* The blocks to read are nobody's but t's, who may have left a guard.
LEMMA LoadAlone ==
  ASSUME Consistent, NEW t \in Users, NEW k \in Blocks, NEW R \in SUBSET Blocks, k \in R,
         \A b \in R \ {k} : ~cb[b].hashed, Reads(t, k)
  PROVE  /\ \A b \in R \ {k} : ~cb[b].busy
         /\ \A b \in R : ~cb[b].dirty /\ cb[b].ref = 0 /\ cb[b].data = Garbage /\ Holders(b) = {}
         /\ k \notin bc_sNormal /\ (~cb[k].busy \/ t \in Owners(k))
         /\ \A u \in Threads \ {t} : list[u] \cap R = {} /\ (u \in Users /\ pc[u] = "guarded" => nBlock[u] \notin R)
<1>1. \A b \in R \ {k} : ~cb[b].busy /\ ~cb[b].dirty /\ cb[b].ref = 0 /\ cb[b].data = Garbage
  BY AbsentFields DEF Consistent, ListsAgree
<1>2. /\ ~cb[k].dirty /\ cb[k].ref = 0 /\ cb[k].data = Garbage
      /\ k \notin bc_sNormal /\ (~cb[k].busy \/ t \in Owners(k))
  <2>1. CASE ~cb[k].hashed
    BY <2>1, AbsentFields DEF Consistent, ListsAgree
  <2>2. CASE pc[t] = "guarded" /\ nBlock[t] = k
    BY <2>2, GuardAlone, GuardFields DEF Consistent, ListsAgree, Guarded, Owners
  <2> QED
    BY <2>1, <2>2 DEF Reads
<1>3. \A u \in Threads \ {t} : list[u] \cap R = {} /\ (u \in Users /\ pc[u] = "guarded" => nBlock[u] \notin R)
  <2>1. \A b \in R : \A u \in Threads \ {t} : u \notin Owners(b)
    BY <1>1, <1>2, OwnersUnique, NotBusy DEF Threads
  <2> QED
    BY <2>1 DEF Owners
<1>4. \A b \in R : cb[b].ref = 0 => Holders(b) = {}
  BY HoldersFinite, FS_EmptySet DEF Consistent, ListsAgree
<1> QED
  BY <1>1, <1>2, <1>3, <1>4

\* Loading a range of blocks that are not cached keeps Consistent.
LEMMA LoadStep ==
  ASSUME Consistent, NEW t \in Users, NEW k \in Blocks, NEW R \in SUBSET Blocks, Load(t, k, R), k \in R,
         \A b \in R \ {k} : ~cb[b].hashed, Reads(t, k),
         UNCHANGED <<disk, bc_nDirtyCount, flush, written>>
  PROVE  Consistent'
<1>1. /\ cb' \in [Blocks -> CacheBlock]
      /\ \A b \in Blocks \ R : cb'[b] = cb[b]
      /\ \A b \in R : /\ cb'[b].hashed /\ cb'[b].busy /\ ~cb'[b].dirty /\ ~cb'[b].func
                      /\ cb'[b].data = Garbage /\ cb'[b].ref = IF b = k THEN 1 ELSE 0
  BY LoadFacts
<1>2. t \in Threads /\ t \notin Flushers /\ k # NoBlock
  BY BlockCacheTypes, NoBlockNone DEF Threads
<1>3. \A b \in R \ {k} : ~cb[b].busy /\ ~cb[b].dirty /\ cb[b].ref = 0
  BY LoadAlone
<1>4. ~cb[k].dirty /\ cb[k].ref = 0 /\ k \notin bc_sNormal /\ (~cb[k].busy \/ t \in Owners(k))
  BY LoadAlone
<1>5. \A u \in Threads \ {t} : list[u] \cap R = {} /\ (u \in Users /\ pc[u] = "guarded" => nBlock[u] \notin R)
  BY LoadAlone
<1>6. TypeOK'
  <2>1. bc_sNormal' \subseteq Blocks /\ bc_sLocked' \subseteq Blocks /\ list' \in [Threads -> SUBSET Blocks]
    BY <1>2 DEF Consistent, TypeOK, Load, Linked
  <2>2. (\A u \in Users : pc'[u] \in UserPlaces) /\ (\A f \in Flushers : pc'[f] \in FlushPlaces)
    BY DEF Reads, Consistent, TypeOK, UserPlaces
  <2> QED
    BY <1>1, <2>1, <2>2 DEF Reads, flush, Consistent, TypeOK
<1>7. Ordered'
  <2>1. R \ {k} \subseteq Int /\ (R \ {k}) \cap bc_sNormal = {}
    BY <1>3 DEF Blocks, Consistent, ListsAgree
  <2> QED
    BY <2>1, LinkedOrdered DEF Load, Consistent
<1>8. /\ \A b \in Blocks \ {k} : Holders(b)' = Holders(b)
      /\ Holders(k)' = Holders(k) \cup {t} /\ t \notin Holders(k)
  BY <1>2, NoBlockNone DEF Holders, Reads
<1>9. \A b \in Blocks : Guarded(b)' <=> Guarded(b) /\ b # k
  BY <1>5, NoBlockNone, <1>2 DEF Guarded, Reads, Threads
<1>10. ListsAgree'
  <2>1. \A b \in R : ~Guarded(b)'
    BY <1>5, <1>9 DEF Guarded, Reads, Threads
  <2>2. bc_sNormal' = bc_sNormal \cup (R \ {k}) /\ bc_sLocked' = bc_sLocked \cup {k}
    BY DEF Load, Linked
  <2>3. \A b \in Blocks : b \in bc_sNormal' <=> cb'[b].hashed /\ cb'[b].ref = 0 /\ ~Guarded(b)'
    <3> TAKE b \in Blocks
    <3>1. CASE b \in R
      BY <1>1, <1>4, <2>1, <2>2, <3>1
    <3>2. CASE b \notin R
      BY <1>1, <1>9, <2>2, <3>2 DEF Consistent, ListsAgree
    <3> QED
      BY <3>1, <3>2
  <2>4. \A b \in Blocks : b \in bc_sLocked' <=> cb'[b].ref > 0
    BY <1>1, <1>3, <2>2 DEF Consistent, ListsAgree
  <2>5. cb'[k].ref = Cardinality(Holders(k)')
    <3>1. cb[k].ref = Cardinality(Holders(k))
      BY DEF Consistent, ListsAgree
    <3>2. Cardinality(Holders(k)') = Cardinality(Holders(k)) + 1
      BY <1>8, HoldersGrow
    <3>3. cb'[k].ref = 1
      BY <1>1
    <3> QED
      BY <1>4, <3>1, <3>2, <3>3
  <2>6. \A b \in Blocks : cb'[b].ref = Cardinality(Holders(b)') /\ (~cb'[b].hashed => cb'[b] = Absent)
    <3> TAKE b \in Blocks
    <3>1. cb[b].ref = Cardinality(Holders(b)) /\ (~cb[b].hashed => cb[b] = Absent)
      BY DEF Consistent, ListsAgree
    <3>2. b # k => Cardinality(Holders(b)') = Cardinality(Holders(b))
      BY <1>8
    <3>3. CASE b \in R
      BY <1>1, <1>3, <2>5, <3>1, <3>2, <3>3
    <3>4. CASE b \notin R
      BY <1>1, <3>1, <3>2, <3>4
    <3> QED
      BY <3>3, <3>4
  <2>7. bc_nDirtyCount' = Cardinality({b \in Blocks : cb'[b].dirty})
    BY <1>1, <1>3, <1>4, DirtySame
  <2> QED
    BY <1>6, <2>3, <2>4, <2>6, <2>7 DEF ListsAgree, TypeOK
<1>11. BusyOwned'
  <2>1. /\ \A u \in Threads \ {t} : list'[u] = list[u]
        /\ list'[t] = R
    BY <1>2 DEF Load, Consistent, TypeOK
  <2>2. /\ \A b \in Blocks : \A u \in Threads \ {t} : u \in Owners(b)' <=> u \in Owners(b)
        /\ \A b \in Blocks : t \in Owners(b)' <=> b \in R
    BY <1>2, <2>1 DEF Owners, flush, Reads, Threads
  <2>3. \A b \in Blocks \ R : t \notin Owners(b)
    BY <1>2, NoBlockNone DEF Owners, Reads
  <2>4. OwnersMove(t)
    BY <1>1, <1>3, <1>4, <2>2, <2>3 DEF OwnersMove
  <2> QED
    BY <1>2, <2>4, OwnersMoved, OwnedIsBusyOwned DEF Consistent
<1>12. FlushersKnow'
  <2>1. \A b \in bc_sNormal : b \in bc_sNormal' /\ b \in Blocks \ R
    BY <1>3, <1>4 DEF Load, Linked, Consistent, TypeOK, ListsAgree
  <2>2. \A f \in Flushers : list'[f] = list[f] /\ pc'[f] = pc[f]
    BY <1>2 DEF Load, Consistent, TypeOK, Threads, Reads
  <2> QED
    BY <1>1, <2>1, <2>2, FlushersStay
<1>13. UsersKnow'
  <2> SUFFICES ASSUME NEW u \in Users PROVE UserKnows(u)'
    BY DEF UsersKnow
  <2>1. UserKnows(u) /\ list[u] \subseteq Blocks /\ u \in Threads
    BY DEF Consistent, UsersKnow, TypeOK, Threads
  <2>2. list'[u] = IF u = t THEN R ELSE list[u]
    BY <2>1 DEF Load, Consistent, TypeOK
  <2>3. CASE u = t
    <3>1. \A b \in R : Holders(b)' \subseteq {t}
      <4>1. \A b \in R : cb[b].ref = 0
        BY <1>3, <1>4
      <4>2. \A b \in R : Holders(b) = {}
        BY <4>1, HoldersFinite, FS_EmptySet DEF Consistent, ListsAgree
      <4> QED
        BY <1>8, <4>2
    <3>2. pc'[t] = "read" /\ nBlock'[t] = k /\ \A x \in Users \ {t} : nBlock'[x] = nBlock[x]
      BY DEF Reads
    <3>3. \A x \in Users \ {t} : nBlock[x] = k => ~bWrite'[t]
      BY DEF Reads
    <3>4. \A b \in R : cb'[b].hashed
      BY <1>1
    <3> QED
      BY ONLY <1>2, <2>2, <2>3, <3>1, <3>2, <3>3, <3>4, k \in R DEF UserKnows
  <2>4. CASE u # t
    <3>1. /\ pc'[u] = pc[u] /\ nBlock'[u] = nBlock[u] /\ bWrite'[u] = bWrite[u] /\ pBuffer'[u] = pBuffer[u]
          /\ list'[u] = list[u]
      BY <2>2, <2>4 DEF Reads
    <3>2. \A b \in list[u] : cb'[b] = cb[b] /\ Holders(b)' = Holders(b)
      BY <1>1, <1>5, <1>8, <2>1, <2>4
    <3>3. pc[u] = "guarded" => cb'[nBlock[u]] = cb[nBlock[u]]
      BY <1>1, <1>5, <2>1, <2>4, NBlockType
    <3>4. bWrite[u] => \A x \in Users \ {u} : nBlock'[x] = nBlock[u] => nBlock[u] = NoBlock
      <4>1. bWrite[u] => nBlock[u] # k
        BY <2>4 DEF Reads
      <4>2. \A x \in Users : nBlock'[x] = nBlock[x] \/ nBlock'[x] = k
        BY DEF Reads
      <4> QED
        BY <2>1, <4>1, <4>2 DEF UserKnows
    <3> QED
      BY ONLY <2>1, <3>1, <3>2, <3>3, <3>4 DEF UserKnows
  <2> QED
    BY <2>3, <2>4
<1> QED
  BY <1>6, <1>7, <1>10, <1>11, <1>12, <1>13 DEF Consistent

\* The ways through get_cache_block: the block is found, read, or left to a guard.
Finds(t, k, w) ==
  /\ Hit(k) /\ Begins(t, k, w, Garbage, "held")
  /\ cb' = [cb EXCEPT ![k] = Locked(@)] /\ LockFound(k)
  /\ UNCHANGED <<disk, bc_nDirtyCount, list, flush, written>>

Loads(t, k, R) ==
  /\ R \in SUBSET Blocks /\ k \in R /\ \A b \in R \ {k} : ~cb[b].hashed
  /\ Load(t, k, R) /\ Reads(t, k)
  /\ UNCHANGED <<disk, bc_nDirtyCount, flush, written>>

Guards(t, k, w) ==
  /\ Miss(k) /\ Begins(t, k, w, Garbage, "guarded")
  /\ cb' = [cb EXCEPT ![k] = Guard]
  /\ UNCHANGED <<lists, list, disk, bc_nDirtyCount, flush, written>>

\* get_cache_block finds the block, loads a range, or waits behind a guard
\* entry.
LEMMA get_cache_blockCases ==
  ASSUME Consistent, NEW t \in Users, NEW k \in Blocks, get_cache_block(t, k)
  PROVE  \E w \in BOOLEAN : Finds(t, k, w) \/ (\E R : Loads(t, k, R)) \/ Guards(t, k, w)
<1>0. PICK w \in BOOLEAN :
      \/ /\ Hit(k) /\ Begins(t, k, w, Garbage, "held")
         /\ cb' = [cb EXCEPT ![k] = Locked(@)] /\ LockFound(k)
         /\ UNCHANGED list
      \/ /\ Miss(k) /\ Begins(t, k, w, Garbage, "read")
         /\ \E R \in ReadRanges(k, MaxReadahead) : Load(t, k, R)
      \/ /\ Miss(k) /\ Begins(t, k, w, Garbage, "guarded")
         /\ cb' = [cb EXCEPT ![k] = Guard]
         /\ UNCHANGED <<lists, list>>
  BY DEF get_cache_block
<1>1. UNCHANGED <<disk, bc_nDirtyCount, flush, written>>
  BY DEF get_cache_block
<1>2. ASSUME Miss(k), Begins(t, k, w, Garbage, "read"), \E R \in ReadRanges(k, MaxReadahead) : Load(t, k, R)
      PROVE  \E R : Loads(t, k, R)
  <2>1. PICK R \in ReadRanges(k, MaxReadahead) : Load(t, k, R)
    BY <1>2
  <2>2. R \subseteq Blocks /\ k \in R /\ \A b \in R \ {k} : ~cb[b].hashed
    BY ReadRangesFacts
  <2>3. Reads(t, k)
    <3>1. /\ \A u \in Users : /\ pc'[u] = IF u = t THEN "read" ELSE pc[u]
                              /\ nBlock'[u] = IF u = t THEN k ELSE nBlock[u]
                              /\ bWrite'[u] = IF u = t THEN w ELSE bWrite[u]
                              /\ pBuffer'[u] = IF u = t THEN Garbage ELSE pBuffer[u]
          /\ \A f \in Flushers : pc'[f] = pc[f]
          /\ pc[t] = "idle" /\ nBlock[t] = NoBlock /\ list[t] = {}
      BY <1>2, BeginsFacts
    <3>2. /\ pc' \in [Threads -> UserPlaces \cup FlushPlaces]
          /\ nBlock' \in [Users -> Blocks \cup {NoBlock}] /\ bWrite' \in [Users -> BOOLEAN]
          /\ pBuffer' \in [Users -> Data \cup {Garbage}] /\ calls' \in Nat
      BY <1>2 DEF Begins, Consistent, TypeOK, Threads, UserPlaces
    <3>3. \A u \in Users \ {t} : nBlock[u] = k => ~w /\ ~bWrite[u]
      BY <1>2 DEF Begins, MayUse
    <3> QED
      BY <1>2, <3>1, <3>2, <3>3 DEF Reads, Miss
  <2> QED
    BY <1>1, <2>1, <2>2, <2>3 DEF Loads
<1> QED
  BY <1>0, <1>1, <1>2 DEF Finds, Guards

\* After its wait for memory it loads a range.
LEMMA get_cache_block_resumeLoads ==
  ASSUME Consistent, NEW t \in Users, get_cache_block_resume(t)
  PROVE  nBlock[t] \in Blocks /\ \E R : Loads(t, nBlock[t], R)
<1> DEFINE k == nBlock[t]
<1>1. k \in Blocks /\ pc[t] = "guarded" /\ t \notin Flushers
  BY NBlockType, BlockCacheTypes DEF get_cache_block_resume
<1> PICK n \in 1..MaxReadahead : \E R \in ReadRanges(k, n) : Load(t, k, R)
  BY DEF get_cache_block_resume
<1>2. PICK R \in ReadRanges(k, n) : Load(t, k, R)
  OBVIOUS
<1>3. R \subseteq Blocks /\ k \in R /\ \A b \in R \ {k} : ~cb[b].hashed
  BY <1>1, ReadRangesFacts
<1>4. Reads(t, k)
  <2>1. /\ \A u \in Users : /\ pc'[u] = IF u = t THEN "read" ELSE pc[u]
                            /\ nBlock'[u] = nBlock[u] /\ bWrite'[u] = bWrite[u] /\ pBuffer'[u] = pBuffer[u]
        /\ \A f \in Flushers : pc'[f] = pc[f]
    BY <1>1 DEF get_cache_block_resume, Moves, user, Consistent, TypeOK, Threads
  <2>2. /\ pc' \in [Threads -> UserPlaces \cup FlushPlaces]
        /\ nBlock' \in [Users -> Blocks \cup {NoBlock}] /\ bWrite' \in [Users -> BOOLEAN]
        /\ pBuffer' \in [Users -> Data \cup {Garbage}] /\ calls' \in Nat
    BY DEF get_cache_block_resume, Moves, user, Consistent, TypeOK, Threads, UserPlaces
  <2>3. \A u \in Users \ {t} : nBlock[u] = k => ~bWrite[t] /\ ~bWrite[u]
    BY <1>1, NoBlockNone DEF Consistent, UsersKnow, UserKnows
  <2>4. list[t] = {}
    BY <1>1 DEF Consistent, UsersKnow, UserKnows
  <2> QED
    BY <1>1, <2>1, <2>2, <2>3, <2>4 DEF Reads
<1>5. UNCHANGED <<disk, bc_nDirtyCount, flush, written>>
  BY DEF get_cache_block_resume
<1> QED
  BY <1>1, <1>2, <1>3, <1>4, <1>5 DEF Loads

\* get_cache_block keeps flags, lists, counts and owners consistent.
LEMMA get_cache_blockConsistent ==
  ASSUME Consistent, NEW t \in Users, NEW k \in Blocks, get_cache_block(t, k)
  PROVE  Consistent'
<1>1. PICK w \in BOOLEAN : Finds(t, k, w) \/ (\E R : Loads(t, k, R)) \/ Guards(t, k, w)
  BY get_cache_blockCases
<1>2. CASE Finds(t, k, w)
  BY <1>2, HitConsistent DEF Finds
<1>3. CASE \E R : Loads(t, k, R)
  BY <1>3, LoadStep DEF Loads
<1>4. CASE Guards(t, k, w)
  BY <1>4, GuardConsistent DEF Guards
<1> QED
  BY <1>1, <1>2, <1>3, <1>4

\* get_cache_block_resume keeps flags, lists, counts and owners consistent.
LEMMA get_cache_block_resumeConsistent ==
  ASSUME Consistent, NEW t \in Users, get_cache_block_resume(t)
  PROVE  Consistent'
BY get_cache_block_resumeLoads, LoadStep DEF Loads

-----------------------------------------------------------------------------
(* Writing to the log's blocks.                                            *)

\* write_logged_blocks keeps flags, lists, counts and owners consistent.
LEMMA write_logged_blocksConsistent ==
  ASSUME Consistent, NEW t \in Users, NEW k \in Blocks, NEW v \in Data, write_logged_blocks(t, k, v)
  PROVE  Consistent'
<1> DEFINE m == Marked(EmptyBlock(k))
           d == [m EXCEPT !.data = v, !.func = TRUE]
           e == Unlocked(d)
<1>1. ~cb[k].busy /\ cb' = [cb EXCEPT ![k] = e]
  BY DEF write_logged_blocks
<1>2. cb \in [Blocks -> CacheBlock] /\ cb[k] \in CacheBlock /\ cb[k].ref \in Nat
  BY DEF Consistent, TypeOK, CacheBlock
<1>3. /\ EmptyBlock(k) \in CacheBlock /\ EmptyBlock(k).ref = cb[k].ref + 1
      /\ EmptyBlock(k).hashed /\ ~EmptyBlock(k).busy
  BY <1>1, EmptyBlockFields
<1>4. m \in CacheBlock /\ m.ref = cb[k].ref + 1 /\ m.hashed /\ ~m.busy /\ m.dirty
  BY <1>3, MarkedFields
<1> HIDE DEF m
<1>5. d \in CacheBlock /\ d.ref = cb[k].ref + 1 /\ d.hashed /\ ~d.busy /\ d.dirty
  BY <1>4 DEF CacheBlock
<1> HIDE DEF d
<1>6. e \in CacheBlock /\ e.ref = cb[k].ref /\ e.hashed /\ ~e.busy /\ e.dirty
  BY <1>2, <1>5, UnlockedFields
<1> HIDE DEF e
<1>7. cb' \in [Blocks -> CacheBlock] /\ cb'[k] = e /\ \A b \in Blocks \ {k} : cb'[b] = cb[b]
  BY <1>1, <1>2, <1>6, EntrySet
<1>8. Owners(k) = {} /\ ~Guarded(k) /\ \A u \in Threads : k \notin list[u]
  BY <1>1, NotBusy
<1>9. bc_nDirtyCount' = Cardinality({b \in Blocks : cb'[b].dirty}) /\ bc_nDirtyCount' \in Nat
  BY <1>6, <1>7, DirtyCounted DEF write_logged_blocks
<1>10. /\ UNCHANGED <<disk, bc_sLocked, pc, nBlock, bWrite, pBuffer, list, flush>>
       /\ written' = [written EXCEPT ![k] = {v}] /\ calls' = calls + 1
  BY DEF write_logged_blocks
<1>11. /\ bc_sNormal' = IF cb[k].ref = 0 THEN bc_sNormal \cup {k} ELSE bc_sNormal
       /\ older' = IF cb[k].ref = 0
                   THEN {p \in older : p[1] # k /\ p[2] # k} \cup ((bc_sNormal \ {k}) \X {k})
                   ELSE older
  BY DEF write_logged_blocks
<1>12. TypeOK'
  BY <1>7, <1>9, <1>10, <1>11 DEF flush, Consistent, TypeOK
<1>13. Ordered'
  <2>1. CASE cb[k].ref = 0
    <3>1. older' \subseteq bc_sNormal' \X bc_sNormal'
      BY <1>11, <2>1 DEF Consistent, Ordered
    <3>2. \A a, b \in bc_sNormal' :
            <<a, b>> \in older' <=>
              \/ a \in bc_sNormal /\ b \in bc_sNormal /\ a # k /\ b # k /\ <<a, b>> \in older
              \/ a \in bc_sNormal /\ a # k /\ b = k
      BY <1>11, <2>1 DEF Consistent, Ordered
    <3>3. \A a \in bc_sNormal' : a \in bc_sNormal \/ a = k
      BY <1>11, <2>1
    <3>4. Ordered
      BY DEF Consistent
    <3>5. \A a, b \in bc_sNormal' : <<a, b>> \in older' <=> a # b /\ <<b, a>> \notin older'
      BY ONLY <3>2, <3>3, <3>4 DEF Ordered
    <3>6. \A a, b, c \in bc_sNormal' : <<a, b>> \in older' /\ <<b, c>> \in older' => <<a, c>> \in older'
      BY ONLY <3>2, <3>3, <3>4 DEF Ordered
    <3> QED
      BY <3>1, <3>5, <3>6 DEF Ordered
  <2>2. CASE cb[k].ref # 0
    BY <1>11, <2>2 DEF Consistent, Ordered
  <2> QED
    BY <2>1, <2>2
<1>14. \A b : /\ Holders(b)' = Holders(b) /\ Owners(b)' = Owners(b)
              /\ Guarded(b)' <=> Guarded(b)
  BY <1>10 DEF Holders, Owners, Guarded, flush
<1>15. ListsAgree'
  <2>1. \A b \in Blocks : b \in bc_sNormal' <=> cb'[b].hashed /\ cb'[b].ref = 0 /\ ~Guarded(b)'
    BY <1>6, <1>7, <1>8, <1>11, <1>14 DEF Consistent, ListsAgree
  <2>2. \A b \in Blocks : b \in bc_sLocked' <=> cb'[b].ref > 0
    BY <1>6, <1>7, <1>10 DEF Consistent, ListsAgree
  <2>3. \A b \in Blocks : cb'[b].ref = Cardinality(Holders(b)') /\ (~cb'[b].hashed => cb'[b] = Absent)
    BY <1>6, <1>7, <1>14 DEF Consistent, ListsAgree
  <2> QED
    BY <1>9, <1>12, <2>1, <2>2, <2>3 DEF ListsAgree, TypeOK
<1>16. BusyOwned'
  BY <1>6, <1>7, <1>1, <1>14 DEF Consistent, BusyOwned
<1>17. FlushersKnow'
  <2>1. \A b \in bc_sNormal : b \in bc_sNormal' /\ b \in Blocks
    BY <1>11 DEF Consistent, TypeOK
  <2> QED
    BY <1>7, <1>8, <1>10, <2>1, FlushersStay
<1>18. UsersKnow'
  <2> SUFFICES ASSUME NEW u \in Users PROVE UserKnows(u)'
    BY DEF UsersKnow
  <2>1. UserKnows(u) /\ list[u] \subseteq Blocks \ {k}
    BY <1>8 DEF Consistent, UsersKnow, TypeOK, Threads
  <2>2. pc[u] = "guarded" => nBlock[u] \in Blocks \ {k}
    BY <1>8, NBlockType DEF Guarded
  <2> QED
    BY <1>7, <1>10, <1>14, <2>1, <2>2 DEF UserKnows
<1> QED
  BY <1>12, <1>13, <1>15, <1>16, <1>17, <1>18 DEF Consistent

-----------------------------------------------------------------------------
(* Steps of the flushers.                                                  *)

\* The users are not disturbed by a step of a flusher that leaves their busy
\* blocks alone.
LEMMA UsersStay ==
  ASSUME Consistent, UNCHANGED user, \A u \in Users : pc'[u] = pc[u] /\ list'[u] = list[u],
         \A b \in Blocks : (\E u \in Users : u \in Owners(b)) => cb'[b] = cb[b]
  PROVE  UsersKnow' /\ \A b : Holders(b)' = Holders(b) /\ (Guarded(b)' <=> Guarded(b))
<1>1. nBlock' = nBlock /\ bWrite' = bWrite /\ pBuffer' = pBuffer
  BY DEF user
<1>2. \A b : Holders(b)' = Holders(b) /\ (Guarded(b)' <=> Guarded(b))
  BY <1>1 DEF Holders, Guarded
<1>3. ASSUME NEW u \in Users PROVE UserKnows(u)'
  <2>1. UserKnows(u) /\ list[u] \subseteq Blocks /\ u \in Threads
    BY DEF Consistent, UsersKnow, TypeOK, Threads
  <2>2. \A b \in list[u] : cb'[b] = cb[b]
    BY <2>1 DEF Owners
  <2>3. pc[u] = "guarded" => cb'[nBlock[u]] = cb[nBlock[u]]
    BY NBlockType DEF Owners
  <2>4. pc'[u] = pc[u] /\ list'[u] = list[u]
    OBVIOUS
  <2> QED
    BY ONLY <1>1, <1>2, <2>1, <2>2, <2>3, <2>4 DEF UserKnows
<1> QED
  BY <1>2, <1>3 DEF UsersKnow

\* A block that is a flusher's, or nobody's, is no user's.
LEMMA NotUsers ==
  ASSUME Consistent, NEW t \in Flushers, NEW b \in Blocks, ~cb[b].busy \/ t \in Owners(b)
  PROVE  \A u \in Threads \ {t} : u \notin Owners(b)
BY NotBusy, OwnersUnique DEF Threads

\* What a flusher that is not t knows is not disturbed by a step of t that
\* leaves the blocks of the others alone.
LEMMA OthersStay ==
  ASSUME Consistent, NEW t \in Flushers,
         \A f \in Flushers \ {t} :
           /\ pc'[f] = pc[f] /\ list'[f] = list[f] /\ left'[f] = left[f] /\ saved'[f] = saved[f]
           /\ psBuffer'[f] = psBuffer[f] /\ job'[f] = job[f],
         \A b \in bc_sNormal : (\E f \in Flushers \ {t} : f \in Owners(b)) =>
                                 b \in bc_sNormal' /\ (cb'[b].dirty => cb[b].dirty)
  PROVE  \A f \in Flushers \ {t} : FlusherKnows(f)'
<1> TAKE f \in Flushers \ {t}
<1>1. FlusherKnows(f) /\ f \in Threads
  BY DEF Consistent, FlushersKnow, Threads
<1>2. /\ pc'[f] = pc[f] /\ list'[f] = list[f] /\ left'[f] = left[f] /\ saved'[f] = saved[f]
      /\ psBuffer'[f] = psBuffer[f] /\ job'[f] = job[f]
  OBVIOUS
<1>3. \A b \in list[f] : f \in Owners(b)
  BY <1>1 DEF Owners
<1>4. psBuffer[f] # NoBlock => f \in Owners(psBuffer[f])
  BY DEF Owners
<1> QED
  BY <1>1, <1>2, <1>3, <1>4 DEF FlusherKnows

\* What a flusher may start with: its own list or blocks that are not busy.
LEMMA StartsConsistent ==
  ASSUME Consistent, NEW t \in Flushers, NEW kind \in Kinds, NEW place \in {"forward", "backward", "write"},
         NEW L \in SUBSET Blocks, NEW next, Starts(t, kind, place, L, next),
         list[t] \subseteq L, psBuffer[t] = NoBlock, saved[t] = {}, \A b \in L \ list[t] : ~cb[b].busy /\ cb[b].hashed,
         next = NoBlock \/ (next \in bc_sNormal \ L /\ ~cb[next].busy),
         next # NoBlock => place = "write" /\ kind # "release_cache_blocks",
         kind = "release_cache_blocks" => L \subseteq bc_sNormal
  PROVE  Consistent'
<1> DEFINE B == L \cup ({next} \ {NoBlock})
<1>1. B \subseteq Blocks /\ t \in Threads /\ t \notin Users /\ bc_sNormal \subseteq Blocks
  BY BlockCacheTypes DEF Consistent, TypeOK, Threads
<1>2. /\ cb' \in [Blocks -> CacheBlock]
      /\ \A b \in Blocks : /\ cb'[b].hashed = cb[b].hashed /\ cb'[b].dirty = cb[b].dirty
                           /\ cb'[b].ref = cb[b].ref /\ cb'[b].func = cb[b].func
                           /\ cb'[b].data = cb[b].data
                           /\ b \in B => cb'[b].busy
                           /\ b \notin B => cb'[b] = cb[b]
  <2>1. ASSUME NEW b \in Blocks
        PROVE  /\ cb'[b] = IF b \in B THEN [cb[b] EXCEPT !.busy = TRUE] ELSE cb[b]
               /\ cb[b] \in CacheBlock
    BY DEF Starts, SetBusy, Consistent, TypeOK
  <2>2. ASSUME NEW b \in Blocks
        PROVE  /\ cb'[b] \in CacheBlock
               /\ cb'[b].hashed = cb[b].hashed /\ cb'[b].dirty = cb[b].dirty
               /\ cb'[b].ref = cb[b].ref /\ cb'[b].func = cb[b].func /\ cb'[b].data = cb[b].data
               /\ b \in B => cb'[b].busy
    <3>1. CASE b \in B
      <4>1. cb'[b] = [cb[b] EXCEPT !.busy = TRUE] /\ cb[b] \in CacheBlock
        BY <2>1, <3>1
      <4> QED
        BY ONLY <4>1, BusyFields
    <3>2. CASE b \notin B
      BY <2>1, <3>2
    <3> QED
      BY <3>1, <3>2
  <2>3. cb' = [b \in Blocks |-> cb'[b]]
    BY DEF Starts, SetBusy
  <2> QED
    BY <2>1, <2>2, <2>3
<1>3. \A b \in B : ~cb[b].busy \/ b \in list[t]
  OBVIOUS
<1> HIDE DEF B
<1>4. \A b \in B : \A u \in Threads \ {t} : u \notin Owners(b)
  BY <1>1, <1>3, NotUsers DEF Owners
<1>5. /\ list' = [list EXCEPT ![t] = L] /\ left' = [left EXCEPT ![t] = L]
      /\ psBuffer' = [psBuffer EXCEPT ![t] = next] /\ job' = [job EXCEPT ![t] = kind]
      /\ pc' = [pc EXCEPT ![t] = place]
      /\ UNCHANGED <<disk, lists, bc_nDirtyCount, user, saved, written>>
  BY DEF Starts
<1>6. /\ \A u \in Threads \ {t} : list'[u] = list[u] /\ pc'[u] = pc[u]
      /\ \A f \in Flushers \ {t} : left'[f] = left[f] /\ psBuffer'[f] = psBuffer[f] /\ job'[f] = job[f]
      /\ list'[t] = L /\ left'[t] = L /\ psBuffer'[t] = next /\ job'[t] = kind /\ pc'[t] = place
  BY <1>1, <1>5 DEF Consistent, TypeOK
<1>7. TypeOK'
  BY <1>1, <1>2, <1>5 DEF lists, user, Consistent, TypeOK, FlushPlaces, Threads
<1>8. Ordered'
  BY <1>5 DEF Consistent, Ordered, lists
<1>9. UsersKnow' /\ \A b : Holders(b)' = Holders(b) /\ (Guarded(b)' <=> Guarded(b))
  <2>1. \A b \in Blocks : (\E u \in Users : u \in Owners(b)) => cb'[b] = cb[b]
    BY <1>1, <1>2, <1>4 DEF Threads
  <2>2. \A u \in Users : pc'[u] = pc[u] /\ list'[u] = list[u]
    BY <1>1, <1>6 DEF Threads
  <2> QED
    BY <1>5, <2>1, <2>2, UsersStay
<1>10. ListsAgree'
  <2>1. {b \in Blocks : cb'[b].hashed /\ cb'[b].ref = 0 /\ ~Guarded(b)'}
        = {b \in Blocks : cb[b].hashed /\ cb[b].ref = 0 /\ ~Guarded(b)}
    BY <1>2, <1>9
  <2>2. {b \in Blocks : cb'[b].ref > 0} = {b \in Blocks : cb[b].ref > 0}
    BY <1>2
  <2>3. \A b \in Blocks : cb'[b].ref = Cardinality(Holders(b)') /\ (~cb'[b].hashed => cb'[b] = Absent)
    <3>1. \A b \in B : cb[b].hashed
      <4>1. \A b \in Blocks : cb[b].busy => cb[b].hashed
        BY AbsentFields DEF Consistent, ListsAgree
      <4>2. \A b \in list[t] : cb[b].busy /\ b \in Blocks
        BY <1>1, OwnersUnique DEF Owners, Consistent, TypeOK
      <4>3. \A b \in bc_sNormal : cb[b].hashed
        BY DEF Consistent, ListsAgree
      <4> QED
        BY <4>1, <4>2, <4>3 DEF B
    <3> QED
      BY <1>2, <1>9, <3>1 DEF Consistent, ListsAgree
  <2>4. bc_nDirtyCount' = Cardinality({b \in Blocks : cb'[b].dirty})
    BY <1>2, <1>5, DirtySame
  <2> QED
    BY <1>5, <2>1, <2>2, <2>3, <2>4 DEF Consistent, ListsAgree, lists
<1>11. BusyOwned'
  <2>1. \A b \in Blocks : \A u \in Threads \ {t} : u \in Owners(b)' <=> u \in Owners(b)
    BY <1>5, <1>6, <1>9 DEF Owners, user, Threads
  <2>2. \A b \in Blocks : t \in Owners(b)' <=> b \in B
    BY <1>1, <1>6, NoBlockNone DEF Owners, B
  <2>3. \A b \in Blocks : t \in Owners(b) => b \in B
    BY <1>1, NoBlockNone DEF Owners, B
  <2>4. OwnersMove(t)
    BY <1>1, <1>2, <1>3, <2>1, <2>2, <2>3 DEF OwnersMove, Owners
  <2> QED
    BY <1>1, <2>4, OwnersMoved, OwnedIsBusyOwned DEF Consistent
<1>12. FlushersKnow'
  <2>1. \A f \in Flushers \ {t} : FlusherKnows(f)'
    <3>1. \A f \in Flushers \ {t} :
            /\ pc'[f] = pc[f] /\ list'[f] = list[f] /\ left'[f] = left[f] /\ saved'[f] = saved[f]
            /\ psBuffer'[f] = psBuffer[f] /\ job'[f] = job[f]
      BY <1>5, <1>6 DEF Threads
    <3>2. \A b \in bc_sNormal : b \in bc_sNormal' /\ (cb'[b].dirty => cb[b].dirty)
      BY <1>1, <1>2, <1>5 DEF lists
    <3> QED
      BY <3>1, <3>2, OthersStay
  <2>2. FlusherKnows(t)'
    BY <1>5, <1>6 DEF FlusherKnows, lists
  <2> QED
    BY <2>1, <2>2 DEF FlushersKnow
<1> QED
  BY <1>7, <1>8, <1>9, <1>10, <1>11, <1>12 DEF Consistent

\* An idle flusher holds no blocks.
LEMMA IdleFlusher ==
  ASSUME Consistent, NEW t \in Flushers, pc[t] = "idle"
  PROVE  list[t] = {} /\ psBuffer[t] = NoBlock /\ saved[t] = {}
BY DEF Consistent, FlushersKnow, FlusherKnows

\* The first n blocks of a set are blocks of it.
LEMMA FirstIn ==
  ASSUME NEW E, NEW n
  PROVE  First(E, n) \subseteq E
BY DEF First

\* What is in bc_sNormal is cached and has no references.
LEMMA NormalHashed ==
  ASSUME Consistent
  PROVE  bc_sNormal \subseteq Blocks /\ \A b \in bc_sNormal : cb[b].hashed /\ cb[b].ref = 0
BY DEF Consistent, TypeOK, ListsAgree

\* cache_flusher keeps flags, lists, counts and owners consistent.
LEMMA cache_flusherConsistent ==
  ASSUME Consistent, NEW t \in Flushers, cache_flusher(t)
  PROVE  Consistent'
<1> DEFINE E == {b \in bc_sNormal : Unwritten(b)}
           L == First(E, BC_FLUSH_SIZE)
<1>1. pc[t] = "idle" /\ Starts(t, "cache_flusher", "write", L, NoBlock)
  BY DEF cache_flusher
<1>2. L \subseteq E /\ L \subseteq Blocks /\ \A b \in L : ~cb[b].busy /\ cb[b].hashed
  BY FirstIn, NormalHashed DEF Unwritten
<1> HIDE DEF L
<1> QED
  BY <1>1, <1>2, IdleFlusher, StartsConsistent DEF Kinds

\* flush_device_cache keeps flags, lists, counts and owners consistent.
LEMMA flush_device_cacheConsistent ==
  ASSUME Consistent, NEW t \in Flushers, flush_device_cache(t)
  PROVE  Consistent'
<1> DEFINE E == {b \in bc_sNormal : Unwritten(b)}
           L == First(E, BC_FLUSH_SIZE)
<1>1. PICK next \in GoesOn(E, L) : Starts(t, "flush_device_cache", "write", L, next)
  BY DEF flush_device_cache
<1>2. L \subseteq E /\ L \subseteq Blocks /\ \A b \in L : ~cb[b].busy /\ cb[b].hashed
  BY FirstIn, NormalHashed DEF Unwritten
<1>3. next = NoBlock \/ (next \in bc_sNormal \ L /\ ~cb[next].busy)
  BY DEF GoesOn, Oldest, Unwritten
<1>4. pc[t] = "idle"
  BY DEF flush_device_cache
<1> HIDE DEF L
<1> QED
  BY <1>1, <1>2, <1>3, <1>4, IdleFlusher, StartsConsistent DEF Kinds

\* Block numbers are integers.
LEMMA BlocksInt == Blocks \subseteq Int
BY BlockCacheTypes DEF Blocks

\* The list of flush_cache_block: what it had and dirty blocks that are not busy.
LEMMA ExtendConsistent ==
  ASSUME Consistent, NEW t \in Flushers, NEW bForward \in BOOLEAN, NEW lo \in Blocks, NEW hi \in Blocks,
         lo <= hi, Extend(t, bForward, lo, hi), psBuffer[t] = NoBlock, saved[t] = {},
         list[t] = lo..hi \/ (list[t] = {} /\ lo = hi /\ Extends(lo))
  PROVE  Consistent'
<1>1. PICK h \in IF bForward THEN Upward(lo, hi) ELSE {hi} : \E l \in Downward(lo, h) :
        LET Full(i, j) == j - i + 1 = BC_FLUSH_SIZE
        IN  IF bForward /\ ~Full(lo, h) /\ Waits(h + 1)
            THEN Starts(t, "flush_cache_block", "forward", lo..h, NoBlock)
            ELSE IF ~Full(l, h) /\ Waits(l - 1)
            THEN Starts(t, "flush_cache_block", "backward", l..h, NoBlock)
            ELSE Starts(t, "flush_cache_block", "write", l..h, NoBlock)
  BY DEF Extend
<1>2. PICK l \in Downward(lo, h) : \E place \in {"forward", "backward", "write"}, i \in {l, lo} :
        Starts(t, "flush_cache_block", place, i..h, NoBlock)
  BY <1>1
<1> PICK place \in {"forward", "backward", "write"}, i \in {l, lo} :
        Starts(t, "flush_cache_block", place, i..h, NoBlock)
  BY <1>2
<1>3. /\ lo \in Int /\ hi \in Int /\ BC_FLUSH_SIZE \in Int /\ NBlocks \in Int
      /\ 0 <= lo /\ hi <= NBlocks - 1
  BY BlockCacheTypes DEF Blocks
<1>4. h \in Int /\ hi <= h /\ \A k \in (hi + 1)..h : Extends(k)
  BY <1>3 DEF Upward
<1>5. l \in Int /\ l <= lo /\ \A k \in l..(lo - 1) : Extends(k)
  BY <1>3, <1>4 DEF Downward
<1>6. i \in Int /\ i <= lo /\ \A k \in i..(lo - 1) : Extends(k)
  BY <1>2, <1>3, <1>5
<1>7. \A k \in i..h : k \in lo..hi \/ Extends(k)
  BY <1>3, <1>4, <1>6
<1>8. lo..hi \subseteq Blocks /\ lo..hi \subseteq i..h
  BY <1>3, <1>4, <1>6 DEF Blocks
<1>9. i..h \subseteq Blocks
  BY <1>7, <1>8 DEF Extends
<1>10. list[t] \subseteq i..h /\ \A b \in (i..h) \ list[t] : ~cb[b].busy /\ cb[b].hashed
  <2>1. CASE list[t] = lo..hi
    BY <1>7, <1>8, <2>1 DEF Extends, Unwritten
  <2>2. CASE list[t] = {} /\ lo = hi /\ Extends(lo)
    BY <1>3, <1>7, <2>2 DEF Extends, Unwritten
  <2> QED
    BY <2>1, <2>2
<1> QED
  BY <1>2, <1>9, <1>10, StartsConsistent DEF Kinds

\* flush_cache_block keeps flags, lists, counts and owners consistent.
LEMMA flush_cache_blockConsistent ==
  ASSUME Consistent, NEW t \in Flushers, NEW b \in Blocks, flush_cache_block(t, b)
  PROVE  Consistent'
<1>1. pc[t] = "idle" /\ Extends(b) /\ Extend(t, TRUE, b, b)
  BY DEF flush_cache_block
<1>2. b <= b
  BY BlocksInt
<1> QED
  BY <1>1, <1>2, IdleFlusher, ExtendConsistent

\* flush_cache_block_resume keeps flags, lists, counts and owners consistent.
LEMMA flush_cache_block_resumeConsistent ==
  ASSUME Consistent, NEW t \in Flushers, flush_cache_block_resume(t)
  PROVE  Consistent'
<1> PICK lo \in list[t], hi \in list[t] :
        /\ list[t] = lo..hi
        /\ \/ pc[t] = "forward" /\ ~Waits(hi + 1) /\ Extend(t, TRUE, lo, hi)
           \/ pc[t] = "backward" /\ ~Waits(lo - 1) /\ Extend(t, FALSE, lo, hi)
  BY DEF flush_cache_block_resume
<1>1. lo \in Blocks /\ hi \in Blocks /\ lo <= hi
  BY BlocksInt DEF Consistent, TypeOK, Threads
<1>2. saved[t] = {} /\ psBuffer[t] = NoBlock
  BY DEF Consistent, FlushersKnow, FlusherKnows
<1> QED
  BY <1>1, <1>2, ExtendConsistent

\* Clean blocks of the list of unlocked blocks are released, by the flusher that
\* owns them if they are busy, and it is idle afterwards.
LEMMA ReleasedConsistent ==
  ASSUME Consistent, NEW t \in Flushers, NEW L \in SUBSET bc_sNormal,
         \A b \in L : ~cb[b].dirty /\ (~cb[b].busy \/ b \in list[t]),
         list[t] \subseteq L, psBuffer[t] = NoBlock, left[t] = {}, saved[t] = {},
         cb' = [b \in Blocks |-> IF b \in L THEN Absent ELSE cb[b]], Unlinked(L),
         pc' = [pc EXCEPT ![t] = "idle"], list' = [list EXCEPT ![t] = {}],
         job' \in [Flushers -> Kinds \cup {"none"}], \A f \in Flushers \ {t} : job'[f] = job[f],
         psBuffer' = [psBuffer EXCEPT ![t] = NoBlock],
         UNCHANGED <<disk, bc_sLocked, bc_nDirtyCount, user, left, saved, written>>
  PROVE  Consistent'
<1>1. /\ t \in Threads /\ t \notin Users /\ bc_sNormal \subseteq Blocks
      /\ \A b \in bc_sNormal : cb[b].hashed /\ cb[b].ref = 0
  BY BlockCacheTypes, NormalHashed DEF Threads
<1>2. /\ cb' \in [Blocks -> CacheBlock]
      /\ \A b \in Blocks \ L : cb'[b] = cb[b]
      /\ \A b \in L : cb'[b] = Absent /\ ~cb'[b].busy /\ ~cb'[b].dirty /\ cb'[b].ref = 0 /\ ~cb'[b].hashed
  <2>1. \A b \in Blocks : cb'[b] = IF b \in L THEN Absent ELSE cb[b]
    OBVIOUS
  <2>2. cb' = [b \in Blocks |-> cb'[b]]
    OBVIOUS
  <2> QED
    BY ONLY <1>1, <2>1, <2>2, Consistent, L \subseteq bc_sNormal, AbsentFields DEF Consistent, TypeOK
<1>3. \A b \in L : \A u \in Threads \ {t} : u \notin Owners(b)
  BY <1>1, NotUsers DEF Owners
<1>4. /\ \A u \in Threads \ {t} : list'[u] = list[u] /\ pc'[u] = pc[u]
      /\ \A f \in Flushers \ {t} : psBuffer'[f] = psBuffer[f]
      /\ list'[t] = {} /\ psBuffer'[t] = NoBlock /\ pc'[t] = "idle"
  BY <1>1 DEF Consistent, TypeOK
<1>5. TypeOK'
  BY <1>1, <1>2 DEF Unlinked, user, Consistent, TypeOK, FlushPlaces, Threads
<1>6. Ordered'
  BY UnlinkedOrdered DEF Consistent
<1>7. UsersKnow' /\ \A b : Holders(b)' = Holders(b) /\ (Guarded(b)' <=> Guarded(b))
  <2>1. \A b \in Blocks : (\E u \in Users : u \in Owners(b)) => cb'[b] = cb[b]
    BY <1>1, <1>2, <1>3 DEF Threads
  <2>2. \A u \in Users : pc'[u] = pc[u] /\ list'[u] = list[u]
    BY <1>1, <1>4 DEF Threads
  <2> QED
    BY <2>1, <2>2, UsersStay
<1>8. ListsAgree'
  <2>1. \A b \in Blocks : b \in bc_sNormal' <=> cb'[b].hashed /\ cb'[b].ref = 0 /\ ~Guarded(b)'
    BY <1>2, <1>7 DEF Consistent, ListsAgree, Unlinked
  <2>2. \A b \in Blocks : b \in bc_sLocked' <=> cb'[b].ref > 0
    BY <1>1, <1>2 DEF Consistent, ListsAgree
  <2>3. \A b \in Blocks : cb'[b].ref = Cardinality(Holders(b)') /\ (~cb'[b].hashed => cb'[b] = Absent)
    BY <1>1, <1>2, <1>7 DEF Consistent, ListsAgree
  <2>4. bc_nDirtyCount' = Cardinality({b \in Blocks : cb'[b].dirty})
    BY <1>2, DirtySame
  <2> QED
    BY <1>5, <2>1, <2>2, <2>3, <2>4 DEF ListsAgree, TypeOK
<1>9. BusyOwned'
  <2>1. \A b \in Blocks : \A u \in Threads \ {t} : u \in Owners(b)' <=> u \in Owners(b)
    BY <1>4, <1>1 DEF Owners, user, Threads
  <2>2. \A b \in Blocks : t \notin Owners(b)'
    BY <1>1, <1>4, NoBlockNone DEF Owners
  <2>3. \A b \in Blocks : t \in Owners(b) <=> b \in list[t]
    BY <1>1, NoBlockNone DEF Owners
  <2>4. OwnersMove(t)
    BY <1>1, <1>2, <2>1, <2>2, <2>3 DEF OwnersMove
  <2> QED
    BY <1>1, <2>4, OwnersMoved, OwnedIsBusyOwned DEF Consistent
<1>10. FlushersKnow'
  <2>1. \A f \in Flushers \ {t} : FlusherKnows(f)'
    <3>1. \A f \in Flushers \ {t} :
            /\ pc'[f] = pc[f] /\ list'[f] = list[f] /\ left'[f] = left[f] /\ saved'[f] = saved[f]
            /\ psBuffer'[f] = psBuffer[f] /\ job'[f] = job[f]
      BY <1>4 DEF Threads
    <3>2. \A b \in bc_sNormal \ L : b \in bc_sNormal' /\ (cb'[b].dirty => cb[b].dirty)
      BY <1>1, <1>2 DEF Unlinked
    <3>3. \A b \in bc_sNormal : (\E f \in Flushers \ {t} : f \in Owners(b)) => b \notin L
      BY <1>3 DEF Threads
    <3> QED
      BY <3>1, <3>2, <3>3, OthersStay
  <2>2. FlusherKnows(t)'
    BY <1>4 DEF FlusherKnows
  <2> QED
    BY <2>1, <2>2 DEF FlushersKnow
<1> QED
  BY <1>5, <1>6, <1>7, <1>8, <1>9, <1>10 DEF Consistent

\* The flusher releases the clean blocks of L.
Releases(t, L) ==
  /\ L \in SUBSET bc_sNormal
  /\ \A b \in L : ~cb[b].dirty /\ (~cb[b].busy \/ b \in list[t])
  /\ list[t] \subseteq L /\ psBuffer[t] = NoBlock /\ left[t] = {} /\ saved[t] = {}
  /\ cb' = [b \in Blocks |-> IF b \in L THEN Absent ELSE cb[b]] /\ Unlinked(L)
  /\ pc' = [pc EXCEPT ![t] = "idle"] /\ list' = [list EXCEPT ![t] = {}]
  /\ job' \in [Flushers -> Kinds \cup {"none"}] /\ \A f \in Flushers \ {t} : job'[f] = job[f]
  /\ psBuffer' = [psBuffer EXCEPT ![t] = NoBlock]
  /\ UNCHANGED <<disk, bc_sLocked, bc_nDirtyCount, user, left, saved, written>>

\* release_cache_blocks picks free blocks and either has to write some of
\* them first or releases them.
LEMMA release_cache_blocksCases ==
  ASSUME Consistent, NEW t \in Flushers, release_cache_blocks(t)
  PROVE  /\ pc[t] = "idle"
         /\ \E L \in SUBSET bc_sNormal :
              /\ \A b \in L : ~cb[b].busy /\ cb[b].hashed
              /\ Starts(t, "release_cache_blocks", "write", L, NoBlock) \/ Releases(t, L)
<1> DEFINE E == {b \in bc_sNormal : ~cb[b].busy}
           L == First(E, BC_FLUSH_SIZE)
<1>1. L \subseteq E /\ L \subseteq bc_sNormal /\ L \subseteq Blocks /\ \A b \in L : ~cb[b].busy /\ cb[b].hashed
  BY FirstIn, NormalHashed
<1>2. /\ pc[t] = "idle"
      /\ \/ Starts(t, "release_cache_blocks", "write", L, NoBlock)
         \/ /\ \A b \in L : ~cb[b].dirty
            /\ cb' = [b \in Blocks |-> IF b \in L THEN Absent ELSE cb[b]]
            /\ Unlinked(L)
            /\ UNCHANGED <<disk, bc_sLocked, bc_nDirtyCount, pc, user, list, flush, written>>
  BY DEF release_cache_blocks
<1> HIDE DEF L
<1>3. list[t] = {} /\ psBuffer[t] = NoBlock /\ saved[t] = {} /\ left[t] = {}
  BY <1>2, IdleFlusher DEF Consistent, FlushersKnow, FlusherKnows
<1>4. ASSUME /\ \A b \in L : ~cb[b].dirty
             /\ cb' = [b \in Blocks |-> IF b \in L THEN Absent ELSE cb[b]]
             /\ Unlinked(L)
             /\ UNCHANGED <<disk, bc_sLocked, bc_nDirtyCount, pc, user, list, flush, written>>
      PROVE  Releases(t, L)
  <2>1. /\ pc' = [pc EXCEPT ![t] = "idle"] /\ list' = [list EXCEPT ![t] = {}]
        /\ psBuffer' = [psBuffer EXCEPT ![t] = NoBlock]
        /\ job' \in [Flushers -> Kinds \cup {"none"}] /\ \A f \in Flushers \ {t} : job'[f] = job[f]
        /\ UNCHANGED <<left, saved>>
    BY <1>2, <1>3, <1>4 DEF flush, Consistent, TypeOK
  <2> QED
    BY <1>1, <1>3, <1>4, <2>1 DEF Releases
<1> QED
  BY <1>1, <1>2, <1>4

\* release_cache_blocks keeps flags, lists, counts and owners consistent.
LEMMA release_cache_blocksConsistent ==
  ASSUME Consistent, NEW t \in Flushers, release_cache_blocks(t)
  PROVE  Consistent'
<1>1. PICK L \in SUBSET bc_sNormal :
        /\ \A b \in L : ~cb[b].busy /\ cb[b].hashed
        /\ Starts(t, "release_cache_blocks", "write", L, NoBlock) \/ Releases(t, L)
  BY release_cache_blocksCases
<1>2. list[t] = {} /\ psBuffer[t] = NoBlock /\ saved[t] = {} /\ L \subseteq Blocks
  BY release_cache_blocksCases, IdleFlusher, NormalHashed
<1>3. CASE Starts(t, "release_cache_blocks", "write", L, NoBlock)
  BY <1>1, <1>2, <1>3, StartsConsistent DEF Kinds
<1>4. CASE Releases(t, L)
  BY <1>4, ReleasedConsistent DEF Releases
<1> QED
  BY <1>1, <1>3, <1>4

\* After the write it releases what it had picked.
LEMMA release_endsReleases ==
  ASSUME Consistent, NEW t \in Flushers, release_ends(t)
  PROVE  Releases(t, list[t])
<1>1. pc[t] = "end" /\ job[t] = "release_cache_blocks"
  BY DEF release_ends
<1>2. /\ list[t] \subseteq bc_sNormal /\ (\A b \in list[t] : ~cb[b].dirty)
      /\ left[t] = {} /\ saved[t] = {} /\ psBuffer[t] = NoBlock
  BY <1>1 DEF Consistent, FlushersKnow, FlusherKnows
<1>3. job' \in [Flushers -> Kinds \cup {"none"}] /\ \A f \in Flushers \ {t} : job'[f] = job[f]
  BY DEF release_ends, Idle, Consistent, TypeOK
<1> QED
  BY <1>2, <1>3 DEF release_ends, Idle, Releases

\* release_ends keeps flags, lists, counts and owners consistent.
LEMMA release_endsConsistent ==
  ASSUME Consistent, NEW t \in Flushers, release_ends(t)
  PROVE  Consistent'
BY release_endsReleases, ReleasedConsistent DEF Releases

\* flush_block_list keeps flags, lists, counts and owners consistent.
LEMMA flush_block_listConsistent ==
  ASSUME Consistent, Contents, NEW t \in Flushers, flush_block_list(t)
  PROVE  Consistent'
<1>1. t \in Threads /\ t \notin Users /\ pc[t] = "write"
  BY BlockCacheTypes DEF Threads, flush_block_list
<1>2. /\ UNCHANGED <<cb, lists, bc_nDirtyCount, user, list, job, psBuffer, written>>
      /\ pc' = IF left'[t] = {} THEN [pc EXCEPT ![t] = "clean"] ELSE pc
  BY DEF flush_block_list
<1>3. /\ left' \in [Flushers -> SUBSET Blocks] /\ left'[t] \subseteq left[t]
      /\ \A f \in Flushers \ {t} : left'[f] = left[f]
      /\ saved' \in [Flushers -> SUBSET Blocks] /\ saved'[t] \subseteq saved[t] \cup left[t]
      /\ \A f \in Flushers \ {t} : saved'[f] = saved[f]
      /\ disk' \in [Blocks -> Data]
  <2>1. PICK b \in left[t] :
          \/ /\ left' = [left EXCEPT ![t] = @ \ {b}]
             /\ IF cb[b].ref = 0 /\ cb[b].dirty
                THEN disk' = [disk EXCEPT ![b] = cb[b].data] /\ saved' = [saved EXCEPT ![t] = @ \cup {b}]
                ELSE UNCHANGED <<disk, saved>>
          \/ /\ \E S \in {{}} \cup {{k} : k \in left[t] \ {b}} : left' = [left EXCEPT ![t] = S]
             /\ UNCHANGED <<disk, saved>>
    BY DEF flush_block_list
  <2>2. b \in Blocks /\ left \in [Flushers -> SUBSET Blocks] /\ saved \in [Flushers -> SUBSET Blocks]
    BY DEF Consistent, TypeOK
  <2>3. cb[b].dirty => cb[b].data \in Data
    BY <2>2 DEF Consistent, TypeOK, CacheBlock, Contents, BlockFilled
  <2>4. disk \in [Blocks -> Data]
    BY DEF Consistent, TypeOK
  <2>5. CASE /\ left' = [left EXCEPT ![t] = @ \ {b}]
             /\ IF cb[b].ref = 0 /\ cb[b].dirty
                THEN disk' = [disk EXCEPT ![b] = cb[b].data] /\ saved' = [saved EXCEPT ![t] = @ \cup {b}]
                ELSE UNCHANGED <<disk, saved>>
    BY ONLY <2>2, <2>3, <2>4, <2>5, t \in Flushers, b \in left[t]
  <2>6. CASE /\ \E S \in {{}} \cup {{k} : k \in left[t] \ {b}} : left' = [left EXCEPT ![t] = S]
             /\ UNCHANGED <<disk, saved>>
    <3>1. PICK S \in {{}} \cup {{k} : k \in left[t] \ {b}} : left' = [left EXCEPT ![t] = S]
      BY <2>6
    <3>2. S \subseteq left[t]
      OBVIOUS
    <3> QED
      BY ONLY <2>2, <2>4, <2>6, <3>1, <3>2, t \in Flushers
  <2> QED
    BY <2>1, <2>5, <2>6
<1>4. /\ pc' \in [Threads -> UserPlaces \cup FlushPlaces]
      /\ \A u \in Threads \ {t} : pc'[u] = pc[u]
      /\ pc'[t] = IF left'[t] = {} THEN "clean" ELSE "write"
  BY <1>1, <1>2 DEF Consistent, TypeOK, FlushPlaces
<1>5. TypeOK'
  BY <1>1, <1>2, <1>3, <1>4 DEF lists, user, Consistent, TypeOK, FlushPlaces, Threads
<1>6. UsersKnow' /\ \A b : Holders(b)' = Holders(b) /\ (Guarded(b)' <=> Guarded(b))
  BY <1>1, <1>2, <1>4, UsersStay DEF Threads
<1>7. \A b : Owners(b)' = Owners(b)
  BY <1>1, <1>2, <1>4 DEF Owners, user, Threads
<1>8. Ordered' /\ ListsAgree' /\ BusyOwned'
  BY <1>2, <1>6, <1>7 DEF Consistent, Ordered, ListsAgree, BusyOwned, lists
<1>9. FlushersKnow'
  <2>1. \A f \in Flushers \ {t} : FlusherKnows(f)'
    BY <1>2, <1>3, <1>4, OthersStay DEF lists, Threads
  <2>2. FlusherKnows(t)
    BY DEF Consistent, FlushersKnow
  <2>3. FlusherKnows(t)'
    BY <1>1, <1>2, <1>3, <1>4, <2>2 DEF FlusherKnows, lists
  <2> QED
    BY <2>1, <2>3 DEF FlushersKnow
<1> QED
  BY <1>5, <1>6, <1>8, <1>9 DEF Consistent

\* flush_block_list_clean keeps flags, lists, counts and owners consistent.
LEMMA flush_block_list_cleanConsistent ==
  ASSUME Consistent, NEW t \in Flushers, flush_block_list_clean(t)
  PROVE  Consistent'
<1> DEFINE S == Cleaned(list[t])
<1>1. t \in Threads /\ t \notin Users /\ pc[t] = "clean" /\ list[t] \subseteq Blocks
  BY BlockCacheTypes DEF Threads, flush_block_list_clean, Consistent, TypeOK
<1>2. S \subseteq list[t] /\ S \subseteq Blocks /\ \A b \in Blocks : b \in S <=> b \in list[t] /\ cb[b].dirty /\ cb[b].ref = 0
  BY <1>1 DEF Cleaned
<1>3. /\ cb' = [b \in Blocks |-> IF b \in S THEN [cb[b] EXCEPT !.dirty = FALSE, !.func = FALSE] ELSE cb[b]]
      /\ bc_nDirtyCount' = bc_nDirtyCount - Cardinality(S)
      /\ written' = [b \in Blocks |-> IF b \in S \ saved[t] THEN Data ELSE written[b]]
      /\ pc' = [pc EXCEPT ![t] = "end"]
      /\ saved' = [saved EXCEPT ![t] = {}]
      /\ UNCHANGED <<disk, lists, user, list, job, left, psBuffer>>
  BY DEF flush_block_list_clean
<1> HIDE DEF S
<1>4. /\ cb' \in [Blocks -> CacheBlock]
      /\ \A b \in Blocks : /\ cb'[b].hashed = cb[b].hashed /\ cb'[b].busy = cb[b].busy
                           /\ cb'[b].ref = cb[b].ref
                           /\ b \in S => ~cb'[b].dirty
                           /\ b \notin S => cb'[b] = cb[b]
  <2>1. ASSUME NEW b \in Blocks
        PROVE  /\ cb'[b] = IF b \in S THEN [cb[b] EXCEPT !.dirty = FALSE, !.func = FALSE] ELSE cb[b]
               /\ cb[b] \in CacheBlock
    BY <1>3 DEF Consistent, TypeOK
  <2>2. ASSUME NEW b \in Blocks
        PROVE  /\ cb'[b] \in CacheBlock
               /\ cb'[b].hashed = cb[b].hashed /\ cb'[b].busy = cb[b].busy /\ cb'[b].ref = cb[b].ref
               /\ b \in S => ~cb'[b].dirty
    BY <2>1 DEF CacheBlock
  <2>3. cb' = [b \in Blocks |-> cb'[b]]
    BY <1>3
  <2> QED
    BY <2>1, <2>2, <2>3
<1>5. /\ bc_nDirtyCount' = Cardinality({b \in Blocks : cb'[b].dirty}) /\ bc_nDirtyCount' \in Nat
  <2> DEFINE D == {b \in Blocks : cb[b].dirty}
             E == {b \in Blocks : cb'[b].dirty}
  <2>1. E = D \ S /\ S \subseteq D /\ D \cap S = S /\ D \subseteq Blocks /\ E \subseteq Blocks
    BY <1>2, <1>4
  <2>2. bc_nDirtyCount = Cardinality(D)
    BY DEF Consistent, ListsAgree
  <2> HIDE DEF D, E
  <2>3. IsFiniteSet(D) /\ Cardinality(D) \in Nat /\ Cardinality(S) \in Nat /\ Cardinality(E) \in Nat
    BY <1>2, <2>1, BlocksFinite
  <2>4. Cardinality(E) = Cardinality(D) - Cardinality(S)
    <3>1. Cardinality(D \ S) = Cardinality(D) - Cardinality(D \cap S)
      BY ONLY <2>3, FS_Difference
    <3> QED
      BY ONLY <2>1, <3>1
  <2> QED
    BY <1>3, <2>2, <2>3, <2>4 DEF E
<1>6. /\ pc' \in [Threads -> UserPlaces \cup FlushPlaces]
      /\ \A u \in Threads \ {t} : pc'[u] = pc[u]
      /\ pc'[t] = "end" /\ saved'[t] = {} /\ \A f \in Flushers \ {t} : saved'[f] = saved[f]
  BY <1>1, <1>3 DEF Consistent, TypeOK, FlushPlaces
<1>7. TypeOK'
  BY <1>1, <1>3, <1>4, <1>5, <1>6 DEF lists, user, Consistent, TypeOK, FlushPlaces, Threads
<1>8. UsersKnow' /\ \A b : Holders(b)' = Holders(b) /\ (Guarded(b)' <=> Guarded(b))
  <2>1. \A b \in Blocks : (\E u \in Users : u \in Owners(b)) => cb'[b] = cb[b]
    BY <1>1, <1>2, <1>4, NotUsers DEF Threads, Owners
  <2> QED
    BY <1>1, <1>3, <1>6, <2>1, UsersStay DEF Threads
<1>9. \A b : Owners(b)' = Owners(b)
  BY <1>1, <1>3, <1>6 DEF Owners, user, Threads
<1>10. Ordered'
  <2>1. UNCHANGED lists
    BY <1>3
  <2> QED
    BY ONLY <2>1, Consistent DEF Consistent, Ordered, lists
<1>11. ListsAgree'
  <2>1. {b \in Blocks : cb'[b].hashed /\ cb'[b].ref = 0 /\ ~Guarded(b)'}
        = {b \in Blocks : cb[b].hashed /\ cb[b].ref = 0 /\ ~Guarded(b)}
    BY <1>4, <1>8
  <2>2. {b \in Blocks : cb'[b].ref > 0} = {b \in Blocks : cb[b].ref > 0}
    BY <1>4
  <2>3. \A b \in Blocks : cb'[b].ref = Cardinality(Holders(b)') /\ (~cb'[b].hashed => cb'[b] = Absent)
    BY <1>2, <1>4, <1>8, AbsentFields DEF Consistent, ListsAgree
  <2> QED
    BY <1>3, <1>5, <2>1, <2>2, <2>3 DEF Consistent, ListsAgree, lists
<1>12. BusyOwned'
  BY <1>4, <1>9 DEF Consistent, BusyOwned
<1>13. FlushersKnow'
  <2>1. \A f \in Flushers \ {t} : FlusherKnows(f)'
    <3>1. \A b \in bc_sNormal : b \in bc_sNormal' /\ (cb'[b].dirty => cb[b].dirty)
      BY <1>3, <1>4, NormalHashed DEF lists
    <3> QED
      BY <1>3, <1>6, <3>1, OthersStay DEF Threads
  <2>2. FlusherKnows(t)
    BY DEF Consistent, FlushersKnow
  <2>3. job[t] = "release_cache_blocks" => \A b \in list[t] : ~cb'[b].dirty
    BY <1>1, <1>2, <1>4, <2>2, NormalHashed DEF FlusherKnows
  <2>4. FlusherKnows(t)'
    BY <1>1, <1>3, <1>6, <2>2, <2>3 DEF FlusherKnows, lists
  <2> QED
    BY <2>1, <2>4 DEF FlushersKnow
<1> QED
  BY <1>7, <1>8, <1>10, <1>11, <1>12, <1>13 DEF Consistent

\* The list of a flusher is unlocked; it goes on with a list and a block of its
\* own or free ones, or is idle.
MovesOn(t, L, next, place) ==
  /\ L \in SUBSET Blocks /\ next \in bc_sNormal \cup {NoBlock} /\ place \in {"idle", "write"}
  /\ pc[t] = "end"
  /\ \A b \in L \cup ({next} \ {NoBlock}) : cb[b].hashed /\ (~cb[b].busy \/ b = psBuffer[t])
  /\ psBuffer[t] # NoBlock => psBuffer[t] \in L
  /\ place = "idle" => L = {} /\ next = NoBlock
  /\ job'[t] # "release_cache_blocks"
  /\ cb' \in [Blocks -> CacheBlock]
  /\ \A b \in Blocks : /\ cb'[b].hashed = cb[b].hashed /\ cb'[b].dirty = cb[b].dirty
                       /\ cb'[b].ref = cb[b].ref /\ cb'[b].data = cb[b].data /\ cb'[b].func = cb[b].func
                       /\ cb'[b].busy <=> b \in L \cup {next} \/ (cb[b].busy /\ b \notin list[t])
                       /\ b \notin L \cup {next} \cup list[t] => cb'[b] = cb[b]
  /\ list' = [list EXCEPT ![t] = L] /\ left' = [left EXCEPT ![t] = L]
  /\ psBuffer' = [psBuffer EXCEPT ![t] = next] /\ pc' = [pc EXCEPT ![t] = place]
  /\ job' \in [Flushers -> Kinds \cup {"none"}] /\ \A f \in Flushers \ {t} : job'[f] = job[f]
  /\ UNCHANGED <<disk, lists, bc_nDirtyCount, user, saved, written>>

\* A flusher that goes on with its next list keeps Consistent.
LEMMA MovesOnConsistent ==
  ASSUME Consistent, NEW t \in Flushers, NEW L, NEW next, NEW place, MovesOn(t, L, next, place)
  PROVE  Consistent'
<1> USE DEF MovesOn
<1>1. /\ t \in Threads /\ t \notin Users /\ bc_sNormal \subseteq Blocks /\ list[t] \subseteq Blocks
      /\ saved[t] = {} /\ (psBuffer[t] # NoBlock => psBuffer[t] \in Blocks)
  BY BlockCacheTypes DEF Threads, Consistent, TypeOK, FlushersKnow, FlusherKnows
<1>2. \A b \in Blocks : t \in Owners(b) <=> b \in list[t] \/ psBuffer[t] = b
  BY <1>1 DEF Owners
<1>3. \A b \in Blocks : b \in L \cup {next} \cup list[t] => \A u \in Threads \ {t} : u \notin Owners(b)
  BY <1>1, <1>2, NotUsers, NoBlockNone
<1>4. /\ \A u \in Threads \ {t} : list'[u] = list[u] /\ pc'[u] = pc[u]
      /\ \A f \in Flushers \ {t} : psBuffer'[f] = psBuffer[f] /\ left'[f] = left[f]
      /\ list'[t] = L /\ left'[t] = L /\ psBuffer'[t] = next /\ pc'[t] = place
  BY <1>1 DEF Consistent, TypeOK
<1>5. TypeOK'
  BY <1>1 DEF lists, user, Consistent, TypeOK, FlushPlaces, Threads
<1>6. Ordered'
  BY DEF Consistent, Ordered, lists
<1>7. UsersKnow' /\ \A b : Holders(b)' = Holders(b) /\ (Guarded(b)' <=> Guarded(b))
  <2>1. \A b \in Blocks : (\E u \in Users : u \in Owners(b)) => cb'[b] = cb[b]
    BY <1>1, <1>3 DEF Threads
  <2>2. \A u \in Users : pc'[u] = pc[u] /\ list'[u] = list[u]
    BY <1>1, <1>4 DEF Threads
  <2> QED
    BY <2>1, <2>2, UsersStay
<1>8. ListsAgree'
  <2>1. {b \in Blocks : cb'[b].hashed /\ cb'[b].ref = 0 /\ ~Guarded(b)'}
        = {b \in Blocks : cb[b].hashed /\ cb[b].ref = 0 /\ ~Guarded(b)}
    BY <1>7
  <2>2. {b \in Blocks : cb'[b].ref > 0} = {b \in Blocks : cb[b].ref > 0}
    OBVIOUS
  <2>3. \A b \in Blocks : cb'[b].ref = Cardinality(Holders(b)') /\ (~cb'[b].hashed => cb'[b] = Absent)
    <3>1. \A b \in Blocks : cb[b].busy => cb[b].hashed
      BY AbsentFields DEF Consistent, ListsAgree
    <3>2. \A b \in list[t] : cb[b].hashed
      BY <1>1, <1>2, <3>1, OwnersUnique
    <3> QED
      <4> TAKE b \in Blocks
      <4>1. cb[b].ref = Cardinality(Holders(b)) /\ (~cb[b].hashed => cb[b] = Absent)
        BY DEF Consistent, ListsAgree
      <4>2. /\ cb'[b].hashed = cb[b].hashed /\ cb'[b].ref = cb[b].ref /\ Holders(b)' = Holders(b)
            /\ ~cb[b].hashed => b \notin L \cup {next} \cup list[t]
        BY <1>7, <3>2, NoBlockNone
      <4> QED
        BY <4>1, <4>2
  <2>4. bc_nDirtyCount' = Cardinality({b \in Blocks : cb'[b].dirty})
    BY DirtySame
  <2> QED
    BY <2>1, <2>2, <2>3, <2>4 DEF Consistent, ListsAgree, lists
<1>9. BusyOwned'
  <2>1. \A b \in Blocks : \A u \in Threads \ {t} : u \in Owners(b)' <=> u \in Owners(b)
    BY <1>4, <1>1 DEF Owners, user, Threads
  <2>2. \A b \in Blocks : t \in Owners(b)' <=> b \in L \cup {next}
    BY <1>1, <1>4, NoBlockNone DEF Owners
  <2>3. OwnersMove(t)
    BY <1>1, <1>2, <2>1, <2>2, NoBlockNone DEF OwnersMove
  <2> QED
    BY <1>1, <2>3, OwnersMoved, OwnedIsBusyOwned DEF Consistent
<1>10. FlushersKnow'
  <2>1. \A f \in Flushers \ {t} : FlusherKnows(f)'
    <3>1. \A f \in Flushers \ {t} :
            /\ pc'[f] = pc[f] /\ list'[f] = list[f] /\ left'[f] = left[f] /\ saved'[f] = saved[f]
            /\ psBuffer'[f] = psBuffer[f] /\ job'[f] = job[f]
      BY <1>4 DEF Threads
    <3>2. \A b \in bc_sNormal : b \in bc_sNormal' /\ (cb'[b].dirty => cb[b].dirty)
      BY <1>1 DEF lists
    <3> QED
      BY <3>1, <3>2, OthersStay
  <2>2. FlusherKnows(t)'
    BY <1>1, <1>4 DEF FlusherKnows, lists
  <2> QED
    BY <2>1, <2>2 DEF FlushersKnow
<1> QED
  BY <1>5, <1>6, <1>7, <1>8, <1>9, <1>10 DEF Consistent

\* A flush ends with no blocks left.
LEMMA flush_endsMovesOn ==
  ASSUME Consistent, NEW t \in Flushers, flush_ends(t)
  PROVE  MovesOn(t, {}, NoBlock, "idle")
<1>1. /\ pc[t] = "end" /\ psBuffer[t] = NoBlock /\ left[t] = {} /\ list[t] \subseteq Blocks
      /\ cb' = SetBusy(list[t], FALSE)
  BY DEF flush_ends, Consistent, FlushersKnow, FlusherKnows, TypeOK, Threads
<1>2. /\ cb' \in [Blocks -> CacheBlock]
      /\ \A b \in Blocks : /\ cb'[b].hashed = cb[b].hashed /\ cb'[b].dirty = cb[b].dirty
                           /\ cb'[b].ref = cb[b].ref /\ cb'[b].data = cb[b].data /\ cb'[b].func = cb[b].func
                           /\ cb'[b].busy <=> cb[b].busy /\ b \notin list[t]
                           /\ b \notin list[t] => cb'[b] = cb[b]
  <2>1. ASSUME NEW b \in Blocks
        PROVE  /\ cb'[b] = IF b \in list[t] THEN [cb[b] EXCEPT !.busy = FALSE] ELSE cb[b]
               /\ cb[b] \in CacheBlock
    BY <1>1 DEF SetBusy, Consistent, TypeOK
  <2>2. ASSUME NEW b \in Blocks
        PROVE  /\ cb'[b] \in CacheBlock
               /\ cb'[b].hashed = cb[b].hashed /\ cb'[b].dirty = cb[b].dirty
               /\ cb'[b].ref = cb[b].ref /\ cb'[b].data = cb[b].data /\ cb'[b].func = cb[b].func
               /\ b \in list[t] => ~cb'[b].busy
    BY ONLY <2>1, BusyFields
  <2>3. cb' = [b \in Blocks |-> cb'[b]]
    BY <1>1 DEF SetBusy
  <2> QED
    BY ONLY <2>1, <2>2, <2>3
<1>3. /\ list' = [list EXCEPT ![t] = {}] /\ left' = [left EXCEPT ![t] = {}]
      /\ psBuffer' = [psBuffer EXCEPT ![t] = NoBlock] /\ pc' = [pc EXCEPT ![t] = "idle"]
      /\ job' \in [Flushers -> Kinds \cup {"none"}] /\ (\A f \in Flushers \ {t} : job'[f] = job[f])
      /\ job'[t] # "release_cache_blocks"
      /\ UNCHANGED <<disk, lists, bc_nDirtyCount, user, saved, written>>
  BY <1>1 DEF flush_ends, Idle, Consistent, TypeOK
<1> QED
  BY <1>1, <1>2, <1>3, NoBlockNone DEF MovesOn

\* flush_device_cache goes on with blocks nobody references.
LEMMA flush_device_cache_resumeMovesOn ==
  ASSUME Consistent, NEW t \in Flushers, flush_device_cache_resume(t)
  PROVE  \E L, next : MovesOn(t, L, next, "write") /\ \A b \in L \cup {next} : b = NoBlock \/ cb[b].ref = 0
<1> DEFINE E == {b \in bc_sNormal : Unwritten(b) /\ <<psBuffer[t], b>> \in older}
           L == {psBuffer[t]} \cup First(E, BC_FLUSH_SIZE - 1)
<1>1. PICK next \in GoesOn(E, L) :
        /\ cb' = [b \in Blocks |->
                    IF b \in L \cup {next} THEN [cb[b] EXCEPT !.busy = TRUE]
                    ELSE IF b \in list[t] THEN [cb[b] EXCEPT !.busy = FALSE] ELSE cb[b]]
        /\ list' = [list EXCEPT ![t] = L]
        /\ left' = [left EXCEPT ![t] = L]
        /\ psBuffer' = [psBuffer EXCEPT ![t] = next]
  BY DEF flush_device_cache_resume
<1>2. /\ pc[t] = "end" /\ psBuffer[t] # NoBlock /\ psBuffer[t] \in bc_sNormal
      /\ job[t] # "release_cache_blocks" /\ list[t] \subseteq Blocks
      /\ pc' = [pc EXCEPT ![t] = "write"]
      /\ UNCHANGED <<disk, lists, bc_nDirtyCount, user, job, saved, written>>
  BY DEF flush_device_cache_resume, Consistent, FlushersKnow, FlusherKnows, TypeOK, Threads
<1>3. L \subseteq bc_sNormal /\ \A b \in L : ~cb[b].busy \/ b = psBuffer[t]
  BY <1>2, FirstIn DEF Unwritten
<1>4. next = NoBlock \/ (next \in bc_sNormal /\ ~cb[next].busy)
  BY DEF GoesOn, Oldest, Unwritten
<1>5. psBuffer[t] \in L
  OBVIOUS
<1> HIDE DEF L, E
<1>6. /\ cb' \in [Blocks -> CacheBlock]
      /\ \A b \in Blocks : /\ cb'[b].hashed = cb[b].hashed /\ cb'[b].dirty = cb[b].dirty
                           /\ cb'[b].ref = cb[b].ref /\ cb'[b].data = cb[b].data /\ cb'[b].func = cb[b].func
                           /\ cb'[b].busy <=> b \in L \cup {next} \/ (cb[b].busy /\ b \notin list[t])
                           /\ b \notin L \cup {next} \cup list[t] => cb'[b] = cb[b]
  <2>1. ASSUME NEW b \in Blocks
        PROVE  /\ cb'[b] = IF b \in L \cup {next} THEN [cb[b] EXCEPT !.busy = TRUE]
                           ELSE IF b \in list[t] THEN [cb[b] EXCEPT !.busy = FALSE] ELSE cb[b]
               /\ cb[b] \in CacheBlock
    BY <1>1 DEF Consistent, TypeOK
  <2>2. ASSUME NEW b \in Blocks
        PROVE  /\ cb'[b] \in CacheBlock
               /\ cb'[b].hashed = cb[b].hashed /\ cb'[b].dirty = cb[b].dirty
               /\ cb'[b].ref = cb[b].ref /\ cb'[b].data = cb[b].data /\ cb'[b].func = cb[b].func
               /\ b \in L \cup {next} => cb'[b].busy
               /\ b \notin L \cup {next} /\ b \in list[t] => ~cb'[b].busy
    <3>1. cb[b] \in CacheBlock
      BY <2>1
    <3>2. CASE b \in L \cup {next}
      <4>1. cb'[b] = [cb[b] EXCEPT !.busy = TRUE]
        BY <2>1, <3>2
      <4> QED
        BY ONLY <3>1, <3>2, <4>1, BusyFields
    <3>3. CASE b \notin L \cup {next} /\ b \in list[t]
      <4>1. cb'[b] = [cb[b] EXCEPT !.busy = FALSE]
        BY <2>1, <3>3
      <4> QED
        BY ONLY <3>1, <3>3, <4>1, BusyFields
    <3>4. CASE b \notin L \cup {next} /\ b \notin list[t]
      <4>1. cb'[b] = cb[b]
        BY <2>1, <3>4
      <4> QED
        BY ONLY <3>1, <3>4, <4>1
    <3> QED
      BY ONLY <3>2, <3>3, <3>4
  <2>3. cb' = [b \in Blocks |-> cb'[b]]
    BY <1>1
  <2> QED
    BY ONLY <2>1, <2>2, <2>3
<1>7. \A b \in L \cup ({next} \ {NoBlock}) : cb[b].hashed /\ (~cb[b].busy \/ b = psBuffer[t])
  BY <1>3, <1>4, NormalHashed
<1>8. /\ job' \in [Flushers -> Kinds \cup {"none"}] /\ (\A f \in Flushers \ {t} : job'[f] = job[f])
      /\ job'[t] # "release_cache_blocks"
  BY <1>2 DEF Consistent, TypeOK
<1>9. /\ L \subseteq Blocks /\ next \in bc_sNormal \cup {NoBlock}
      /\ \A b \in L \cup {next} : b = NoBlock \/ cb[b].ref = 0
  BY <1>3, <1>4, NormalHashed
<1>10. MovesOn(t, L, next, "write")
  BY <1>1, <1>2, <1>5, <1>6, <1>7, <1>8, <1>9 DEF MovesOn
<1> QED
  BY <1>9, <1>10

-----------------------------------------------------------------------------
\* An empty cache is consistent.
LEMMA InitConsistent ==
  ASSUME Init
  PROVE  Consistent
<1> USE BlockCacheTypes
<1>1. /\ \A b \in Blocks : Holders(b) = {} /\ Owners(b) = {}
  BY NoBlockNone DEF Init, Holders, Owners, Threads
<1>2. TypeOK
  BY AbsentFields DEF Init, TypeOK, Threads, UserPlaces, FlushPlaces
<1>3. Ordered
  BY DEF Init, Ordered
<1>4. ListsAgree
  <2>1. \A b \in Blocks : cb[b] = Absent
    BY DEF Init
  <2>2. {b \in Blocks : cb[b].dirty} = {} /\ {b \in Blocks : cb[b].ref > 0} = {}
        /\ {b \in Blocks : cb[b].hashed /\ cb[b].ref = 0 /\ ~Guarded(b)} = {}
    BY <2>1, AbsentFields
  <2> QED
    BY <1>1, <2>1, <2>2, FS_EmptySet, AbsentFields DEF Init, ListsAgree
<1>5. BusyOwned
  BY <1>1, AbsentFields DEF Init, BusyOwned
<1>6. UsersKnow
  BY DEF Init, UsersKnow, UserKnows, Threads
<1>7. FlushersKnow
  BY DEF Init, FlushersKnow, FlusherKnows, Threads
<1> QED
  BY <1>2, <1>3, <1>4, <1>5, <1>6, <1>7 DEF Consistent

-----------------------------------------------------------------------------
(* What the blocks hold.                                                   *)

\* A step of a user that touches only its block.
Touches(t, k) ==
  /\ \A b \in Blocks \ {k} : cb'[b] = cb[b]
  /\ \A u \in Users \ {t} : pc'[u] = pc[u] /\ nBlock'[u] = nBlock[u] /\ list'[u] = list[u]
  /\ UNCHANGED <<disk, saved>>
  /\ ~cb[k].busy \/ t \in Holders(k)
  /\ pc[t] # "read" /\ (pc[t] \in {"empty", "copy", "guarded"} => nBlock[t] = k)

\* The block is in nobody else's list.
LEMMA TouchedAlone ==
  ASSUME Consistent, NEW t \in Users, NEW k \in Blocks, ~cb[k].busy \/ t \in Holders(k)
  PROVE  /\ \A u \in Users \ {t} : k \notin list[u]
         /\ \A f \in Flushers : k \in list[f] => cb[k].ref > 0
<1>1. CASE ~cb[k].busy
  BY <1>1, NotBusy DEF Threads
<1>2. CASE t \in Holders(k)
  BY <1>2, HeldHashed DEF Consistent, UsersKnow, UserKnows
<1> QED
  BY <1>1, <1>2

\* A step of one user on one block keeps Contents if that block and that user
\* have it.
LEMMA TouchedContents ==
  ASSUME Consistent, Contents, NEW t \in Users, NEW k \in Blocks, Touches(t, k),
         BlockFilled(k)', UserSees(t)', cb'[k].data # Garbage \/ cb'[k].data = cb[k].data
  PROVE  Contents'
<1>1. /\ \A u \in Users \ {t} : k \notin list[u]
      /\ \A f \in Flushers : k \in list[f] => cb[k].ref > 0
  BY TouchedAlone DEF Touches
<1>2. ASSUME NEW b \in Blocks \ {k} PROVE BlockFilled(b)'
  <2>1. BlockFilled(b) /\ cb'[b] = cb[b]
    BY DEF Contents, Touches
  <2>2. Guarded(b) => Guarded(b)'
    BY DEF Guarded, Touches
  <2> QED
    BY <2>1, <2>2 DEF BlockFilled, Touches
<1>3. ASSUME NEW u \in Users \ {t} PROVE UserSees(u)'
  <2>1. UserSees(u) /\ list[u] \subseteq Blocks \ {k}
    BY <1>1 DEF Contents, Consistent, TypeOK, Threads
  <2>2. pc[u] # "idle" => nBlock[u] \in Blocks
    BY NBlockType
  <2>3. pc[u] \in {"held", "modified", "marked", "copied"} => cb'[nBlock[u]].data # Garbage
    BY <2>1, <2>2 DEF UserSees, Touches
  <2> QED
    BY <2>1, <2>3 DEF UserSees, Touches
<1>4. ASSUME NEW f \in Flushers PROVE WrittenStays(f)'
  <2>1. WrittenStays(f) /\ saved[f] \subseteq list[f] /\ list[f] \subseteq Blocks
    BY DEF Contents, Consistent, FlushersKnow, FlusherKnows, TypeOK, Threads
  <2>2. k \notin saved[f]
    BY <1>1, <2>1 DEF WrittenStays
  <2> QED
    BY <2>1, <2>2 DEF WrittenStays, Touches
<1> QED
  BY <1>2, <1>3, <1>4 DEF Contents

\* A step within a call changes the place of its thread only.
LEMMA MovesFacts ==
  ASSUME Consistent, NEW t \in Users, NEW place, Moves(t, place)
  PROVE  /\ \A u \in Users : pc'[u] = IF u = t THEN place ELSE pc[u]
         /\ \A f \in Flushers : pc'[f] = pc[f]
         /\ nBlock' = nBlock /\ bWrite' = bWrite /\ pBuffer' = pBuffer /\ calls' = calls
BY BlockCacheTypes DEF Moves, user, Consistent, TypeOK, Threads

\* The end of a call leaves the other threads where they are.
LEMMA EndsFacts ==
  ASSUME Consistent, NEW t \in Users, Ends(t)
  PROVE  /\ \A u \in Users : /\ pc'[u] = IF u = t THEN "idle" ELSE pc[u]
                             /\ nBlock'[u] = IF u = t THEN NoBlock ELSE nBlock[u]
         /\ \A f \in Flushers : pc'[f] = pc[f]
BY BlockCacheTypes DEF Ends, Consistent, TypeOK, Threads

\* The user fills its block.
LEMMA FillContents ==
  ASSUME Consistent, Contents, NEW t \in Users, NEW place \in {"modified", "copied"}, NEW v \in Data,
         pc[t] \in {"held", "empty", "copy"}, Moves(t, place), cb' = [cb EXCEPT ![nBlock[t]].data = v],
         UNCHANGED <<disk, list, flush>>
  PROVE  Contents'
<1>0. PICK k : k = nBlock[t]
  OBVIOUS
<1>1. k \in Blocks /\ t \in Holders(k) /\ v # Garbage
  BY <1>0, NBlockType, BlockCacheTypes DEF Holders
<1>2. /\ \A b \in Blocks \ {k} : cb'[b] = cb[b]
      /\ cb'[k].data = v /\ cb'[k].dirty = cb[k].dirty /\ cb'[k].func = cb[k].func
  BY <1>0, <1>1 DEF Consistent, TypeOK, CacheBlock
<1>3. Touches(t, k)
  BY <1>0, <1>1, <1>2, MovesFacts DEF Touches, flush
<1>4. BlockFilled(k)'
  BY <1>1, <1>2 DEF BlockFilled, Contents
<1>5. UserSees(t)'
  BY <1>0, <1>1, <1>2, MovesFacts DEF UserSees
<1> QED
  BY <1>1, <1>2, <1>3, <1>4, <1>5, TouchedContents

\* modify keeps what users and flushers know of the contents.
LEMMA modifyContents ==
  ASSUME Consistent, Contents, NEW t \in Users, modify(t)
  PROVE  Contents'
BY FillContents DEF modify

\* cached_write_copy keeps what users and flushers know of the contents.
LEMMA cached_write_copyContents ==
  ASSUME Consistent, Contents, NEW t \in Users, cached_write_copy(t)
  PROVE  Contents'
<1>1. pBuffer[t] \in Data
  BY DEF cached_write_copy, Consistent, UsersKnow, UserKnows
<1> QED
  BY <1>1, FillContents DEF cached_write_copy

\* mark_blocks_dirty keeps what users and flushers know of the contents.
LEMMA mark_blocks_dirtyContents ==
  ASSUME Consistent, Contents, NEW t \in Users, mark_blocks_dirty(t)
  PROVE  Contents'
<1>0. PICK k : k = nBlock[t]
  OBVIOUS
<1>1. k \in Blocks /\ t \in Holders(k) /\ cb[k].data # Garbage
  BY <1>0, NBlockType DEF mark_blocks_dirty, Holders, Contents, UserSees
<1>2. /\ \A b \in Blocks \ {k} : cb'[b] = cb[b]
      /\ cb'[k].data = cb[k].data /\ cb'[k].func = cb[k].func /\ cb'[k].dirty
  BY <1>0, <1>1, MarkedFields, EntrySet DEF mark_blocks_dirty, Consistent, TypeOK
<1>3. Touches(t, k)
  BY <1>0, <1>1, <1>2, MovesFacts DEF Touches, flush, mark_blocks_dirty
<1>4. BlockFilled(k)'
  BY <1>1, <1>2 DEF BlockFilled, Contents
<1>5. UserSees(t)'
  BY <1>0, <1>1, <1>2, MovesFacts DEF UserSees, mark_blocks_dirty
<1> QED
  BY <1>1, <1>2, <1>3, <1>4, <1>5, TouchedContents

\* The user lets go of its block, marked or not.
LEMMA LetGoContents ==
  ASSUME Consistent, Contents, NEW t \in Users, NEW k, k = nBlock[t], NEW e \in CacheBlock,
         pc[t] \in {"held", "marked", "copied"}, Ends(t), cb' = [cb EXCEPT ![k] = e],
         e.data = cb[k].data, e.func = cb[k].func, e.dirty = cb[k].dirty \/ e.dirty,
         UNCHANGED <<disk, list, flush>>
  PROVE  Contents'
<1>1. k \in Blocks /\ t \in Holders(k) /\ cb[k].data # Garbage
  BY NBlockType DEF Holders, Contents, UserSees
<1>2. /\ \A b \in Blocks \ {k} : cb'[b] = cb[b]
      /\ cb'[k] = e
  BY <1>1, EntrySet DEF Consistent, TypeOK
<1>3. Touches(t, k)
  BY <1>1, <1>2, EndsFacts DEF Touches, flush
<1>4. BlockFilled(k)'
  BY <1>1, <1>2 DEF BlockFilled, Contents
<1>5. UserSees(t)'
  BY EndsFacts DEF UserSees
<1> QED
  BY <1>1, <1>2, <1>3, <1>4, <1>5, TouchedContents

\* release_cache_block keeps what users and flushers know of the contents.
LEMMA release_cache_blockContents ==
  ASSUME Consistent, Contents, NEW t \in Users, release_cache_block(t)
  PROVE  Contents'
<1>1. PICK k : k = nBlock[t]
  OBVIOUS
<1>2. k \in Blocks /\ t \in Holders(k)
  BY <1>1, NBlockType DEF Holders, release_cache_block
<1>3. cb[k] \in CacheBlock /\ cb[k].ref > 0
  BY <1>2, HeldHashed DEF Consistent, TypeOK
<1>4. Unlocked(cb[k]) \in CacheBlock
      /\ Unlocked(cb[k]).data = cb[k].data /\ Unlocked(cb[k]).func = cb[k].func /\ Unlocked(cb[k]).dirty = cb[k].dirty
  BY <1>3, UnlockedFields
<1> QED
  BY <1>1, <1>4, LetGoContents DEF release_cache_block

\* cached_write_end keeps what users and flushers know of the contents.
LEMMA cached_write_endContents ==
  ASSUME Consistent, Contents, NEW t \in Users, cached_write_end(t)
  PROVE  Contents'
<1>1. PICK k : k = nBlock[t]
  OBVIOUS
<1>2. k \in Blocks /\ t \in Holders(k)
  BY <1>1, NBlockType DEF Holders, cached_write_end
<1>3. cb[k] \in CacheBlock /\ cb[k].ref > 0
  BY <1>2, HeldHashed DEF Consistent, TypeOK
<1> DEFINE e == Unlocked(Marked(cb[k]))
<1>4. e \in CacheBlock /\ e.data = cb[k].data /\ e.func = cb[k].func /\ e.dirty
  BY <1>3, UnlockedFields, MarkedFields
<1>5. cb' = [cb EXCEPT ![k] = e]
  BY <1>1 DEF cached_write_end
<1> HIDE DEF e
<1> QED
  BY <1>1, <1>4, <1>5, LetGoContents DEF cached_write_end

\* A call begins with a block that is not busy.
LEMMA TakeContents ==
  ASSUME Consistent, Contents, NEW t \in Users, NEW k \in Blocks, NEW w, NEW v, NEW place, NEW e \in CacheBlock,
         place \in {"held", "empty", "copy", "guarded"}, Begins(t, k, w, v, place), ~cb[k].busy,
         place = "held" => cb[k].hashed, cb' = [cb EXCEPT ![k] = e],
         e.data = cb[k].data, e.func = cb[k].func, e.dirty = cb[k].dirty,
         UNCHANGED <<disk, list, flush>>
  PROVE  Contents'
<1>1. /\ \A u \in Users : /\ pc'[u] = IF u = t THEN place ELSE pc[u]
                          /\ nBlock'[u] = IF u = t THEN k ELSE nBlock[u]
      /\ \A f \in Flushers : pc'[f] = pc[f]
      /\ pc[t] = "idle" /\ nBlock[t] = NoBlock /\ list[t] = {}
  BY BeginsFacts
<1>2. cb'[k] = e /\ \A b \in Blocks \ {k} : cb'[b] = cb[b]
  BY EntrySet DEF Consistent, TypeOK
<1>3. Touches(t, k)
  BY <1>1, <1>2 DEF Touches, flush
<1>4. place = "held" => cb[k].data # Garbage
  <2> SUFFICES ASSUME place = "held", cb[k].data = Garbage PROVE FALSE
    OBVIOUS
  <2>1. ~Guarded(k) /\ \A u \in Threads : k \notin list[u]
    BY NotBusy
  <2>2. PICK u \in Users : pc[u] \in {"empty", "copy"} /\ nBlock[u] = k
    BY <2>1 DEF Contents, BlockFilled, Threads
  <2>3. bWrite[u] /\ u # t
    BY <1>1, <2>2 DEF Consistent, UsersKnow, UserKnows
  <2> QED
    BY <2>2, <2>3 DEF Begins, MayUse
<1>5. BlockFilled(k)'
  <2>1. BlockFilled(k)
    BY DEF Contents
  <2>2. place = "guarded" => Guarded(k)'
    BY <1>1 DEF Guarded
  <2> QED
    BY <1>1, <1>2, <1>4, <2>1, <2>2 DEF BlockFilled
<1>6. UserSees(t)'
  BY <1>1, <1>2, <1>4 DEF UserSees
<1> QED
  BY <1>2, <1>3, <1>5, <1>6, TouchedContents

\* get_empty_block keeps what users and flushers know of the contents.
LEMMA get_empty_blockContents ==
  ASSUME Consistent, Contents, NEW t \in Users, NEW k \in Blocks, get_empty_block(t, k)
  PROVE  Contents'
<1>1. ~cb[k].busy
  BY DEF get_empty_block
<1> QED
  BY <1>1, EmptyBlockFields, TakeContents DEF get_empty_block

\* cached_write keeps what users and flushers know of the contents.
LEMMA cached_writeContents ==
  ASSUME Consistent, Contents, NEW t \in Users, NEW k \in Blocks, NEW v, cached_write(t, k, v)
  PROVE  Contents'
<1>1. ~cb[k].busy
  BY DEF cached_write
<1> QED
  BY <1>1, EmptyBlockFields, TakeContents DEF cached_write

\* write_logged_blocks keeps what users and flushers know of the contents.
LEMMA write_logged_blocksContents ==
  ASSUME Consistent, Contents, NEW t \in Users, NEW k \in Blocks, NEW v \in Data, write_logged_blocks(t, k, v)
  PROVE  Contents'
<1> DEFINE m == Marked(EmptyBlock(k))
           d == [m EXCEPT !.data = v, !.func = TRUE]
           e == Unlocked(d)
<1>1. ~cb[k].busy /\ cb' = [cb EXCEPT ![k] = e] /\ "write_logged_blocks" \in Writes[k]
  BY DEF write_logged_blocks
<1>2. /\ cb \in [Blocks -> CacheBlock] /\ cb[k].ref \in Nat /\ v # Garbage
  BY BlockCacheTypes DEF Consistent, TypeOK, CacheBlock
<1>3. EmptyBlock(k) \in CacheBlock /\ EmptyBlock(k).ref = cb[k].ref + 1
  BY <1>1, EmptyBlockFields
<1>4. m \in CacheBlock /\ m.ref = cb[k].ref + 1 /\ m.dirty
  BY <1>3, MarkedFields
<1> HIDE DEF m
<1>5. d \in CacheBlock /\ d.ref = cb[k].ref + 1 /\ d.dirty /\ d.data = v
  BY <1>4 DEF CacheBlock
<1> HIDE DEF d
<1>6. e \in CacheBlock /\ e.dirty /\ e.data = v
  BY <1>2, <1>5, UnlockedFields
<1> HIDE DEF e
<1>7. cb'[k] = e /\ \A b \in Blocks \ {k} : cb'[b] = cb[b]
  BY <1>1, <1>2, <1>6, EntrySet
<1>8. pc[t] = "idle" /\ UNCHANGED <<pc, nBlock, list, disk, saved>>
  BY DEF write_logged_blocks, flush
<1>9. Touches(t, k)
  BY <1>1, <1>7, <1>8 DEF Touches
<1>10. BlockFilled(k)'
  BY <1>1, <1>2, <1>6, <1>7 DEF BlockFilled
<1>11. UserSees(t)'
  BY <1>8 DEF UserSees
<1> QED
  BY <1>2, <1>6, <1>7, <1>9, <1>10, <1>11, TouchedContents

\* Loading a range keeps Contents: nobody sees the blocks yet.
LEMMA LoadsContents ==
  ASSUME Consistent, Contents, NEW t \in Users, NEW k \in Blocks, NEW R, Loads(t, k, R)
  PROVE  Contents'
<1>1. /\ R \subseteq Blocks /\ k \in R /\ (\A b \in R \ {k} : ~cb[b].hashed) /\ Load(t, k, R) /\ Reads(t, k)
      /\ disk' = disk /\ saved' = saved
  BY DEF Loads, flush
<1>2. /\ \A b \in Blocks \ R : cb'[b] = cb[b]
      /\ \A b \in R : ~cb'[b].dirty /\ ~cb'[b].func /\ cb'[b].data = Garbage
  BY <1>1, LoadFacts
<1>3. /\ \A u \in Users \ {t} : pc'[u] = pc[u] /\ nBlock'[u] = nBlock[u]
      /\ pc'[t] = "read" /\ nBlock'[t] = k /\ list[t] = {} /\ (pc[t] = "idle" \/ (pc[t] = "guarded" /\ nBlock[t] = k))
  BY <1>1 DEF Reads
<1>4. list'[t] = R /\ \A u \in Users \ {t} : list'[u] = list[u]
  BY <1>1 DEF Load, Consistent, TypeOK, Threads
<1>5. /\ \A b \in R : Holders(b) = {}
      /\ \A u \in Threads \ {t} : list[u] \cap R = {}
  BY <1>1, LoadAlone
<1>6. ASSUME NEW b \in Blocks PROVE BlockFilled(b)'
  <2>1. CASE b \in R
    BY <1>2, <1>3, <1>4, <2>1 DEF BlockFilled
  <2>2. CASE b \notin R
    <3>1. BlockFilled(b) /\ cb'[b] = cb[b] /\ b # k
      BY <1>1, <1>2, <2>2 DEF Contents
    <3>2. Guarded(b) => Guarded(b)'
      BY <1>3, <3>1 DEF Guarded
    <3> QED
      BY <1>3, <1>4, <3>1, <3>2 DEF BlockFilled
  <2> QED
    BY <2>1, <2>2
<1>7. ASSUME NEW u \in Users PROVE UserSees(u)'
  <2>1. CASE u = t
    BY <1>2, <1>3, <1>4, <2>1 DEF UserSees
  <2>2. CASE u # t
    <3>1. UserSees(u) /\ list[u] \subseteq Blocks \ R
      BY <1>5, <2>2 DEF Contents, Consistent, TypeOK, Threads
    <3>2. pc[u] \in {"held", "modified", "marked", "copied"} => nBlock[u] \in Blocks \ R
      BY <1>5, NBlockType DEF Holders
    <3> QED
      BY <1>1, <1>2, <1>3, <1>4, <2>2, <3>1, <3>2 DEF UserSees
  <2> QED
    BY <2>1, <2>2
<1>8. ASSUME NEW f \in Flushers PROVE WrittenStays(f)'
  <2>1. WrittenStays(f) /\ saved[f] \subseteq Blocks \ R
    BY <1>5, BlockCacheTypes DEF Contents, Consistent, FlushersKnow, FlusherKnows, TypeOK, Threads
  <2> QED
    BY <1>1, <1>2, <2>1 DEF WrittenStays
<1> QED
  BY <1>6, <1>7, <1>8 DEF Contents

\* get_cache_block keeps what users and flushers know of the contents.
LEMMA get_cache_blockContents ==
  ASSUME Consistent, Contents, NEW t \in Users, NEW k \in Blocks, get_cache_block(t, k)
  PROVE  Contents'
<1>1. PICK w \in BOOLEAN : Finds(t, k, w) \/ (\E R : Loads(t, k, R)) \/ Guards(t, k, w)
  BY get_cache_blockCases
<1>2. CASE Finds(t, k, w)
  <2>1. ~cb[k].busy /\ cb[k].hashed /\ cb[k] \in CacheBlock
    BY <1>2 DEF Finds, Hit, Consistent, TypeOK
  <2>2. /\ Locked(cb[k]) \in CacheBlock /\ Locked(cb[k]).dirty = cb[k].dirty
        /\ Locked(cb[k]).func = cb[k].func /\ Locked(cb[k]).data = cb[k].data
    BY <2>1, LockedFields
  <2> QED
    BY <1>2, <2>1, <2>2, TakeContents DEF Finds
<1>3. CASE \E R : Loads(t, k, R)
  BY <1>3, LoadsContents
<1>4. CASE Guards(t, k, w)
  <2>1. cb[k] = Absent
    BY <1>4 DEF Guards, Miss, Consistent, ListsAgree
  <2>2. Guard.data = Absent.data /\ Guard.func = Absent.func /\ Guard.dirty = Absent.dirty
    BY DEF Guard, Absent
  <2> QED
    BY <1>4, <2>1, <2>2, AbsentFields, GuardFields, TakeContents DEF Guards
<1> QED
  BY <1>1, <1>2, <1>3, <1>4

\* get_cache_block_resume keeps what users and flushers know of the contents.
LEMMA get_cache_block_resumeContents ==
  ASSUME Consistent, Contents, NEW t \in Users, get_cache_block_resume(t)
  PROVE  Contents'
BY get_cache_block_resumeLoads, LoadsContents

\* The blocks that are read from the device were only allocated before.
LEMMA read_block_listFacts ==
  ASSUME Consistent, Contents, NEW t \in Users, read_block_list(t)
  PROVE  /\ pc[t] = "read" /\ list[t] \subseteq Blocks
         /\ \A b \in list[t] : /\ cb[b].data = Garbage /\ cb'[b].data = disk[b] /\ disk[b] \in Data
                               /\ cb'[b].hashed /\ ~cb'[b].dirty /\ ~cb'[b].func
         /\ \A b \in Blocks \ list[t] : cb'[b] = cb[b]
         /\ \A u \in Threads \ {t} : list[u] \cap list[t] = {}
<1>1. pc[t] = "read" /\ list[t] \subseteq Blocks /\ t \in Threads
  BY DEF read_block_list, Consistent, TypeOK, Threads
<1>2. ASSUME NEW b \in list[t]
      PROVE  /\ cb[b].data = Garbage /\ cb'[b].data = disk[b] /\ disk[b] \in Data
             /\ cb'[b].hashed /\ ~cb'[b].dirty /\ ~cb'[b].func
  <2>1. cb[b] \in CacheBlock /\ disk[b] \in Data /\ cb[b].data = Garbage /\ cb[b].hashed
    BY <1>1 DEF Consistent, TypeOK, UsersKnow, UserKnows, Contents, UserSees
  <2>2. ~cb[b].dirty /\ ~cb[b].func
    BY <1>1, <2>1 DEF Contents, BlockFilled
  <2>3. cb'[b] = [cb[b] EXCEPT !.data = disk[b]]
    BY <1>1 DEF read_block_list
  <2> QED
    BY <2>1, <2>2, <2>3 DEF CacheBlock
<1>3. \A b \in Blocks \ list[t] : cb'[b] = cb[b]
  BY DEF read_block_list
<1>4. \A u \in Threads \ {t} : list[u] \cap list[t] = {}
  BY <1>1, OwnersUnique DEF Owners
<1> QED
  BY <1>1, <1>2, <1>3, <1>4

\* read_block_list keeps what users and flushers know of the contents.
LEMMA read_block_listContents ==
  ASSUME Consistent, Contents, NEW t \in Users, read_block_list(t)
  PROVE  Contents'
<1>1. /\ pc[t] = "read" /\ list[t] \subseteq Blocks
      /\ \A b \in list[t] : /\ cb[b].data = Garbage /\ cb'[b].data = disk[b] /\ disk[b] \in Data
                            /\ cb'[b].hashed /\ ~cb'[b].dirty /\ ~cb'[b].func
      /\ \A b \in Blocks \ list[t] : cb'[b] = cb[b]
      /\ \A u \in Threads \ {t} : list[u] \cap list[t] = {}
  BY read_block_listFacts
<1>2. /\ \A u \in Users : pc'[u] = IF u = t THEN "loaded" ELSE pc[u]
      /\ nBlock' = nBlock /\ list' = list /\ disk' = disk /\ saved' = saved /\ Garbage \notin Data
  BY MovesFacts, BlockCacheTypes DEF read_block_list, flush
<1>3. ASSUME NEW b \in Blocks PROVE BlockFilled(b)'
  <2>1. BlockFilled(b)
    BY DEF Contents
  <2>2. Guarded(b) => Guarded(b)'
    BY <1>1, <1>2 DEF Guarded
  <2> QED
    BY <1>1, <1>2, <2>1, <2>2 DEF BlockFilled
<1>4. ASSUME NEW u \in Users PROVE UserSees(u)'
  <2>1. CASE u = t
    BY <1>1, <1>2, <2>1 DEF UserSees
  <2>2. CASE u # t
    <3>1. UserSees(u) /\ list[u] \subseteq Blocks \ list[t]
      BY <1>1, <2>2 DEF Contents, Consistent, TypeOK, Threads
    <3>2. pc[u] \in {"held", "modified", "marked", "copied"} => nBlock[u] \in Blocks
      BY NBlockType
    <3>3. pc[u] \in {"held", "modified", "marked", "copied"} => cb'[nBlock[u]].data # Garbage
      BY <1>1, <1>2, <3>1, <3>2 DEF UserSees
    <3> QED
      BY <1>1, <1>2, <2>2, <3>1, <3>3 DEF UserSees
  <2> QED
    BY <2>1, <2>2
<1>5. ASSUME NEW f \in Flushers PROVE WrittenStays(f)'
  <2>1. WrittenStays(f) /\ saved[f] \subseteq Blocks \ list[t]
    BY <1>1, BlockCacheTypes DEF Contents, Consistent, FlushersKnow, FlusherKnows, TypeOK, Threads
  <2> QED
    BY <1>1, <1>2, <2>1 DEF WrittenStays
<1> QED
  BY <1>3, <1>4, <1>5 DEF Contents

\* Entries that differ in the busy flag alone.
BusyOnly ==
  \A b \in Blocks : /\ cb'[b].hashed = cb[b].hashed /\ cb'[b].data = cb[b].data /\ cb'[b].dirty = cb[b].dirty
                    /\ cb'[b].ref = cb[b].ref /\ cb'[b].func = cb[b].func

\* A flusher marks or unmarks blocks.
Quiet ==
  /\ BusyOnly
  /\ \A u \in Users : pc'[u] = pc[u] /\ list'[u] = list[u]
  /\ UNCHANGED <<user, disk, saved, written>>

\* The end of a load changes the busy flags only.
LEMMA get_cache_block_loadedBusyOnly ==
  ASSUME Consistent, NEW t \in Users, get_cache_block_loaded(t)
  PROVE  BusyOnly
<1> SUFFICES ASSUME NEW b \in Blocks
             PROVE  /\ cb'[b].hashed = cb[b].hashed /\ cb'[b].data = cb[b].data /\ cb'[b].dirty = cb[b].dirty
                    /\ cb'[b].ref = cb[b].ref /\ cb'[b].func = cb[b].func
  BY DEF BusyOnly
<1>1. cb'[b] = (IF b \in list[t] THEN [cb[b] EXCEPT !.busy = FALSE] ELSE cb[b]) /\ cb[b] \in CacheBlock
  BY DEF get_cache_block_loaded, Consistent, TypeOK
<1> QED
  BY <1>1, BusyFields

\* get_cache_block_loaded keeps what users and flushers know of the contents.
LEMMA get_cache_block_loadedContents ==
  ASSUME Consistent, Contents, NEW t \in Users, get_cache_block_loaded(t)
  PROVE  Contents'
<1>1. BusyOnly /\ pc[t] = "loaded"
  BY get_cache_block_loadedBusyOnly DEF get_cache_block_loaded
<1>2. /\ \A u \in Users : pc'[u] = IF u = t THEN "held" ELSE pc[u]
      /\ \A u \in Users \ {t} : list'[u] = list[u]
      /\ nBlock' = nBlock /\ disk' = disk /\ saved' = saved
  BY MovesFacts DEF get_cache_block_loaded, flush, Consistent, TypeOK, Threads
<1>3. ASSUME NEW b \in Blocks PROVE BlockFilled(b)'
  <2>1. BlockFilled(b)
    BY DEF Contents
  <2>2. Guarded(b) => Guarded(b)'
    BY <1>1, <1>2 DEF Guarded
  <2> QED
    BY <1>1, <1>2, <2>1, <2>2 DEF BlockFilled, BusyOnly
<1>4. ASSUME NEW u \in Users PROVE UserSees(u)'
  <2>1. UserSees(u) /\ list[u] \subseteq Blocks /\ disk \in [Blocks -> Data] /\ Garbage \notin Data
    BY BlockCacheTypes DEF Contents, Consistent, TypeOK, Threads
  <2>2. pc[u] # "idle" => nBlock[u] \in Blocks
    BY NBlockType
  <2>3. CASE u = t
    <3>1. nBlock[t] \in list[t]
      BY <1>1 DEF Consistent, UsersKnow, UserKnows
    <3> QED
      BY <1>1, <1>2, <2>1, <2>2, <2>3, <3>1 DEF UserSees, BusyOnly
  <2>4. CASE u # t
    BY <1>1, <1>2, <2>1, <2>2, <2>4 DEF UserSees, BusyOnly
  <2> QED
    BY <2>3, <2>4
<1>5. ASSUME NEW f \in Flushers PROVE WrittenStays(f)'
  BY <1>1, <1>2 DEF WrittenStays, Contents, BusyOnly, Consistent, TypeOK
<1> QED
  BY <1>3, <1>4, <1>5 DEF Contents

\* A step that changes no data keeps Contents.
LEMMA QuietContents ==
  ASSUME Consistent, Contents, Quiet
  PROVE  Contents'
<1>1. /\ BusyOnly /\ \A u \in Users : pc'[u] = pc[u] /\ list'[u] = list[u]
      /\ nBlock' = nBlock /\ disk' = disk /\ saved' = saved
  BY DEF Quiet, user
<1>2. ASSUME NEW b \in Blocks PROVE BlockFilled(b)'
  BY <1>1 DEF Contents, BlockFilled, BusyOnly, Guarded
<1>3. ASSUME NEW u \in Users PROVE UserSees(u)'
  <2>1. UserSees(u) /\ list[u] \subseteq Blocks /\ (pc[u] # "idle" => nBlock[u] \in Blocks)
    BY NBlockType DEF Contents, Consistent, TypeOK, Threads
  <2> QED
    BY <1>1, <2>1 DEF UserSees, BusyOnly
<1>4. ASSUME NEW f \in Flushers PROVE WrittenStays(f)'
  BY <1>1 DEF WrittenStays, Contents, BusyOnly, Consistent, TypeOK
<1> QED
  BY <1>2, <1>3, <1>4 DEF Contents

\* Picking the blocks of a flush changes no data.
LEMMA StartsQuiet ==
  ASSUME Consistent, NEW t \in Flushers, NEW kind, NEW place, NEW L, NEW next, Starts(t, kind, place, L, next)
  PROVE  Quiet
<1>1. BusyOnly
  <2> SUFFICES ASSUME NEW b \in Blocks
               PROVE  /\ cb'[b].hashed = cb[b].hashed /\ cb'[b].data = cb[b].data /\ cb'[b].dirty = cb[b].dirty
                      /\ cb'[b].ref = cb[b].ref /\ cb'[b].func = cb[b].func
    BY DEF BusyOnly
  <2>1. cb[b] \in CacheBlock /\ (cb'[b] = [cb[b] EXCEPT !.busy = TRUE] \/ cb'[b] = cb[b])
    BY DEF Starts, SetBusy, Consistent, TypeOK
  <2> QED
    BY <2>1, BusyFields
<1>2. \A u \in Users : pc'[u] = pc[u] /\ list'[u] = list[u]
  BY BlockCacheTypes DEF Starts, Consistent, TypeOK, Threads
<1> QED
  BY <1>1, <1>2 DEF Quiet, Starts

\* Nor does going on to the next list.
LEMMA MovesOnQuiet ==
  ASSUME Consistent, NEW t \in Flushers, NEW L, NEW next, NEW place, MovesOn(t, L, next, place)
  PROVE  Quiet
<1>1. BusyOnly
  BY DEF BusyOnly, MovesOn
<1>2. \A u \in Users : pc'[u] = pc[u] /\ list'[u] = list[u]
  BY BlockCacheTypes DEF MovesOn, Consistent, TypeOK, Threads
<1> QED
  BY <1>1, <1>2 DEF Quiet, MovesOn

\* The beginnings of a flush.
Begun(t) == \E kind, place, L, next : Starts(t, kind, place, L, next)

\* The four ways to begin a flush.
LEMMA FlusherBegun ==
  ASSUME NEW t, NEW b,
         \/ cache_flusher(t) \/ flush_device_cache(t) \/ flush_cache_block(t, b) \/ flush_cache_block_resume(t)
  PROVE  Begun(t)
<1>1. CASE cache_flusher(t)
  BY <1>1 DEF cache_flusher, Begun
<1>2. CASE flush_device_cache(t)
  BY <1>2 DEF flush_device_cache, Begun
<1>3. ASSUME NEW bForward, NEW lo, NEW hi, Extend(t, bForward, lo, hi) PROVE Begun(t)
  BY <1>3 DEF Extend, Begun
<1>4. CASE flush_cache_block(t, b)
  BY <1>3, <1>4 DEF flush_cache_block
<1>5. CASE flush_cache_block_resume(t)
  BY <1>3, <1>5 DEF flush_cache_block_resume
<1> QED
  BY <1>1, <1>2, <1>4, <1>5

\* Blocks that are released are clean, and nobody else has to do with them.
LEMMA ReleasesFacts ==
  ASSUME Consistent, NEW t \in Flushers, NEW L, Releases(t, L)
  PROVE  /\ L \subseteq Blocks /\ \A b \in Blocks \ L : cb'[b] = cb[b]
         /\ \A b \in L : /\ cb[b].hashed /\ ~cb[b].dirty /\ cb[b].ref = 0 /\ Holders(b) = {}
                         /\ ~cb'[b].hashed /\ ~cb'[b].dirty /\ ~cb'[b].func /\ cb'[b].data = Garbage
                         /\ \A u \in Threads \ {t} : b \notin list[u] /\ u \notin Owners(b)
         /\ \A u \in Users : pc'[u] = pc[u] /\ list'[u] = list[u]
         /\ nBlock' = nBlock /\ disk' = disk /\ saved' = saved /\ written' = written /\ saved[t] = {}
<1>1. /\ L \subseteq bc_sNormal /\ bc_sNormal \subseteq Blocks
      /\ \A b \in L : cb[b].hashed /\ cb[b].ref = 0 /\ ~cb[b].dirty /\ (~cb[b].busy \/ b \in list[t])
  BY NormalHashed DEF Releases
<1>2. \A b \in Blocks : cb'[b] = IF b \in L THEN Absent ELSE cb[b]
  BY DEF Releases
<1>3. \A b \in L : Holders(b) = {}
  BY <1>1, HoldersFinite, FS_EmptySet DEF Consistent, ListsAgree
<1>4. \A b \in L : \A u \in Threads \ {t} : u \notin Owners(b)
  BY <1>1, NotUsers DEF Owners, Threads
<1>5. \A b \in L : \A u \in Threads \ {t} : b \notin list[u]
  BY <1>4 DEF Owners
<1>6. \A u \in Users : pc'[u] = pc[u] /\ list'[u] = list[u]
  BY BlockCacheTypes DEF Releases, Consistent, TypeOK, Threads
<1>7. nBlock' = nBlock /\ disk' = disk /\ saved' = saved /\ written' = written /\ saved[t] = {}
  BY DEF Releases, user
<1> QED
  BY <1>1, <1>2, <1>3, <1>4, <1>5, <1>6, <1>7, AbsentFields

\* Releasing blocks keeps Contents.
LEMMA ReleasesContents ==
  ASSUME Consistent, Contents, NEW t \in Flushers, NEW L, Releases(t, L)
  PROVE  Contents'
<1>1. /\ L \subseteq Blocks /\ \A b \in Blocks \ L : cb'[b] = cb[b]
      /\ \A b \in L : /\ cb[b].hashed /\ ~cb[b].dirty /\ cb[b].ref = 0 /\ Holders(b) = {}
                      /\ ~cb'[b].hashed /\ ~cb'[b].dirty /\ ~cb'[b].func /\ cb'[b].data = Garbage
                      /\ \A u \in Threads \ {t} : b \notin list[u] /\ u \notin Owners(b)
      /\ \A u \in Users : pc'[u] = pc[u] /\ list'[u] = list[u]
      /\ nBlock' = nBlock /\ disk' = disk /\ saved' = saved /\ saved[t] = {}
  BY ReleasesFacts
<1>2. ASSUME NEW b \in Blocks PROVE BlockFilled(b)'
  BY <1>1 DEF Contents, BlockFilled, Guarded
<1>3. ASSUME NEW u \in Users PROVE UserSees(u)'
  <2>1. UserSees(u) /\ list[u] \subseteq Blocks \ L
    BY <1>1, BlockCacheTypes DEF Contents, Consistent, TypeOK, Threads
  <2>2. pc[u] \in {"held", "modified", "marked", "copied"} => nBlock[u] \in Blocks \ L
    BY <1>1, NBlockType DEF Holders
  <2> QED
    BY <1>1, <2>1, <2>2 DEF UserSees
<1>4. ASSUME NEW f \in Flushers PROVE WrittenStays(f)'
  <2>1. WrittenStays(f) /\ saved[f] \subseteq list[f] /\ list[f] \subseteq Blocks
    BY DEF Contents, Consistent, FlushersKnow, FlusherKnows, TypeOK, Threads
  <2>2. saved[f] \subseteq Blocks \ L
    BY <1>1, <2>1 DEF WrittenStays
  <2> QED
    BY <1>1, <2>1, <2>2 DEF WrittenStays
<1> QED
  BY <1>2, <1>3, <1>4 DEF Contents

\* A block of the list is written, or passed over, or the device fails.
LEMMA flush_block_listFacts ==
  ASSUME Consistent, NEW t \in Flushers, flush_block_list(t)
  PROVE  /\ UNCHANGED <<cb, user, list, written>>
         /\ \A u \in Users : pc'[u] = pc[u]
         /\ \A f \in Flushers \ {t} : /\ pc'[f] = pc[f] /\ left'[f] = left[f]
                                     /\ saved'[f] = saved[f]
         /\ \E b \in left[t] :
              \/ /\ cb[b].ref = 0 /\ cb[b].dirty /\ b \in list[t]
                 /\ disk' = [disk EXCEPT ![b] = cb[b].data] /\ saved'[t] = saved[t] \cup {b}
                 /\ left'[t] = left[t] \ {b}
              \/ /\ cb[b].ref > 0 \/ ~cb[b].dirty
                 /\ disk' = disk /\ saved'[t] = saved[t]
                 /\ left'[t] = left[t] \ {b}
              \/ disk' = disk /\ saved'[t] = saved[t]
<1>1. t \in Threads /\ t \notin Users
  BY BlockCacheTypes DEF Threads
<1>2. UNCHANGED <<cb, user, list, written>> /\ \A u \in Users : pc'[u] = pc[u]
  BY <1>1 DEF flush_block_list, Consistent, TypeOK, Threads
<1>3. PICK b \in left[t] :
        \/ /\ left' = [left EXCEPT ![t] = @ \ {b}]
           /\ IF cb[b].ref = 0 /\ cb[b].dirty
              THEN disk' = [disk EXCEPT ![b] = cb[b].data] /\ saved' = [saved EXCEPT ![t] = @ \cup {b}]
              ELSE UNCHANGED <<disk, saved>>
        \/ /\ \E S : left' = [left EXCEPT ![t] = S]
           /\ UNCHANGED <<disk, saved>>
  BY DEF flush_block_list
<1>4. /\ b \in list[t] /\ cb[b].ref \in Nat
      /\ left \in [Flushers -> SUBSET Blocks] /\ saved \in [Flushers -> SUBSET Blocks]
  BY DEF Consistent, FlushersKnow, FlusherKnows, TypeOK, CacheBlock
<1>5. \A f \in Flushers \ {t} : left'[f] = left[f] /\ saved'[f] = saved[f]
  BY <1>3, <1>4
<1>6. \A f \in Flushers \ {t} : pc'[f] = pc[f]
  BY DEF flush_block_list, Consistent, TypeOK, Threads
<1> QED
  BY <1>2, <1>3, <1>4, <1>5, <1>6

\* flush_block_list keeps what users and flushers know of the contents.
LEMMA flush_block_listContents ==
  ASSUME Consistent, Contents, NEW t \in Flushers, flush_block_list(t)
  PROVE  Contents'
<1>1. /\ cb' = cb /\ nBlock' = nBlock /\ list' = list
      /\ \A u \in Users : pc'[u] = pc[u]
      /\ \A f \in Flushers \ {t} : saved'[f] = saved[f]
  BY flush_block_listFacts DEF user
<1>2. PICK b \in left[t] :
        \/ /\ cb[b].ref = 0 /\ cb[b].dirty /\ b \in list[t]
           /\ disk' = [disk EXCEPT ![b] = cb[b].data] /\ saved'[t] = saved[t] \cup {b}
        \/ disk' = disk /\ saved'[t] = saved[t]
  BY flush_block_listFacts
<1>3. b \in Blocks /\ t \in Threads /\ t \notin Users /\ disk \in [Blocks -> Data]
  BY BlockCacheTypes DEF Consistent, TypeOK, Threads
<1>4. ASSUME NEW k \in Blocks PROVE BlockFilled(k)'
  BY <1>1 DEF Contents, BlockFilled, Guarded
<1>5. ASSUME NEW u \in Users PROVE UserSees(u)'
  <2>1. UserSees(u) /\ list[u] \subseteq Blocks
    BY DEF Contents, Consistent, TypeOK, Threads
  <2>2. \A k \in Blocks : k # b \/ ~cb[b].dirty => disk'[k] = disk[k]
    BY <1>2, <1>3
  <2> QED
    BY <1>1, <2>1, <2>2 DEF UserSees
<1>6. ASSUME NEW f \in Flushers PROVE WrittenStays(f)'
  <2>1. WrittenStays(f) /\ saved[f] \subseteq Blocks
    BY DEF Contents, Consistent, TypeOK
  <2>2. \A k \in Blocks : disk'[k] = disk[k] \/ disk'[k] = cb[k].data
    BY <1>2, <1>3
  <2>3. CASE f # t
    BY <1>1, <2>1, <2>2, <2>3 DEF WrittenStays
  <2>4. CASE f = t
    BY <1>1, <1>2, <1>3, <2>1, <2>2, <2>4 DEF WrittenStays
  <2> QED
    BY <2>3, <2>4
<1> QED
  BY <1>4, <1>5, <1>6 DEF Contents

\* The blocks that count as written are clean, and the others as they were.
LEMMA CleanFacts ==
  ASSUME Consistent, NEW t \in Flushers, flush_block_list_clean(t), NEW S, S = Cleaned(list[t])
  PROVE  /\ pc[t] = "clean" /\ S \subseteq Blocks
         /\ \A b \in S : /\ b \in list[t] /\ cb[b].dirty /\ cb[b].ref = 0 /\ cb[b].hashed /\ Holders(b) = {}
                         /\ cb'[b].hashed /\ cb'[b].data = cb[b].data /\ ~cb'[b].dirty /\ ~cb'[b].func
                         /\ \A u \in Threads \ {t} : b \notin list[u]
                         /\ written'[b] = IF b \in saved[t] THEN written[b] ELSE Data
         /\ \A b \in Blocks \ S : cb'[b] = cb[b] /\ written'[b] = written[b]
         /\ \A u \in Users : pc'[u] = pc[u]
         /\ nBlock' = nBlock /\ disk' = disk /\ list' = list
         /\ saved'[t] = {} /\ \A f \in Flushers \ {t} : saved'[f] = saved[f]
<1>1. t \in Threads /\ t \notin Users /\ pc[t] = "clean" /\ list[t] \subseteq Blocks
  BY BlockCacheTypes DEF Threads, flush_block_list_clean, Consistent, TypeOK
<1>2. S \subseteq Blocks /\ \A b \in S : b \in list[t] /\ cb[b].dirty /\ cb[b].ref = 0
  BY <1>1 DEF Cleaned
<1>3. /\ cb' = [b \in Blocks |-> IF b \in S THEN [cb[b] EXCEPT !.dirty = FALSE, !.func = FALSE] ELSE cb[b]]
      /\ written' = [b \in Blocks |-> IF b \in S \ saved[t] THEN Data ELSE written[b]]
      /\ pc' = [pc EXCEPT ![t] = "end"] /\ saved' = [saved EXCEPT ![t] = {}]
      /\ nBlock' = nBlock /\ disk' = disk /\ list' = list
  BY DEF flush_block_list_clean, user
<1>4. ASSUME NEW b \in S
      PROVE  /\ cb[b].hashed /\ Holders(b) = {}
             /\ cb'[b].hashed /\ cb'[b].data = cb[b].data /\ ~cb'[b].dirty /\ ~cb'[b].func
             /\ \A u \in Threads \ {t} : b \notin list[u]
             /\ written'[b] = IF b \in saved[t] THEN written[b] ELSE Data
  <2>1. cb[b] \in CacheBlock /\ b \in Blocks /\ cb[b].dirty /\ b \in list[t] /\ cb[b].ref = 0
    BY <1>2 DEF Consistent, TypeOK
  <2>2. cb[b].hashed
    BY <2>1, AbsentFields DEF Consistent, ListsAgree
  <2>3. cb'[b] = [cb[b] EXCEPT !.dirty = FALSE, !.func = FALSE] /\ written'[b] = IF b \in saved[t] THEN written[b] ELSE Data
    BY <1>3, <2>1
  <2>4. cb'[b].hashed /\ cb'[b].data = cb[b].data /\ ~cb'[b].dirty /\ ~cb'[b].func
    BY ONLY <2>1, <2>2, <2>3 DEF CacheBlock
  <2>5. \A u \in Threads \ {t} : b \notin list[u]
    BY <1>1, <2>1, OwnersUnique DEF Owners
  <2>6. Holders(b) = {}
    BY <2>1, HoldersFinite, FS_EmptySet DEF Consistent, ListsAgree
  <2> QED
    BY <2>2, <2>3, <2>4, <2>5, <2>6
<1>5. \A b \in Blocks \ S : cb'[b] = cb[b] /\ written'[b] = written[b]
  BY <1>3
<1>6. /\ \A u \in Users : pc'[u] = pc[u]
      /\ saved'[t] = {} /\ \A f \in Flushers \ {t} : saved'[f] = saved[f]
  BY <1>1, <1>3 DEF Consistent, TypeOK, Threads
<1> QED
  BY <1>1, <1>2, <1>3, <1>4, <1>5, <1>6

\* flush_block_list_clean keeps what users and flushers know of the contents.
LEMMA flush_block_list_cleanContents ==
  ASSUME Consistent, Contents, NEW t \in Flushers, flush_block_list_clean(t)
  PROVE  Contents'
<1>0. PICK S : S = Cleaned(list[t])
  OBVIOUS
<1>1. /\ S \subseteq Blocks
      /\ \A b \in S : /\ cb'[b].hashed /\ cb'[b].data = cb[b].data /\ ~cb'[b].dirty /\ ~cb'[b].func
                      /\ cb[b].dirty /\ cb[b].hashed /\ \A u \in Threads \ {t} : b \notin list[u]
      /\ \A b \in Blocks \ S : cb'[b] = cb[b]
      /\ \A u \in Users : pc'[u] = pc[u]
      /\ nBlock' = nBlock /\ disk' = disk /\ list' = list
      /\ saved'[t] = {} /\ \A f \in Flushers \ {t} : saved'[f] = saved[f]
  BY <1>0, CleanFacts
<1>2. ASSUME NEW b \in Blocks PROVE BlockFilled(b)'
  BY <1>1 DEF Contents, BlockFilled, Guarded
<1>3. ASSUME NEW u \in Users PROVE UserSees(u)'
  <2>1. UserSees(u) /\ list[u] \subseteq Blocks \ S
    BY <1>1, BlockCacheTypes DEF Contents, Consistent, TypeOK, Threads
  <2>2. pc[u] # "idle" => nBlock[u] \in Blocks
    BY NBlockType
  <2>3. \A b \in Blocks : cb'[b].data = cb[b].data
    BY <1>1
  <2> QED
    BY <1>1, <2>1, <2>2, <2>3 DEF UserSees
<1>4. ASSUME NEW f \in Flushers PROVE WrittenStays(f)'
  <2>1. WrittenStays(f) /\ saved[f] \subseteq list[f] /\ list[f] \subseteq Blocks
    BY DEF Contents, Consistent, FlushersKnow, FlusherKnows, TypeOK, Threads
  <2>2. f # t => saved[f] \subseteq Blocks \ S
    BY <1>1, <2>1 DEF Threads
  <2> QED
    BY <1>1, <2>1, <2>2 DEF WrittenStays
<1> QED
  BY <1>2, <1>3, <1>4 DEF Contents

\* An empty cache has Contents.
LEMMA InitContents ==
  Init => Contents
<1> SUFFICES ASSUME Init PROVE Contents
  OBVIOUS
<1>1. \A b \in Blocks : cb[b] = Absent
  BY DEF Init
<1>2. \A b \in Blocks : BlockFilled(b)
  BY <1>1, AbsentFields DEF BlockFilled
<1>3. \A t \in Users : UserSees(t)
  BY DEF Init, UserSees, Threads
<1>4. \A t \in Flushers : WrittenStays(t)
  BY DEF Init, WrittenStays
<1> QED
  BY <1>2, <1>3, <1>4 DEF Contents

-----------------------------------------------------------------------------
(* The steps together.                                                     *)

\* What a step is, with the actions of flushers in groups: a flush begins,
\* writes a block, notes what it wrote, goes on or ends, and blocks are released.
LEMMA NextCases ==
  ASSUME Consistent, Next
  PROVE  \/ \E t \in Users, b \in Blocks :
              \/ get_cache_block(t, b) \/ get_empty_block(t, b)
              \/ \E v \in Data : cached_write(t, b, v) \/ write_logged_blocks(t, b, v)
         \/ \E t \in Users : UserStep(t)
         \/ \E t \in Flushers :
              \/ Begun(t) \/ flush_block_list(t) \/ flush_block_list_clean(t)
              \/ \E L, next, place : MovesOn(t, L, next, place)
              \/ \E L : Releases(t, L)
<1>1. CASE \E t \in Flushers :
             \/ FlushStep(t)
             \/ "cache_flusher" \in Jobs[t] /\ cache_flusher(t)
             \/ "flush_device_cache" \in Jobs[t] /\ flush_device_cache(t)
             \/ "release_cache_blocks" \in Jobs[t] /\ release_cache_blocks(t)
             \/ "flush_cache_block" \in Jobs[t] /\ \E b \in Blocks : flush_cache_block(t, b)
  <2>1. PICK t \in Flushers :
             \/ FlushStep(t)
             \/ cache_flusher(t) \/ flush_device_cache(t) \/ release_cache_blocks(t)
             \/ \E b \in Blocks : flush_cache_block(t, b)
    BY <1>1
  <2>2. CASE \/ flush_cache_block_resume(t) \/ cache_flusher(t) \/ flush_device_cache(t)
             \/ \E b \in Blocks : flush_cache_block(t, b)
    BY <2>2, FlusherBegun
  <2>3. CASE release_cache_blocks(t)
    BY <2>3, release_cache_blocksCases DEF Begun
  <2>4. CASE release_ends(t)
    BY <2>4, release_endsReleases
  <2>5. CASE flush_ends(t)
    BY <2>5, flush_endsMovesOn
  <2>6. CASE flush_device_cache_resume(t)
    BY <2>6, flush_device_cache_resumeMovesOn
  <2>7. CASE flush_block_list(t) \/ flush_block_list_clean(t)
    BY <2>7
  <2> QED
    BY <2>1, <2>2, <2>3, <2>4, <2>5, <2>6, <2>7 DEF FlushStep
<1> QED
  BY <1>1 DEF Next

\* Every step keeps Consistent.
LEMMA NextConsistent ==
  ASSUME Consistent, Contents, Next
  PROVE  Consistent'
<1>1. ASSUME NEW t \in Users, NEW b \in Blocks,
             \/ get_cache_block(t, b) \/ get_empty_block(t, b)
             \/ \E v \in Data : cached_write(t, b, v) \/ write_logged_blocks(t, b, v)
      PROVE  Consistent'
  BY <1>1, get_cache_blockConsistent, get_empty_blockConsistent, cached_writeConsistent, write_logged_blocksConsistent
<1>2. ASSUME NEW t \in Users, UserStep(t) PROVE Consistent'
  BY <1>2, get_cache_block_resumeConsistent, read_block_listConsistent, get_cache_block_loadedConsistent,
     modifyConsistent, mark_blocks_dirtyConsistent, release_cache_blockConsistent, cached_write_copyConsistent,
     cached_write_endConsistent DEF UserStep
<1>3. ASSUME NEW t \in Flushers, FlushStep(t) PROVE Consistent'
  BY <1>3, flush_block_listConsistent, flush_block_list_cleanConsistent, flush_endsMovesOn,
     flush_device_cache_resumeMovesOn, MovesOnConsistent, flush_cache_block_resumeConsistent,
     release_endsConsistent DEF FlushStep
<1>4. ASSUME NEW t \in Flushers,
             \/ cache_flusher(t) \/ flush_device_cache(t) \/ release_cache_blocks(t)
             \/ \E b \in Blocks : flush_cache_block(t, b)
      PROVE  Consistent'
  BY <1>4, cache_flusherConsistent, flush_device_cacheConsistent, release_cache_blocksConsistent,
     flush_cache_blockConsistent
<1> QED
  BY <1>1, <1>2, <1>3, <1>4 DEF Next

\* Every step keeps Contents.
LEMMA NextContents ==
  ASSUME Consistent, Contents, Next
  PROVE  Contents'
<1>1. ASSUME NEW t \in Users, NEW b \in Blocks,
             \/ get_cache_block(t, b) \/ get_empty_block(t, b)
             \/ \E v \in Data : cached_write(t, b, v) \/ write_logged_blocks(t, b, v)
      PROVE  Contents'
  BY <1>1, get_cache_blockContents, get_empty_blockContents, cached_writeContents, write_logged_blocksContents
<1>2. ASSUME NEW t \in Users, UserStep(t) PROVE Contents'
  BY <1>2, get_cache_block_resumeContents, read_block_listContents, get_cache_block_loadedContents,
     modifyContents, mark_blocks_dirtyContents, release_cache_blockContents, cached_write_copyContents,
     cached_write_endContents DEF UserStep
<1>3. ASSUME NEW t \in Flushers,
              \/ Begun(t) \/ flush_block_list(t) \/ flush_block_list_clean(t)
              \/ \E L, next, place : MovesOn(t, L, next, place)
              \/ \E L : Releases(t, L)
      PROVE Contents'
  <2>1. CASE Begun(t)
    BY <2>1, StartsQuiet, QuietContents DEF Begun
  <2>2. CASE \E L, next, place : MovesOn(t, L, next, place)
    BY <2>2, MovesOnQuiet, QuietContents
  <2> QED
    BY <1>3, <2>1, <2>2, flush_block_listContents, flush_block_list_cleanContents, ReleasesContents
<1> QED
  BY <1>1, <1>2, <1>3, NextCases

\* BlockCache keeps its lists, counts, busy flags and contents consistent:
\* a busy block always has exactly one thread that will free it, a locked block
\* has as many references as users that hold it and is in bc_sLocked, an
\* unlocked one in bc_sNormal, nobody sees the contents of a block that was only
\* allocated, and the block where flush_device_cache goes on stays in the list.
THEOREM BlockCacheInv == Spec => []Inv
<1>1. Init => Inv
  BY InitConsistent, InitContents DEF Inv
<1>2. Inv /\ [Next]_vars => Inv'
  <2> SUFFICES ASSUME Inv, [Next]_vars PROVE Inv'
    OBVIOUS
  <2>1. CASE Next
    BY <2>1, NextConsistent, NextContents DEF Inv
  <2>2. CASE UNCHANGED vars
    <3>1. UNCHANGED <<disk, cb, bc_sNormal, older, bc_sLocked, bc_nDirtyCount, pc, nBlock, bWrite, pBuffer, calls,
                      list, job, left, psBuffer, saved, written>>
      BY <2>2 DEF vars, lists, user, flush
    <3>2. TypeOK' /\ Ordered'
      BY <3>1 DEF Inv, Consistent, TypeOK, Ordered
    <3>3. \A b : Holders(b)' = Holders(b) /\ Guarded(b)' = Guarded(b) /\ Owners(b)' = Owners(b)
      BY <3>1 DEF Holders, Guarded, Owners
    <3>4. ListsAgree' /\ BusyOwned'
      BY <3>1, <3>3 DEF Inv, Consistent, ListsAgree, BusyOwned
    <3>5. UsersKnow' /\ FlushersKnow'
      BY <3>1, <3>3 DEF Inv, Consistent, UsersKnow, FlushersKnow, UserKnows, FlusherKnows
    <3>6. Contents'
      BY <3>1, <3>3 DEF Inv, Contents, BlockFilled, UserSees, WrittenStays
    <3> QED
      BY <3>2, <3>4, <3>5, <3>6 DEF Inv, Consistent
  <2> QED
    BY <2>1, <2>2
<1> QED
  BY <1>1, <1>2, PTL DEF Spec

-----------------------------------------------------------------------------
(* What was written last is kept.                                          *)

\* A step leaves what a user would see of b.
KeepsBlock(b) ==
  /\ disk'[b] = disk[b] /\ written'[b] = written[b] /\ cb'[b].data = cb[b].data
  /\ cb[b].data # Garbage => cb'[b].hashed = cb[b].hashed
  /\ cb[b].dirty => cb'[b].dirty
  /\ Changing(b) => Changing(b)' \/ cb'[b].dirty

\* A step that keeps a block's last contents keeps what LastWriteKept says of
\* it.
LEMMA KeepsKept ==
  ASSUME NEW b, Kept(b), KeepsBlock(b)
  PROVE  Kept(b)'
BY DEF Kept, KeepsBlock, Content

\* What is not in the table has no contents.
LEMMA DataHashed ==
  ASSUME Consistent, NEW b \in Blocks, cb[b].data # Garbage \/ cb[b].dirty
  PROVE  cb[b].hashed
BY AbsentFields DEF Consistent, ListsAgree

\* Taking a reference keeps the last contents of every block ...
LEMMA TakeKeeps ==
  ASSUME Consistent, NEW t \in Users, NEW k \in Blocks, NEW w, NEW v, NEW place,
         Begins(t, k, w, v, place), NEW e \in CacheBlock, cb' = [cb EXCEPT ![k] = e],
         e.data = cb[k].data, e.dirty = cb[k].dirty, e.hashed, disk' = disk, written' = written
  PROVE  \A b \in Blocks : KeepsBlock(b)
<1> TAKE b \in Blocks
<1>1. cb'[k] = e /\ \A x \in Blocks \ {k} : cb'[x] = cb[x]
  BY EntrySet DEF Consistent, TypeOK
<1>2. /\ \A u \in Users : u # t => pc'[u] = pc[u] /\ nBlock'[u] = nBlock[u]
      /\ pc[t] = "idle"
  BY BeginsFacts
<1>3. Changing(b) => Changing(b)'
  BY <1>2 DEF Changing
<1>4. cb[k].data # Garbage => cb[k].hashed = e.hashed
  <2>1. cb[k].data # Garbage => cb[k].hashed
    BY DataHashed
  <2>2. cb[k].hashed \in BOOLEAN /\ e.hashed \in BOOLEAN
    BY DEF Consistent, TypeOK, CacheBlock
  <2> QED
    BY <2>1, <2>2
<1> QED
  BY <1>1, <1>3, <1>4 DEF KeepsBlock

\* ... and so does loading a range.
LEMMA LoadsKeeps ==
  ASSUME Consistent, NEW t \in Users, NEW k \in Blocks, NEW R, Loads(t, k, R)
  PROVE  \A b \in Blocks : KeepsBlock(b)
<1> TAKE b \in Blocks
<1>1. /\ R \subseteq Blocks /\ k \in R /\ (\A x \in R \ {k} : ~cb[x].hashed) /\ Load(t, k, R) /\ Reads(t, k)
      /\ disk' = disk /\ written' = written
  BY DEF Loads
<1>2. /\ \A x \in Blocks \ R : cb'[x] = cb[x]
      /\ \A x \in R : cb'[x].data = Garbage
  BY <1>1, LoadFacts
<1>3. \A x \in R : cb[x].data = Garbage /\ ~cb[x].dirty
  BY <1>1, LoadAlone
<1>4. Changing(b) => Changing(b)'
  BY <1>1 DEF Changing, Reads
<1> QED
  BY <1>1, <1>2, <1>3, <1>4 DEF KeepsBlock

\* The calls that begin a use of a block keep LastWriteKept.
LEMMA CallsKept ==
  ASSUME Consistent, Contents, LastWriteKept, NEW t \in Users, NEW k \in Blocks,
         \/ get_cache_block(t, k) \/ get_empty_block(t, k) \/ (\E v \in Data : cached_write(t, k, v))
  PROVE  LastWriteKept'
<1> SUFFICES \A b \in Blocks : KeepsBlock(b)
  BY KeepsKept DEF LastWriteKept
<1>1. CASE get_cache_block(t, k)
  <2>1. PICK w \in BOOLEAN : Finds(t, k, w) \/ (\E R : Loads(t, k, R)) \/ Guards(t, k, w)
    BY <1>1, get_cache_blockCases
  <2>2. CASE Finds(t, k, w)
    <3>1. cb[k].hashed /\ cb[k] \in CacheBlock
      BY <2>2 DEF Finds, Hit, Consistent, TypeOK
    <3>2. /\ Locked(cb[k]) \in CacheBlock /\ Locked(cb[k]).dirty = cb[k].dirty
          /\ Locked(cb[k]).hashed /\ Locked(cb[k]).data = cb[k].data
      BY <3>1, LockedFields
    <3> QED
      BY <2>2, <3>2, TakeKeeps DEF Finds
  <2>3. CASE \E R : Loads(t, k, R)
    BY <2>3, LoadsKeeps
  <2>4. CASE Guards(t, k, w)
    <3>1. cb[k] = Absent
      BY <2>4 DEF Guards, Miss, Consistent, ListsAgree
    <3>2. Guard.data = Absent.data /\ Guard.dirty = Absent.dirty
      BY DEF Guard, Absent
    <3> QED
      BY <2>4, <3>1, <3>2, GuardFields, TakeKeeps DEF Guards
  <2> QED
    BY <2>1, <2>2, <2>3, <2>4
<1>2. CASE get_empty_block(t, k)
  <2>1. ~cb[k].busy
    BY <1>2 DEF get_empty_block
  <2> QED
    BY <1>2, <2>1, EmptyBlockFields, TakeKeeps DEF get_empty_block
<1>3. CASE \E v \in Data : cached_write(t, k, v)
  <2>1. ~cb[k].busy
    BY <1>3 DEF cached_write
  <2> QED
    BY <1>3, <2>1, EmptyBlockFields, TakeKeeps DEF cached_write
<1> QED
  BY <1>1, <1>2, <1>3

\* The block is written; the others stay.
LEMMA WriteKept ==
  ASSUME Consistent, LastWriteKept, NEW k \in Blocks, NEW v \in Data,
         \A b \in Blocks \ {k} : KeepsBlock(b),
         cb'[k].hashed, cb'[k].data = v, written'[k] = {v}, cb'[k].dirty \/ Changing(k)'
  PROVE  LastWriteKept'
<1>1. ASSUME NEW b \in Blocks \ {k} PROVE Kept(b)'
  BY KeepsKept DEF LastWriteKept
<1>2. Kept(k)'
  BY BlockCacheTypes DEF Kept, Content
<1> QED
  BY <1>1, <1>2 DEF LastWriteKept

\* A change of the data is the last write.
LEMMA FillKept ==
  ASSUME Consistent, LastWriteKept, NEW t \in Users, NEW k \in Blocks, NEW v \in Data, NEW place \in {"modified", "copied"},
         k = nBlock[t], pc[t] \in {"held", "empty", "copy"}, Moves(t, place), cb' = [cb EXCEPT ![k].data = v],
         written' = [written EXCEPT ![k] = {v}], disk' = disk
  PROVE  LastWriteKept'
<1>1. t \in Holders(k)
  BY DEF Holders
<1>2. cb[k] \in CacheBlock /\ cb[k].hashed
  BY <1>1, HeldHashed DEF Consistent, TypeOK
<1>3. cb'[k].data = v /\ cb'[k].hashed /\ \A b \in Blocks \ {k} : cb'[b] = cb[b]
  BY <1>2 DEF Consistent, TypeOK, CacheBlock
<1>4. written'[k] = {v} /\ \A b \in Blocks \ {k} : written'[b] = written[b]
  BY DEF Consistent, TypeOK
<1>5. Changing(k)' /\ \A b \in Blocks \ {k} : Changing(b) => Changing(b)'
  BY MovesFacts DEF Changing
<1>6. \A b \in Blocks \ {k} : KeepsBlock(b)
  BY <1>3, <1>4, <1>5 DEF KeepsBlock
<1> QED
  BY <1>3, <1>4, <1>5, <1>6, WriteKept

\* So are the data the journal hands over.
LEMMA write_logged_blocksKept ==
  ASSUME Consistent, LastWriteKept, NEW t \in Users, NEW k \in Blocks, NEW v \in Data, write_logged_blocks(t, k, v)
  PROVE  LastWriteKept'
<1> DEFINE m == Marked(EmptyBlock(k))
           d == [m EXCEPT !.data = v, !.func = TRUE]
           e == Unlocked(d)
<1>1. ~cb[k].busy /\ cb' = [cb EXCEPT ![k] = e] /\ written' = [written EXCEPT ![k] = {v}] /\ UNCHANGED <<disk, pc, nBlock>>
  BY DEF write_logged_blocks
<1>2. /\ cb \in [Blocks -> CacheBlock] /\ cb[k].ref \in Nat
  BY BlockCacheTypes DEF Consistent, TypeOK, CacheBlock
<1>3. EmptyBlock(k) \in CacheBlock /\ EmptyBlock(k).ref = cb[k].ref + 1 /\ EmptyBlock(k).hashed
  BY <1>1, EmptyBlockFields
<1>4. m \in CacheBlock /\ m.ref = cb[k].ref + 1 /\ m.dirty /\ m.hashed
  BY <1>3, MarkedFields
<1> HIDE DEF m
<1>5. d \in CacheBlock /\ d.ref = cb[k].ref + 1 /\ d.dirty /\ d.data = v /\ d.hashed
  BY <1>4 DEF CacheBlock
<1> HIDE DEF d
<1>6. e \in CacheBlock /\ e.dirty /\ e.data = v /\ e.hashed
  BY <1>2, <1>5, UnlockedFields
<1> HIDE DEF e
<1>7. cb'[k] = e /\ \A b \in Blocks \ {k} : cb'[b] = cb[b]
  BY <1>1, <1>2, <1>6, EntrySet
<1>8. written'[k] = {v} /\ \A b \in Blocks \ {k} : written'[b] = written[b]
  BY <1>1 DEF Consistent, TypeOK
<1>9. \A b \in Blocks \ {k} : KeepsBlock(b)
  BY <1>1, <1>7, <1>8 DEF KeepsBlock, Changing
<1> QED
  BY <1>6, <1>7, <1>8, <1>9, WriteKept

\* A block that its user marks or lets go.
LEMMA LeaveKeeps ==
  ASSUME Consistent, NEW t \in Users, NEW k \in Blocks, k = nBlock[t], NEW e \in CacheBlock, cb' = [cb EXCEPT ![k] = e],
         e.data = cb[k].data, e.hashed = cb[k].hashed, cb[k].dirty => e.dirty, e.dirty \/ pc[t] \in {"held", "marked"},
         \A u \in Users \ {t} : pc'[u] = pc[u] /\ nBlock'[u] = nBlock[u], disk' = disk, written' = written
  PROVE  \A b \in Blocks : KeepsBlock(b)
<1> TAKE b \in Blocks
<1>1. cb'[k] = e /\ \A x \in Blocks \ {k} : cb'[x] = cb[x]
  BY EntrySet DEF Consistent, TypeOK
<1>2. Changing(b) => Changing(b)' \/ cb'[b].dirty
  BY <1>1 DEF Changing
<1> QED
  BY <1>1, <1>2 DEF KeepsBlock

\* The steps of a user keep LastWriteKept.
LEMMA UserStepKept ==
  ASSUME Consistent, Contents, LastWriteKept, NEW t \in Users, UserStep(t)
  PROVE  LastWriteKept'
<1>0. PICK k : k = nBlock[t]
  OBVIOUS
<1>1. ASSUME \A b \in Blocks : KeepsBlock(b) PROVE LastWriteKept'
  BY <1>1, KeepsKept DEF LastWriteKept
<1>2. CASE get_cache_block_resume(t)
  BY <1>1, <1>2, get_cache_block_resumeLoads, LoadsKeeps
<1>3. CASE read_block_list(t)
  <2>1. /\ pc[t] = "read" /\ list[t] \subseteq Blocks
        /\ \A b \in list[t] : cb[b].data = Garbage /\ cb'[b].data = disk[b] /\ disk[b] \in Data /\ cb'[b].hashed
        /\ \A b \in Blocks \ list[t] : cb'[b] = cb[b]
    BY <1>3, read_block_listFacts
  <2>2. disk' = disk /\ written' = written /\ \A b : Changing(b) => Changing(b)'
    BY <1>3, <2>1, MovesFacts DEF read_block_list, Changing
  <2>3. ASSUME NEW b \in list[t] PROVE Kept(b)'
    BY <2>1, <2>2, BlockCacheTypes DEF LastWriteKept, Kept, Content
  <2>4. ASSUME NEW b \in Blocks \ list[t] PROVE Kept(b)'
    BY <2>1, <2>2, KeepsKept DEF KeepsBlock, LastWriteKept
  <2> QED
    BY <2>3, <2>4 DEF LastWriteKept
<1>4. CASE get_cache_block_loaded(t)
  <2>1. \A b : Changing(b) => Changing(b)'
    BY <1>4, MovesFacts DEF get_cache_block_loaded, Changing
  <2>2. \A b \in Blocks : KeepsBlock(b)
    BY <1>4, <2>1, get_cache_block_loadedBusyOnly DEF get_cache_block_loaded, BusyOnly, KeepsBlock
  <2> QED
    BY <1>1, <2>2
<1>5. CASE modify(t)
  <2>1. k \in Blocks
    BY <1>0, <1>5, NBlockType DEF modify
  <2> QED
    BY <1>0, <1>5, <2>1, FillKept DEF modify
<1>6. CASE cached_write_copy(t)
  <2>1. k \in Blocks /\ pBuffer[t] \in Data
    BY <1>0, <1>6, NBlockType DEF cached_write_copy, Consistent, UsersKnow, UserKnows
  <2> QED
    BY <1>0, <1>6, <2>1, FillKept DEF cached_write_copy
<1>7. CASE mark_blocks_dirty(t)
  <2>1. k \in Blocks
    BY <1>0, <1>7, NBlockType DEF mark_blocks_dirty
  <2>2. cb[k] \in CacheBlock
    BY <2>1 DEF Consistent, TypeOK
  <2>3. \A u \in Users \ {t} : pc'[u] = pc[u] /\ nBlock'[u] = nBlock[u]
    BY <1>7, MovesFacts DEF mark_blocks_dirty
  <2>4. cb' = [cb EXCEPT ![k] = Marked(cb[k])] /\ disk' = disk /\ written' = written
    BY <1>0, <1>7 DEF mark_blocks_dirty
  <2> QED
    BY <1>0, <1>1, <2>1, <2>2, <2>3, <2>4, MarkedFields, LeaveKeeps
<1>8. ASSUME k \in Blocks, t \in Holders(k)
      PROVE  LET e == Unlocked(cb[k])
                 m == Unlocked(Marked(cb[k]))
             IN  /\ e \in CacheBlock /\ e.data = cb[k].data /\ e.dirty = cb[k].dirty /\ e.hashed = cb[k].hashed
                 /\ m \in CacheBlock /\ m.data = cb[k].data /\ m.dirty /\ m.hashed = cb[k].hashed
  <2>1. cb[k] \in CacheBlock /\ cb[k].ref > 0
    BY <1>8, HeldHashed DEF Consistent, TypeOK
  <2> QED
    BY <2>1, UnlockedFields, MarkedFields
<1>9. CASE release_cache_block(t)
  <2>1. k \in Blocks /\ t \in Holders(k)
    BY <1>0, <1>9, NBlockType DEF release_cache_block, Holders
  <2>2. \A u \in Users \ {t} : pc'[u] = pc[u] /\ nBlock'[u] = nBlock[u]
    BY <1>9, EndsFacts DEF release_cache_block
  <2>3. cb' = [cb EXCEPT ![k] = Unlocked(cb[k])] /\ disk' = disk /\ written' = written /\ pc[t] \in {"held", "marked"}
    BY <1>0, <1>9 DEF release_cache_block
  <2> QED
    BY <1>0, <1>1, <1>8, <2>1, <2>2, <2>3, LeaveKeeps
<1>10. CASE cached_write_end(t)
  <2>1. k \in Blocks /\ t \in Holders(k)
    BY <1>0, <1>10, NBlockType DEF cached_write_end, Holders
  <2>2. \A u \in Users \ {t} : pc'[u] = pc[u] /\ nBlock'[u] = nBlock[u]
    BY <1>10, EndsFacts DEF cached_write_end
  <2>3. cb' = [cb EXCEPT ![k] = Unlocked(Marked(cb[k]))] /\ disk' = disk /\ written' = written
    BY <1>0, <1>10 DEF cached_write_end
  <2> QED
    BY <1>0, <1>1, <1>8, <2>1, <2>2, <2>3, LeaveKeeps
<1> QED
  BY <1>2, <1>3, <1>4, <1>5, <1>6, <1>7, <1>9, <1>10 DEF UserStep

\* The steps of a flusher keep LastWriteKept.
LEMMA FlusherKept ==
  ASSUME Consistent, Contents, LastWriteKept, NEW t \in Flushers,
         \/ Begun(t) \/ flush_block_list(t) \/ flush_block_list_clean(t)
         \/ \E L, next, place : MovesOn(t, L, next, place)
         \/ \E L : Releases(t, L)
  PROVE  LastWriteKept'
<1>1. ASSUME Quiet PROVE LastWriteKept'
  <2>1. \A b \in Blocks : KeepsBlock(b)
    BY <1>1 DEF Quiet, BusyOnly, KeepsBlock, Changing, user
  <2> QED
    BY <2>1, KeepsKept DEF LastWriteKept
<1>2. CASE Begun(t)
  BY <1>1, <1>2, StartsQuiet DEF Begun
<1>3. CASE \E L, next, place : MovesOn(t, L, next, place)
  BY <1>1, <1>3, MovesOnQuiet
<1>4. CASE flush_block_list(t)
  <2>1. /\ cb' = cb /\ nBlock' = nBlock /\ written' = written /\ \A u \in Users : pc'[u] = pc[u]
    BY <1>4, flush_block_listFacts DEF user
  <2>2. PICK b \in left[t] :
          \/ cb[b].dirty /\ disk' = [disk EXCEPT ![b] = cb[b].data]
          \/ disk' = disk
    BY <1>4, flush_block_listFacts
  <2>3. b \in Blocks /\ disk \in [Blocks -> Data]
    BY DEF Consistent, TypeOK
  <2>4. cb[b].dirty => cb[b].hashed /\ cb[b].data # Garbage
    BY <2>3, DataHashed DEF Contents, BlockFilled
  <2>5. \A k \in Blocks : k # b \/ ~cb[b].dirty => KeepsBlock(k)
    BY <2>1, <2>2, <2>3 DEF KeepsBlock, Changing
  <2>6. cb[b].dirty => Kept(b)'
    BY <2>1, <2>3, <2>4 DEF LastWriteKept, Kept, Content
  <2> QED
    BY <2>3, <2>5, <2>6, KeepsKept DEF LastWriteKept
<1>5. CASE flush_block_list_clean(t)
  <2>0. PICK S : S = Cleaned(list[t])
    OBVIOUS
  <2>1. /\ S \subseteq Blocks
        /\ \A b \in S : /\ cb[b].dirty /\ cb'[b].hashed /\ cb[b].hashed /\ cb'[b].data = cb[b].data
                        /\ written'[b] = IF b \in saved[t] THEN written[b] ELSE Data
        /\ \A b \in Blocks \ S : cb'[b] = cb[b] /\ written'[b] = written[b]
        /\ \A u \in Users : pc'[u] = pc[u]
        /\ nBlock' = nBlock /\ disk' = disk
    BY <1>5, <2>0, CleanFacts
  <2>2. ASSUME NEW b \in S PROVE Kept(b)'
    <3>1. cb[b].data # Garbage /\ cb[b].data \in Data
      BY <2>1 DEF Contents, BlockFilled, Consistent, TypeOK, CacheBlock
    <3>2. b \in saved[t] => disk[b] = cb[b].data
      BY DEF Contents, WrittenStays
    <3>3. Kept(b)
      BY <2>1 DEF LastWriteKept
    <3> QED
      BY <2>1, <3>1, <3>2, <3>3 DEF Kept, Content
  <2>3. \A b \in Blocks \ S : KeepsBlock(b)
    BY <2>1 DEF KeepsBlock, Changing
  <2> QED
    BY <2>2, <2>3, KeepsKept DEF LastWriteKept
<1>6. ASSUME NEW L, Releases(t, L) PROVE LastWriteKept'
  <2>1. /\ L \subseteq Blocks /\ \A b \in Blocks \ L : cb'[b] = cb[b]
        /\ \A b \in L : cb[b].hashed /\ ~cb[b].dirty /\ Holders(b) = {} /\ ~cb'[b].hashed
        /\ \A u \in Users : pc'[u] = pc[u]
        /\ nBlock' = nBlock /\ disk' = disk /\ written' = written
    BY <1>6, ReleasesFacts
  <2>2. ASSUME NEW b \in L PROVE Kept(b)'
    <3>1. Kept(b) /\ ~Changing(b) /\ disk[b] \in Data
      BY <2>1 DEF LastWriteKept, Changing, Holders, Consistent, TypeOK
    <3> QED
      BY <2>1, <3>1 DEF Kept, Content
  <2>3. \A b \in Blocks \ L : KeepsBlock(b)
    BY <2>1 DEF KeepsBlock, Changing
  <2> QED
    BY <2>2, <2>3, KeepsKept DEF LastWriteKept
<1> QED
  BY <1>2, <1>3, <1>4, <1>5, <1>6

\* A block of BlockCache keeps what was last written to it, whatever cache_flusher,
\* flush_device_cache, flush_cache_block, release_cache_blocks and readahead do
\* in the meantime, in any number of threads and on a device of any size.
THEOREM BlockCacheLastWriteKept == Spec => []LastWriteKept
<1>1. Init => LastWriteKept
  <2> SUFFICES ASSUME Init, NEW b \in Blocks PROVE Kept(b)
    BY DEF LastWriteKept
  <2>1. cb[b] = Absent /\ written[b] = {disk[b]}
    BY DEF Init
  <2> QED
    BY <2>1, AbsentFields DEF Kept, Content
<1>2. LastWriteKept /\ Inv /\ [Next]_vars => LastWriteKept'
  <2> SUFFICES ASSUME LastWriteKept, Inv, [Next]_vars PROVE LastWriteKept'
    OBVIOUS
  <2>1. Consistent /\ Contents
    BY DEF Inv
  <2>2. CASE Next
    BY <2>1, <2>2, NextCases, CallsKept, write_logged_blocksKept, UserStepKept, FlusherKept
  <2>3. CASE UNCHANGED vars
    <3>1. UNCHANGED <<disk, cb, pc, nBlock, written>>
      BY <2>3 DEF vars, user
    <3> QED
      BY <3>1 DEF LastWriteKept, Kept, Content, Changing
  <2> QED
    BY <2>2, <2>3
<1> QED
  BY <1>1, <1>2, BlockCacheInv, PTL DEF Spec
=============================================================================
