------------------------ MODULE AfsJournalStoreProofs ------------------------
(***************************************************************************)
(* Proofs about AfsJournal on top of its invariant: a replay reads every   *)
(* record the log holds, a sync leaves nothing behind, the journal         *)
(* implements the durable store, and only an undone operation leaves a     *)
(* stale pointer.                                                          *)
(***************************************************************************)
EXTENDS AfsJournalProofs

-----------------------------------------------------------------------------
(* Reading the log.  d is a disk, s the start and n the length of the valid *)
(* range.                                                                  *)

\* Every bounded set of naturals that is not empty has a greatest element.
LEMMA Greatest ==
  ASSUME NEW n \in Nat, NEW T \in SUBSET (0..(n - 1)), T # {}
  PROVE  \E x \in T : \A y \in T : y <= x
<1> DEFINE U == {n - x : x \in T}
<1>1. U \in SUBSET Nat /\ U # {}
  <2>1. \A x \in T : n - x \in Nat
    OBVIOUS
  <2> QED BY <2>1
<1>2. PICK u \in U : \A v \in U : u <= v
  BY <1>1, Least
<1>3. PICK x \in T : u = n - x
  BY <1>2
<1>4. \A y \in T : n - x <= n - y
  BY <1>2, <1>3
<1>5. x \in Nat /\ \A y \in T : y \in Nat
  OBVIOUS
<1> QED BY <1>4, <1>5

Rest(d, s, n) ==
  LET rest[i \in 0..n] ==
        IF i = 0 THEN <<>>
        ELSE IF rest[i - 1] = <<>> THEN d[Pos(s, i - 1)].idx
        ELSE Tail(rest[i - 1])
  IN  rest

RestOf(f, d, s, n) ==
  /\ DOMAIN f = 0..n /\ f = [i \in 0..n |-> f[i]]
  /\ f[0] = <<>>
  /\ \A i \in 0..(n - 1) : f[i + 1] = IF f[i] = <<>> THEN d[Pos(s, i)].idx ELSE Tail(f[i])

\* The recursion over the blocks an index still names has a solution ...
LEMMA RestExist ==
  ASSUME NEW d, NEW s, NEW n \in Nat
  PROVE  \E f : RestOf(f, d, s, n)
<1> DEFINE P == {m \in Nat : \E f : RestOf(f, d, s, m)}
<1>1. 0 \in P
  <2>1. RestOf([i \in 0..0 |-> <<>>], d, s, 0)
    BY DEF RestOf
  <2> QED BY <2>1
<1>2. \A m \in 0..(n - 1) : m \in P => m + 1 \in P
  <2> SUFFICES ASSUME NEW m \in 0..(n - 1), NEW f, RestOf(f, d, s, m)
               PROVE  \E g : RestOf(g, d, s, m + 1)
    OBVIOUS
  <2> DEFINE e == IF f[m] = <<>> THEN d[Pos(s, m)].idx ELSE Tail(f[m])
             g == [i \in 0..(m + 1) |-> IF i = m + 1 THEN e ELSE f[i]]
  <2>1. g[0] = <<>> /\ g[m + 1] = e /\ \A i \in 0..m : g[i] = f[i]
    BY DEF RestOf
  <2>2. \A i \in 0..m : g[i + 1] = IF g[i] = <<>> THEN d[Pos(s, i)].idx ELSE Tail(g[i])
    <3> TAKE i \in 0..m
    <3>1. CASE i = m
      BY <2>1, <3>1
    <3>2. CASE i # m
      <4>1. i \in 0..(m - 1) /\ i + 1 \in 0..m
        BY <3>2
      <4> QED BY <2>1, <4>1 DEF RestOf
    <3> QED BY <3>1, <3>2
  <2>3. DOMAIN g = 0..(m + 1) /\ g = [i \in 0..(m + 1) |-> g[i]] /\ (m + 1) - 1 = m
    OBVIOUS
  <2> HIDE DEF g
  <2>4. RestOf(g, d, s, m + 1)
    BY <2>1, <2>2, <2>3 DEF RestOf
  <2> QED BY <2>4
<1>3. n \in P
  <2> HIDE DEF P
  <2>1. n \in 0..n
    OBVIOUS
  <2> QED BY <1>1, <1>2, <2>1, UpTo
<1> QED BY <1>3

\* ... which is Rest.
LEMMA RestIs ==
  ASSUME NEW d, NEW s, NEW n \in Nat
  PROVE  RestOf(Rest(d, s, n), d, s, n)
<1>1. PICK f : RestOf(f, d, s, n)
  BY RestExist
<1>2. f = [i \in 0..n |-> IF i = 0 THEN <<>>
                          ELSE IF f[i - 1] = <<>> THEN d[Pos(s, i - 1)].idx
                          ELSE Tail(f[i - 1])]
  <2>1. \A i \in 0..n : f[i] = IF i = 0 THEN <<>>
                               ELSE IF f[i - 1] = <<>> THEN d[Pos(s, i - 1)].idx
                               ELSE Tail(f[i - 1])
    <3> TAKE i \in 0..n
    <3>1. CASE i = 0
      BY <1>1, <3>1 DEF RestOf
    <3>2. CASE i # 0
      <4>1. i - 1 \in 0..(n - 1) /\ (i - 1) + 1 = i
        BY <3>2
      <4> QED BY <1>1, <3>2, <4>1 DEF RestOf
    <3> QED BY <3>1, <3>2
  <2> QED BY <1>1, <2>1 DEF RestOf
<1> DEFINE g == Rest(d, s, n)
<1>3. g = [i \in 0..n |-> IF i = 0 THEN <<>>
                          ELSE IF g[i - 1] = <<>> THEN d[Pos(s, i - 1)].idx
                          ELSE Tail(g[i - 1])]
  BY <1>2 DEF Rest
<1> HIDE DEF g
<1>4. DOMAIN g = 0..n /\ g[0] = <<>>
  BY <1>3
<1>5. \A i \in 0..(n - 1) : g[i + 1] = IF g[i] = <<>> THEN d[Pos(s, i)].idx ELSE Tail(g[i])
  <2> TAKE i \in 0..(n - 1)
  <2>1. i + 1 \in 0..n /\ i + 1 # 0 /\ (i + 1) - 1 = i
    OBVIOUS
  <2> QED BY <1>3, <2>1
<1>6. g = [i \in 0..n |-> g[i]]
  BY <1>3
<1> QED BY <1>4, <1>5, <1>6 DEF RestOf, g

\* Only the blocks of the valid range count.
LEMMA RestSame ==
  ASSUME NEW d, NEW e, NEW s, NEW n \in Nat,
         \A i \in 0..(n - 1) : d[Pos(s, i)].idx = e[Pos(s, i)].idx
  PROVE  Rest(d, s, n) = Rest(e, s, n)
<1> DEFINE f == Rest(d, s, n)
           g == Rest(e, s, n)
           P == {i \in Nat : f[i] = g[i]}
<1>1. RestOf(f, d, s, n) /\ RestOf(g, e, s, n)
  BY RestIs
<1> HIDE DEF f, g
<1>2. 0 \in P
  BY <1>1 DEF RestOf
<1>3. \A i \in 0..(n - 1) : i \in P => i + 1 \in P
  <2> SUFFICES ASSUME NEW i \in 0..(n - 1), f[i] = g[i]
               PROVE  f[i + 1] = g[i + 1]
    OBVIOUS
  <2>1. f[i + 1] = IF f[i] = <<>> THEN d[Pos(s, i)].idx ELSE Tail(f[i])
    BY <1>1 DEF RestOf
  <2>2. g[i + 1] = IF g[i] = <<>> THEN e[Pos(s, i)].idx ELSE Tail(g[i])
    BY <1>1 DEF RestOf
  <2> QED BY <2>1, <2>2
<1>4. \A i \in 0..n : f[i] = g[i]
  <2>1. \A i \in 0..n : i \in P
    <3> HIDE DEF P
    <3> QED BY <1>2, <1>3, UpTo
  <2> QED BY <2>1
<1>5. f = g
  BY <1>1, <1>4 DEF RestOf
<1> QED BY <1>5 DEF f, g

Copied(d, s, n, b) == {i \in 0..(n - 1) : Rest(d, s, n)[i] # <<>> /\ Head(Rest(d, s, n)[i]) = b}

Found(d, s, n, b) ==
  IF Copied(d, s, n, b) = {} THEN d[b].val
  ELSE d[Pos(s, CHOOSE i \in Copied(d, s, n, b) : \A j \in Copied(d, s, n, b) : j <= i)].val

\* What a replay leaves in a block is its last copy in the range, or the
\* block itself when there is none.
LEMMA FoundIs ==
  ASSUME NEW d, NEW s, NEW n \in Nat, NEW b
  PROVE  /\ Copied(d, s, n, b) = {} => Found(d, s, n, b) = d[b].val
         /\ Copied(d, s, n, b) # {} =>
              \E i \in Copied(d, s, n, b) :
                /\ \A j \in Copied(d, s, n, b) : j <= i
                /\ Found(d, s, n, b) = d[Pos(s, i)].val
<1> DEFINE C == Copied(d, s, n, b)
           i == CHOOSE i \in C : \A j \in C : j <= i
<1>1. C \in SUBSET (0..(n - 1))
  BY DEF Copied
<1>2. Found(d, s, n, b) = IF C = {} THEN d[b].val ELSE d[Pos(s, i)].val
  BY DEF Found
<1> HIDE DEF C
<1>3. C # {} => i \in C /\ \A j \in C : j <= i
  BY <1>1, Greatest
<1> HIDE DEF i
<1>4. C = {} => Found(d, s, n, b) = d[b].val
  BY <1>2
<1>5. C # {} => \E x \in C : (\A j \in C : j <= x) /\ Found(d, s, n, b) = d[Pos(s, x)].val
  BY <1>2, <1>3
<1> QED BY <1>4, <1>5 DEF C

\* What the variables of the model stand for.
LEMMA RecoveredIs ==
  /\ Named = Rest(disk, superblock.start, superblock.valid)
  /\ \A i : ValidPos(i) = Pos(superblock.start, i)
  /\ \A b \in Block : Recovered[b] = Found(disk, superblock.start, superblock.valid, b)
<1>1. Named = Rest(disk, superblock.start, superblock.valid)
  BY DEF Named, Rest, ValidPos, Pos
<1>2. \A i : ValidPos(i) = Pos(superblock.start, i)
  BY DEF ValidPos, Pos
<1>3. ASSUME NEW b \in Block
      PROVE  Recovered[b] = Found(disk, superblock.start, superblock.valid, b)
  <2> DEFINE C == {i \in 0..(superblock.valid - 1) : Named[i] # <<>> /\ Head(Named[i]) = b}
  <2>1. Recovered[b] = IF C = {} THEN disk[b].val
                       ELSE disk[ValidPos(CHOOSE i \in C : \A j \in C : j <= i)].val
    BY DEF Recovered
  <2>2. C = Copied(disk, superblock.start, superblock.valid, b)
    BY <1>1 DEF Copied
  <2> HIDE DEF C
  <2> QED BY <1>2, <2>1, <2>2 DEF Found
<1> QED BY <1>1, <1>2, <1>3

\* The log of the first L transactions of a list T is on the disk d, from s on.
LogOn(d, s, T, L) ==
  /\ L \in 0..Len(T)
  /\ \A i \in 1..L : T[i].count = Len(LogImage(T[i].blocks))
  /\ \A i \in 1..L : \A p \in 1..T[i].count :
       d[Pos(s, LogSums(T)[i] + p - 1)] = LogImage(T[i].blocks)[p]

\* Position q of the log is block r of buffer k of transaction i, and its index
\* block for r = 0.
Place(T, L, q, i, k, r) ==
  /\ i \in 1..L
  /\ k \in 1..Buffers(Len(T[i].blocks))
  /\ r \in 0..Len(BufferPart(T[i].blocks, k))
  /\ q = LogSums(T)[i] + LogBefore(T[i].blocks, k) + r

\* The logs of the first transactions of a list, one after the other.
LEMMA SumsUpTo ==
  ASSUME NEW T \in Seq(Transaction), NEW L \in 0..Len(T), NEW i \in 1..L
  PROVE  /\ i \in 1..Len(T) /\ T[i].blocks \in Copies /\ Len(T[i].blocks) \in Nat
         /\ LogSums(T)[i] \in Nat /\ LogSums(T)[i + 1] \in Nat /\ LogSums(T)[L + 1] \in Nat
         /\ T[i].count \in Nat /\ LogSums(T)[i + 1] = LogSums(T)[i] + T[i].count
         /\ LogSums(T)[i + 1] <= LogSums(T)[L + 1]
<1>1. Len(T) \in Nat /\ i \in 1..Len(T)
  OBVIOUS
<1>2. i \in 1..(Len(T) + 1) /\ i + 1 \in 1..(Len(T) + 1) /\ L + 1 \in 1..(Len(T) + 1) /\ i + 1 \in 1..(L + 1)
  BY <1>1
<1>3. LogSums(T)[i + 1] <= LogSums(T)[L + 1]
  BY <1>2, SumsGrow
<1>4. T[i].blocks \in Copies /\ Len(T[i].blocks) \in Nat /\ T[i].count \in Nat
  BY <1>1, TransFields DEF Copies
<1>5. /\ LogSums(T)[i] \in Nat /\ LogSums(T)[i + 1] \in Nat /\ LogSums(T)[L + 1] \in Nat
      /\ LogSums(T)[i + 1] = LogSums(T)[i] + T[i].count
  BY <1>1, <1>2, SumsStep
<1> QED BY <1>1, <1>3, <1>4, <1>5

\* A place in the log of a transaction is a position of the valid range.
LEMMA PlaceIs ==
  ASSUME NEW T \in Seq(Transaction), NEW d, NEW s, NEW L, LogOn(d, s, T, L),
         NEW q, NEW i, NEW k, NEW r, Place(T, L, q, i, k, r)
  PROVE  /\ q \in Nat /\ LogSums(T)[i] <= q /\ q < LogSums(T)[i + 1]
         /\ LogSums(T)[L + 1] \in Nat /\ q < LogSums(T)[L + 1]
         /\ Len(BufferPart(T[i].blocks, k)) \in Nat \ {0} /\ BufferPart(T[i].blocks, k) \in Copies
         /\ r \in Nat /\ i \in 1..Len(T) /\ T[i].blocks \in Copies
         /\ d[Pos(s, q)] = IF r = 0 THEN BufferIndex(T[i].blocks, k)
                           ELSE Data(BufferPart(T[i].blocks, k)[r].val)
<1> DEFINE bs == T[i].blocks
           before == LogBefore(bs, k)
           size == Len(BufferPart(bs, k))
           at == LogSums(T)[i]
<1>1. i \in 1..L /\ L \in 0..Len(T) /\ k \in 1..Buffers(Len(bs)) /\ r \in 0..size /\ q = at + before + r
  BY DEF Place, LogOn
<1>2. /\ i \in 1..Len(T) /\ bs \in Copies /\ Len(bs) \in Nat /\ at \in Nat /\ T[i].count \in Nat
      /\ LogSums(T)[i + 1] = at + T[i].count
      /\ LogSums(T)[i + 1] <= LogSums(T)[L + 1] /\ LogSums(T)[L + 1] \in Nat
  BY <1>1, SumsUpTo
<1>3. T[i].count = Len(bs) + Buffers(Len(bs)) /\ Buffers(Len(bs)) \in Nat
  <2>1. T[i].count = Len(LogImage(bs))
    BY <1>1 DEF LogOn
  <2>2. bs \in Copies
    BY <1>2
  <2> HIDE DEF bs
  <2> QED BY <1>2, <2>1, <2>2, ImageIs, BuffersIs
<1>4. BufferPart(bs, k) \in Copies /\ size \in Nat \ {0}
  <2>1. bs \in Copies
    BY <1>2
  <2> HIDE DEF bs
  <2>2. size \in 1..BufBlocks
    BY <1>1, <2>1, PartIs
  <2> QED BY <1>1, <2>1, <2>2, PartIs, SizesAssumption
<1>5. /\ before \in Nat /\ LogBefore(bs, k - 1) = before + 1 + size
      /\ LogBefore(bs, k - 1) <= Len(bs) + Buffers(Len(bs))
  <2>1. bs \in Copies
    BY <1>2
  <2> HIDE DEF bs
  <2>2. k \in 0..Buffers(Len(bs)) /\ k > 0 /\ k - 1 \in 0..Buffers(Len(bs)) /\ 0 \in 0..(k - 1)
        /\ 0 \in 0..Buffers(Len(bs))
    BY <1>1, <1>3
  <2>3. before \in Nat /\ LogBefore(bs, k - 1) = before + 1 + size
    BY <2>1, <2>2, BeforeIs
  <2>4. LogBefore(bs, k - 1) <= LogBefore(bs, 0) /\ LogBefore(bs, 0) = Len(bs) + Buffers(Len(bs))
    BY <2>1, <2>2, BeforeIs, BeforeFalls
  <2> QED BY <2>3, <2>4
<1> DEFINE p == before + r + 1
<1> HIDE DEF bs, before, size, at
<1>6. r \in Nat /\ q \in Nat /\ at <= q /\ q < at + T[i].count
  BY <1>1, <1>2, <1>3, <1>4, <1>5
<1>7. p \in 1..T[i].count /\ before < p /\ p <= LogBefore(bs, k - 1) /\ at + p - 1 = q
      /\ p - before - 1 = r /\ (p = before + 1 <=> r = 0)
  BY <1>1, <1>2, <1>3, <1>4, <1>5, SMTT(30)
<1> HIDE DEF p
<1>8. d[Pos(s, q)] = LogImage(bs)[p]
  <2>1. d[Pos(s, at + p - 1)] = LogImage(bs)[p]
    BY <1>1, <1>7 DEF LogOn, at, bs
  <2> QED BY <1>7, <2>1
<1>9. LogImage(bs)[p] = IF p = before + 1 THEN BufferIndex(bs, k)
                        ELSE Data(BufferPart(bs, k)[p - before - 1].val)
  BY <1>1, <1>2, <1>3, <1>7, ImageAt DEF before
<1>10. d[Pos(s, q)] = IF r = 0 THEN BufferIndex(bs, k) ELSE Data(BufferPart(bs, k)[r].val)
  BY <1>7, <1>8, <1>9
<1>11. q < LogSums(T)[i + 1] /\ q < LogSums(T)[L + 1]
  BY <1>2, <1>6
<1> QED BY <1>2, <1>4, <1>6, <1>10, <1>11 DEF bs, size, at

\* Every position of the log is one block of one buffer.
LEMMA PlaceHas ==
  ASSUME NEW T \in Seq(Transaction), NEW d, NEW s, NEW L, LogOn(d, s, T, L),
         NEW q \in 0..(LogSums(T)[L + 1] - 1)
  PROVE  \E i, k, r : Place(T, L, q, i, k, r)
<1>1. L \in 0..Len(T) /\ Len(T) \in Nat /\ LogSums(T)[L + 1] \in Nat
  <2>1. L \in 0..Len(T) /\ Len(T) \in Nat
    BY DEF LogOn
  <2>2. L + 1 \in 1..(Len(T) + 1)
    BY <2>1
  <2> QED BY <2>1, <2>2, SumsStep
<1> DEFINE Q == {i \in 1..L : q < LogSums(T)[i + 1]}
<1>2. L \in Q
  <2>1. L # 0
    <3>1. LogSums(T)[0 + 1] = 0
      BY SumsStep
    <3> QED BY <1>1, <3>1
  <2> QED BY <1>1, <2>1
<1>3. PICK i \in Q : \A j \in Q : i <= j
  <2>1. Q \in SUBSET Nat /\ Q # {}
    BY <1>2
  <2> QED BY <2>1, Least
<1>4. /\ i \in 1..L /\ q < LogSums(T)[i + 1]
      /\ i \in 1..Len(T) /\ T[i].blocks \in Copies /\ Len(T[i].blocks) \in Nat
      /\ LogSums(T)[i] \in Nat /\ T[i].count \in Nat /\ LogSums(T)[i + 1] = LogSums(T)[i] + T[i].count
  BY <1>1, <1>3, SumsUpTo
<1>5. LogSums(T)[i] <= q
  <2>1. CASE i = 1
    BY <2>1, SumsStep
  <2>2. CASE i # 1
    <3>1. i - 1 \in 1..L /\ (i - 1) + 1 = i /\ ~(i <= i - 1)
      BY <1>1, <1>4, <2>2
    <3>2. i - 1 \notin Q
      <4> HIDE DEF Q
      <4> QED BY <1>3, <3>1
    <3>3. ~(q < LogSums(T)[i])
      BY <3>1, <3>2
    <3> QED BY <1>4, <3>3
  <2> QED BY <2>1, <2>2
<1> DEFINE bs == T[i].blocks
           p == q - LogSums(T)[i] + 1
<1> HIDE DEF Q
<1>6. T[i].count = Len(bs) + Buffers(Len(bs))
  <2>1. T[i].count = Len(LogImage(bs))
    BY <1>4 DEF LogOn
  <2>2. bs \in Copies
    BY <1>4
  <2> HIDE DEF bs
  <2> QED BY <2>1, <2>2, ImageIs
<1>7. p \in 1..(Len(bs) + Buffers(Len(bs)))
  BY <1>4, <1>5, <1>6
<1>8. PICK k \in 1..Buffers(Len(bs)) : LogBefore(bs, k) < p /\ p <= LogBefore(bs, k - 1)
  <2>1. bs \in Copies
    BY <1>4
  <2> HIDE DEF bs, p
  <2> QED BY <1>7, <2>1, ImageHas
<1> DEFINE r == p - LogBefore(bs, k) - 1
<1>9. r \in 0..Len(BufferPart(bs, k)) /\ LogBefore(bs, k) \in Nat
  <2>1. bs \in Copies /\ Len(bs) \in Nat
    BY <1>4
  <2> HIDE DEF bs, p
  <2>2. r \in 0..Len(BufferPart(bs, k))
    BY <1>7, <1>8, <2>1, ImageAt
  <2>3. k \in 0..Buffers(Len(bs))
    BY <2>1, BuffersIs
  <2> QED BY <2>1, <2>2, <2>3, BeforeIs
<1>10. q = LogSums(T)[i] + LogBefore(bs, k) + r
  BY <1>4, <1>9, SMTT(30)
<1>11. Place(T, L, q, i, k, r)
  <2> HIDE DEF r
  <2> QED BY <1>4, <1>8, <1>9, <1>10 DEF Place
<1> QED BY <1>11

\* A position of the valid range is one place only.
LEMMA PlaceOne ==
  ASSUME NEW T \in Seq(Transaction), NEW d, NEW s, NEW L, LogOn(d, s, T, L), NEW q,
         NEW i, NEW k, NEW r, Place(T, L, q, i, k, r),
         NEW j, NEW l, NEW t, Place(T, L, q, j, l, t)
  PROVE  i = j /\ k = l /\ r = t
<1>1. /\ q \in Nat /\ LogSums(T)[i] <= q /\ q < LogSums(T)[i + 1]
      /\ LogSums(T)[j] <= q /\ q < LogSums(T)[j + 1]
      /\ r \in Nat /\ t \in Nat
  BY PlaceIs
<1>2. i \in 1..Len(T) /\ j \in 1..Len(T) /\ Len(T) \in Nat /\ i \in Nat /\ j \in Nat
      /\ T[i].blocks \in Copies
  BY PlaceIs
<1>3. /\ LogSums(T)[i] \in Nat /\ LogSums(T)[i + 1] \in Nat
      /\ LogSums(T)[j] \in Nat /\ LogSums(T)[j + 1] \in Nat
  <2>1. i \in 1..(Len(T) + 1) /\ i + 1 \in 1..(Len(T) + 1) /\ j \in 1..(Len(T) + 1) /\ j + 1 \in 1..(Len(T) + 1)
    BY <1>2
  <2> QED BY <2>1, SumsStep
<1>4. i = j
  <2>1. i < j => LogSums(T)[i + 1] <= LogSums(T)[j]
    <3>1. i < j => i + 1 \in 1..j /\ j \in 1..(Len(T) + 1)
      BY <1>2
    <3> QED BY <3>1, SumsGrow
  <2>2. j < i => LogSums(T)[j + 1] <= LogSums(T)[i]
    <3>1. j < i => j + 1 \in 1..i /\ i \in 1..(Len(T) + 1)
      BY <1>2
    <3> QED BY <3>1, SumsGrow
  <2>3. ~(i < j) /\ ~(j < i)
    BY <1>1, <1>3, <2>1, <2>2
  <2> QED BY <1>2, <2>3
<1> DEFINE bs == T[i].blocks
           N == Buffers(Len(bs))
<1>5. /\ k \in 1..N /\ l \in 1..N
      /\ r \in 0..Len(BufferPart(bs, k)) /\ t \in 0..Len(BufferPart(bs, l))
      /\ q = LogSums(T)[i] + LogBefore(bs, k) + r /\ q = LogSums(T)[i] + LogBefore(bs, l) + t
  BY <1>4 DEF Place
<1>6. bs \in Copies /\ N \in Nat
  <2>1. bs \in Copies
    BY <1>2
  <2> HIDE DEF bs
  <2> QED BY <2>1, BuffersIs DEF Copies
<1> HIDE DEF bs
<1>7. /\ LogBefore(bs, k) \in Nat /\ LogBefore(bs, k - 1) = LogBefore(bs, k) + 1 + Len(BufferPart(bs, k))
      /\ LogBefore(bs, l) \in Nat /\ LogBefore(bs, l - 1) = LogBefore(bs, l) + 1 + Len(BufferPart(bs, l))
  <2>1. k \in 0..N /\ l \in 0..N /\ k > 0 /\ l > 0
    BY <1>5, <1>6
  <2> QED BY <1>6, <2>1, BeforeIs
<1>8. Len(BufferPart(bs, k)) \in Nat /\ Len(BufferPart(bs, l)) \in Nat
  <2>1. Len(BufferPart(bs, k)) \in 1..BufBlocks /\ Len(BufferPart(bs, l)) \in 1..BufBlocks
    BY <1>5, <1>6, PartIs
  <2> QED BY <2>1, SizesAssumption
<1>9. k = l
  <2>1. k < l => LogBefore(bs, l - 1) <= LogBefore(bs, k)
    <3>1. k < l => l - 1 \in 0..N /\ k \in 0..(l - 1)
      BY <1>5, <1>6
    <3> QED BY <1>6, <3>1, BeforeFalls
  <2>2. l < k => LogBefore(bs, k - 1) <= LogBefore(bs, l)
    <3>1. l < k => k - 1 \in 0..N /\ l \in 0..(k - 1)
      BY <1>5, <1>6
    <3> QED BY <1>6, <3>1, BeforeFalls
  <2>3. LogBefore(bs, k) + r = LogBefore(bs, l) + t
    <3>0. LogSums(T)[i] + LogBefore(bs, k) + r = LogSums(T)[i] + LogBefore(bs, l) + t
      BY <1>5
    <3>1. LogSums(T)[i] \in Nat /\ LogBefore(bs, k) \in Nat /\ LogBefore(bs, l) \in Nat
          /\ r \in Nat /\ t \in Nat
      BY <1>1, <1>3, <1>7
    <3> QED BY <3>0, <3>1, SMTT(30)
  <2>4. ~(k < l) /\ ~(l < k)
    <3>1. r <= Len(BufferPart(bs, k)) /\ t <= Len(BufferPart(bs, l)) /\ r \in Nat /\ t \in Nat
      BY <1>1, <1>5, <1>8
    <3>2. k < l => LogBefore(bs, l) + 1 + Len(BufferPart(bs, l)) <= LogBefore(bs, k)
      BY <1>7, <2>1
    <3>3. l < k => LogBefore(bs, k) + 1 + Len(BufferPart(bs, k)) <= LogBefore(bs, l)
      BY <1>7, <2>2
    <3>4. LogBefore(bs, k) \in Nat /\ LogBefore(bs, l) \in Nat
      BY <1>7
    <3>5. ~(k < l)
      BY <1>8, <2>3, <3>1, <3>2, <3>4
    <3>6. ~(l < k)
      BY <1>8, <2>3, <3>1, <3>3, <3>4
    <3> QED BY <3>5, <3>6
  <2>5. k \in Nat /\ l \in Nat
    BY <1>5, <1>6
  <2> QED BY <2>4, <2>5
<1>10. r = t
  BY <1>1, <1>3, <1>5, <1>7, <1>9, SMTT(30)
<1> QED BY <1>4, <1>9, <1>10

\* A transaction has a number of buffers.
LEMMA BuffersOf ==
  ASSUME NEW bs \in Copies
  PROVE  Len(bs) \in Nat /\ Buffers(Len(bs)) \in Nat
BY BuffersIs DEF Copies

\* f is what the index of a buffer still names when its block r comes next.
StillNamed(f, part, r) ==
  IF r = 0 THEN f = <<>>
  ELSE /\ f \in Seq(Block) /\ Len(f) = Len(part) - r + 1
       /\ \A x \in 1..Len(f) : f[x] = part[r - 1 + x].blk

IndexOf(idx, part) == Len(idx) = Len(part) /\ \A x \in 1..Len(part) : idx[x] = part[x].blk

After(f, idx) == IF f = <<>> THEN idx ELSE Tail(f)

\* Reading one more block of the record of a buffer takes one name off its
\* index.
LEMMA NamedNext ==
  ASSUME NEW part \in Copies, NEW r \in 0..Len(part), NEW f, StillNamed(f, part, r),
         NEW idx \in Seq(Block), r = 0 => IndexOf(idx, part)
  PROVE  /\ r < Len(part) => StillNamed(After(f, idx), part, r + 1)
         /\ r > 0 /\ r = Len(part) => After(f, idx) = <<>>
<1> DEFINE g == After(f, idx)
<1> SUFFICES /\ r < Len(part) => StillNamed(g, part, r + 1)
             /\ r > 0 /\ r = Len(part) => g = <<>>
  OBVIOUS
<1>0. g = IF f = <<>> THEN idx ELSE Tail(f)
  BY DEF After
<1> HIDE DEF g
<1>1. Len(part) \in Nat
  BY DEF Copies
<1>2. CASE r = 0
  <2>1. f = <<>> /\ g = idx
    BY <1>0, <1>2 DEF StillNamed
  <2>2. Len(g) = Len(part) - (r + 1) + 1 /\ \A x \in 1..Len(g) : g[x] = part[(r + 1) - 1 + x].blk
    BY <1>1, <1>2, <2>1 DEF IndexOf
  <2> QED BY <1>1, <1>2, <2>1, <2>2 DEF StillNamed
<1>3. CASE r > 0
  <2>1. f \in Seq(Block) /\ Len(f) = Len(part) - r + 1 /\ \A x \in 1..Len(f) : f[x] = part[r - 1 + x].blk
    BY <1>1, <1>3 DEF StillNamed
  <2>2. Len(f) \in Nat \ {0} /\ f # <<>>
    BY <1>1, <2>1
  <2>3. g = Tail(f)
    BY <1>0, <2>2
  <2>4. Tail(f) \in Seq(Block) /\ Len(Tail(f)) = Len(f) - 1 /\ \A x \in 1..(Len(f) - 1) : Tail(f)[x] = f[x + 1]
    BY <2>1, <2>2
  <2>5. \A x \in 1..(Len(f) - 1) : f[x + 1] = part[(r + 1) - 1 + x].blk
    <3> TAKE x \in 1..(Len(f) - 1)
    <3>1. x + 1 \in 1..Len(f) /\ r - 1 + (x + 1) = (r + 1) - 1 + x
      BY <1>1, <2>2
    <3> QED BY <2>1, <3>1
  <2>6. Len(f) - 1 = Len(part) - (r + 1) + 1 /\ r + 1 # 0
    BY <1>1, <1>3, <2>1
  <2>7. StillNamed(g, part, r + 1)
    BY <2>3, <2>4, <2>5, <2>6 DEF StillNamed
  <2>8. r = Len(part) => Len(Tail(f)) = 0
    BY <1>1, <2>1, <2>4
  <2>9. r = Len(part) => Tail(f) = <<>>
    BY <2>4, <2>8, EmptyIs
  <2> QED BY <2>3, <2>7, <2>9
<1>4. r = 0 \/ r > 0
  BY <1>1
<1> QED BY <1>2, <1>3, <1>4

\* What a replay reads at each place of a log that is on disk.
LEMMA LogReads ==
  ASSUME NEW T \in Seq(Transaction), NEW d, NEW s, NEW L, LogOn(d, s, T, L),
         NEW n, n = LogSums(T)[L + 1], \A q \in 0..(n - 1) : d[Pos(s, q)].idx \in Seq(Block)
  PROVE  /\ n \in Nat
         /\ Rest(d, s, n)[n] = <<>>
         /\ \A q \in 0..(n - 1) : \A i, k, r :
              Place(T, L, q, i, k, r) => StillNamed(Rest(d, s, n)[q], BufferPart(T[i].blocks, k), r)
<1> DEFINE R == Rest(d, s, n)
           OK(q) == \A i, k, r : Place(T, L, q, i, k, r) => StillNamed(R[q], BufferPart(T[i].blocks, k), r)
           P == {q \in Nat : (q < n => OK(q)) /\ (q = n => R[q] = <<>>)}
<1>1. n \in Nat
  <2>1. L \in 0..Len(T) /\ Len(T) \in Nat
    BY DEF LogOn
  <2>2. L + 1 \in 1..(Len(T) + 1)
    BY <2>1
  <2> QED BY <2>2, SumsStep
<1>2. RestOf(R, d, s, n)
  BY <1>1, RestIs
<1> HIDE DEF R
<1>3. 0 \in P
  <2>1. R[0] = <<>>
    BY <1>2 DEF RestOf
  <2>2. ASSUME NEW i, NEW k, NEW r, Place(T, L, 0, i, k, r)
        PROVE  r = 0
    <3>1. r \in Nat /\ LogSums(T)[i] <= 0 /\ i \in 1..Len(T) /\ T[i].blocks \in Copies
      BY <2>2, PlaceIs
    <3>2. k \in 1..Buffers(Len(T[i].blocks)) /\ 0 = LogSums(T)[i] + LogBefore(T[i].blocks, k) + r
      BY <2>2 DEF Place
    <3>3. LogBefore(T[i].blocks, k) \in Nat
      <4>1. Buffers(Len(T[i].blocks)) \in Nat
        BY <3>1, BuffersOf
      <4>2. k \in 0..Buffers(Len(T[i].blocks))
        BY <3>2, <4>1
      <4> QED BY <3>1, <4>2, BeforeIs
    <3>4. LogSums(T)[i] \in Nat
      <4>1. i \in 1..(Len(T) + 1)
        BY <3>1
      <4> QED BY <4>1, SumsStep
    <3> QED BY <3>1, <3>2, <3>3, <3>4
  <2>3. OK(0)
    BY <2>1, <2>2 DEF StillNamed
  <2> HIDE DEF OK
  <2> QED BY <2>1, <2>3
<1>4. \A q \in 0..(n - 1) : q \in P => q + 1 \in P
  <2> SUFFICES ASSUME NEW q \in 0..(n - 1), q \in P
               PROVE  q + 1 \in P
    OBVIOUS
  <2>1. q \in Nat /\ q < n /\ OK(q)
    BY <1>1
  <2>2. PICK i, k, r : Place(T, L, q, i, k, r)
    <3>1. q \in 0..(LogSums(T)[L + 1] - 1)
      OBVIOUS
    <3> QED BY <3>1, PlaceHas
  <2> DEFINE part == BufferPart(T[i].blocks, k)
  <2>3. /\ Len(part) \in Nat \ {0} /\ part \in Copies /\ r \in Nat /\ T[i].blocks \in Copies
        /\ d[Pos(s, q)] = IF r = 0 THEN BufferIndex(T[i].blocks, k) ELSE Data(part[r].val)
    BY <2>2, PlaceIs
  <2>4. /\ i \in 1..L /\ k \in 1..Buffers(Len(T[i].blocks)) /\ r \in 0..Len(part)
        /\ q = LogSums(T)[i] + LogBefore(T[i].blocks, k) + r
    BY <2>2 DEF Place
  <2>5. StillNamed(R[q], part, r)
    BY <2>1, <2>2
  <2>6. r = 0 => /\ Len(d[Pos(s, q)].idx) = Len(part)
                 /\ \A x \in 1..Len(part) : d[Pos(s, q)].idx[x] = part[x].blk
    BY <2>3, <2>4, IndexIs
  <2>7. d[Pos(s, q)].idx \in Seq(Block)
    OBVIOUS
  <2>8. R[q + 1] = IF R[q] = <<>> THEN d[Pos(s, q)].idx ELSE Tail(R[q])
    BY <1>2 DEF RestOf
  <2>9. /\ r < Len(part) => StillNamed(R[q + 1], part, r + 1)
        /\ r > 0 /\ r = Len(part) => R[q + 1] = <<>>
    <3>1. part \in Copies /\ r \in 0..Len(part)
      BY <2>3, <2>4
    <3> DEFINE f == R[q]
               g == R[q + 1]
               idx == d[Pos(s, q)].idx
    <3>2. StillNamed(f, part, r) /\ idx \in Seq(Block) /\ g = After(f, idx)
      BY <2>5, <2>7, <2>8 DEF After
    <3>3. r = 0 => IndexOf(idx, part)
      BY <2>6 DEF IndexOf
    <3>4. /\ r < Len(part) => StillNamed(g, part, r + 1)
          /\ r > 0 /\ r = Len(part) => g = <<>>
      <4> HIDE DEF part, P, f, g, idx
      <4> QED BY <3>1, <3>2, <3>3, NamedNext
    <3> QED BY <3>4
  <2>10. CASE r < Len(part)
    <3>1. Place(T, L, q + 1, i, k, r + 1)
      <4>1. r + 1 \in 0..Len(part)
        BY <2>3, <2>10
      <4>2. LogSums(T)[i] \in Nat /\ LogBefore(T[i].blocks, k) \in Nat
        <5>1. L \in 0..Len(T)
          BY DEF LogOn
        <5>2. LogSums(T)[i] \in Nat
          BY <2>4, <5>1, SumsUpTo
        <5>3. Buffers(Len(T[i].blocks)) \in Nat
          BY <2>3, BuffersOf
        <5>4. k \in 0..Buffers(Len(T[i].blocks))
          BY <2>4, <5>3
        <5> QED BY <2>3, <5>2, <5>4, BeforeIs
      <4>3. q + 1 = LogSums(T)[i] + LogBefore(T[i].blocks, k) + (r + 1)
        BY <2>3, <2>4, <4>2, SMTT(30)
      <4> QED BY <2>4, <4>1, <4>3 DEF Place
    <3>2. q + 1 < n
      BY <3>1, PlaceIs
    <3>3. OK(q + 1)
      <4> SUFFICES ASSUME NEW j, NEW l, NEW t, Place(T, L, q + 1, j, l, t)
                   PROVE  StillNamed(R[q + 1], BufferPart(T[j].blocks, l), t)
        OBVIOUS
      <4>1. j = i /\ l = k /\ t = r + 1
        BY <3>1, PlaceOne
      <4> QED BY <2>9, <2>10, <4>1
    <3> HIDE DEF OK
    <3> QED BY <1>1, <2>1, <3>2, <3>3
  <2>11. CASE r = Len(part)
    <3>1. R[q + 1] = <<>>
      BY <2>3, <2>9, <2>11
    <3>2. OK(q + 1)
      <4> SUFFICES ASSUME NEW j, NEW l, NEW t, Place(T, L, q + 1, j, l, t)
                   PROVE  StillNamed(R[q + 1], BufferPart(T[j].blocks, l), t)
        OBVIOUS
      <4>1. /\ j \in 1..L /\ l \in 1..Buffers(Len(T[j].blocks)) /\ t \in 0..Len(BufferPart(T[j].blocks, l))
            /\ q + 1 = LogSums(T)[j] + LogBefore(T[j].blocks, l) + t
        BY DEF Place
      <4>2. t \in Nat /\ j \in 1..Len(T) /\ T[j].blocks \in Copies /\ Len(BufferPart(T[j].blocks, l)) \in Nat
        BY PlaceIs
      <4>3. LogSums(T)[j] \in Nat /\ LogBefore(T[j].blocks, l) \in Nat
        <5>1. j \in 1..(Len(T) + 1)
          BY <4>2
        <5>2. Buffers(Len(T[j].blocks)) \in Nat
          BY <4>2, BuffersOf
        <5>3. l \in 0..Buffers(Len(T[j].blocks))
          BY <4>1, <5>2
        <5> QED BY <4>2, <5>1, <5>3, SumsStep, BeforeIs
      <4>4. t = 0
        <5> SUFFICES ASSUME t # 0
                     PROVE  FALSE
          OBVIOUS
        <5>1. t - 1 \in 0..Len(BufferPart(T[j].blocks, l))
          BY <4>1, <4>2
        <5>2. q = LogSums(T)[j] + LogBefore(T[j].blocks, l) + (t - 1)
          <6> DEFINE a == LogSums(T)[j]
                     c == LogBefore(T[j].blocks, l)
          <6>1. a \in Nat /\ c \in Nat /\ q + 1 = a + c + t
            BY <4>1, <4>3
          <6> HIDE DEF a, c
          <6>2. q = a + c + (t - 1)
            BY <2>1, <4>2, <6>1
          <6> QED BY <6>2 DEF a, c
        <5>3. Place(T, L, q, j, l, t - 1)
          BY <4>1, <5>1, <5>2 DEF Place
        <5>4. j = i /\ l = k /\ t - 1 = r
          BY <2>2, <5>3, PlaceOne
        <5>5. t <= Len(part)
          BY <4>1, <4>2, <5>4
        <5> QED BY <2>11, <2>3, <4>2, <5>4, <5>5
      <4> QED BY <3>1, <4>4 DEF StillNamed
    <3> HIDE DEF OK
    <3> QED BY <2>1, <3>1, <3>2
  <2> HIDE DEF OK, P, part
  <2> QED BY <2>3, <2>4, <2>10, <2>11
<1>5. \A q \in 0..n : q \in P
  <2> HIDE DEF P
  <2> QED BY <1>1, <1>3, <1>4, UpTo
<1>6. R[n] = <<>> /\ \A q \in 0..(n - 1) : OK(q)
  <2>1. n \in 0..n /\ \A q \in 0..(n - 1) : q \in 0..n /\ q < n
    BY <1>1
  <2> HIDE DEF OK
  <2> QED BY <1>5, <2>1
<1> QED BY <1>1, <1>6 DEF R

\* Every copy of a block lies in some buffer.
LEMMA CopyAt ==
  ASSUME NEW bs \in Copies, NEW j \in 1..Len(bs)
  PROVE  \E k \in 1..Buffers(Len(bs)) : \E r \in 1..Len(BufferPart(bs, k)) : BufferPart(bs, k)[r] = bs[j]
<1>1. PICK p \in 1..Len(bs) : BufferOrder(bs)[p] = bs[j]
  BY OrderOnto
<1>2. PICK k \in 1..Buffers(Len(bs)) : NewerBlocks(bs, k) < p /\ p <= NewerBlocks(bs, k - 1)
  BY BufferAt
<1> DEFINE r == p - NewerBlocks(bs, k)
<1>3. Len(bs) \in Nat /\ Buffers(Len(bs)) \in Nat /\ k \in Nat /\ k - 1 \in Nat
  BY BuffersOf
<1>4. NewerBlocks(bs, k) \in Nat /\ NewerBlocks(bs, k - 1) \in Nat
  BY <1>3, NewerIs
<1>5. Len(BufferPart(bs, k)) = NewerBlocks(bs, k - 1) - NewerBlocks(bs, k)
  BY PartIs
<1>6. r \in 1..Len(BufferPart(bs, k))
  BY <1>2, <1>3, <1>4, <1>5
<1>7. BufferOrder(bs)[p] = bs[(k - 1) * BufBlocks + r]
  BY <1>2, OrderAt
<1>8. BufferPart(bs, k)[r] = bs[(k - 1) * BufBlocks + r]
  <2> HIDE DEF r
  <2> QED BY <1>6, PartIs
<1> HIDE DEF r
<1> QED BY <1>1, <1>6, <1>7, <1>8

\* The blocks of a buffer are blocks of its transaction.
LEMMA PartIn ==
  ASSUME NEW bs \in Copies, NEW k \in 1..Buffers(Len(bs)), NEW r \in 1..Len(BufferPart(bs, k))
  PROVE  \E j \in 1..Len(bs) : BufferPart(bs, k)[r] = bs[j]
<1> DEFINE lo == (k - 1) * BufBlocks
<1>1. /\ lo \in Nat /\ lo + Len(BufferPart(bs, k)) <= Len(bs) /\ Len(BufferPart(bs, k)) \in 1..BufBlocks
      /\ BufferPart(bs, k)[r] = bs[lo + r]
  BY PartIs
<1>2. Len(bs) \in Nat
  BY BuffersOf
<1> HIDE DEF lo
<1>3. lo + r \in 1..Len(bs)
  BY <1>1, <1>2, SizesAssumption
<1> QED BY <1>1, <1>3

\* A replay finds every copy in the log ...
LEMMA LogHas ==
  ASSUME NEW T \in Seq(Transaction), NEW d, NEW s, NEW L, LogOn(d, s, T, L),
         NEW n, n = LogSums(T)[L + 1], \A q \in 0..(n - 1) : d[Pos(s, q)].idx \in Seq(Block),
         NEW i \in 1..L, NEW j \in 1..Len(T[i].blocks)
  PROVE  \E q \in Copied(d, s, n, T[i].blocks[j].blk) :
           LogSums(T)[i] <= q /\ q < LogSums(T)[i + 1]
<1> DEFINE bs == T[i].blocks
<1>1. L \in 0..Len(T) /\ n \in Nat
  BY LogReads DEF LogOn
<1>2. bs \in Copies /\ LogSums(T)[i] \in Nat
  BY <1>1, SumsUpTo
<1>a. PICK k \in 1..Buffers(Len(bs)) : \E r \in 1..Len(BufferPart(bs, k)) : BufferPart(bs, k)[r] = bs[j]
  <2>1. j \in 1..Len(bs)
    OBVIOUS
  <2> HIDE DEF bs
  <2> QED BY <1>2, <2>1, CopyAt
<1>3. PICK r \in 1..Len(BufferPart(bs, k)) : BufferPart(bs, k)[r] = bs[j]
  BY <1>a
<1> DEFINE part == BufferPart(bs, k)
           q == LogSums(T)[i] + LogBefore(bs, k) + r
<1>4. r \in 0..Len(part)
  <2>1. part \in Copies
    <3>1. bs \in Copies
      BY <1>2
    <3> HIDE DEF bs
    <3> QED BY <3>1, PartIs
  <2>2. Len(part) \in Nat
    <3> HIDE DEF part
    <3> QED BY <2>1, BuffersOf
  <2> QED BY <2>2
<1>5. Place(T, L, q, i, k, r)
  BY <1>4 DEF Place
<1> HIDE DEF q
<1>6. /\ q \in Nat /\ LogSums(T)[i] <= q /\ q < LogSums(T)[i + 1] /\ q < n /\ part \in Copies
      /\ Len(part) \in Nat
  BY <1>5, PlaceIs
<1>7. q \in 0..(n - 1)
  BY <1>1, <1>6
<1>8. StillNamed(Rest(d, s, n)[q], part, r)
  BY <1>5, <1>7, LogReads
<1> DEFINE f == Rest(d, s, n)[q]
<1> HIDE DEF f, part
<1>9. f # <<>> /\ Head(f) = bs[j].blk
  <2>1. f \in Seq(Block) /\ Len(f) = Len(part) - r + 1 /\ \A x \in 1..Len(f) : f[x] = part[r - 1 + x].blk
    BY <1>4, <1>8, <1>6 DEF StillNamed, f, part
  <2>2. Len(f) \in Nat \ {0} /\ r - 1 + 1 = r
    BY <1>4, <1>6, <2>1
  <2>3. f # <<>> /\ Head(f) = f[1]
    BY <2>1, <2>2
  <2>4. f[1] = part[r].blk
    <3>1. 1 \in 1..Len(f)
      BY <2>2
    <3> QED BY <2>1, <2>2, <3>1
  <2> QED BY <1>3, <2>3, <2>4 DEF part
<1>10. q \in Copied(d, s, n, bs[j].blk)
  BY <1>7, <1>9 DEF Copied, f
<1> QED BY <1>6, <1>10

\* ... and nothing else.
NamedBy(T, L, q, b, v) ==
  \E i \in 1..L : \E j \in 1..Len(T[i].blocks) :
    /\ LogSums(T)[i] <= q /\ q < LogSums(T)[i + 1]
    /\ T[i].blocks[j].blk = b /\ T[i].blocks[j].val = v

\* A position named for a block holds the copy some transaction has of it.
LEMMA LogNames ==
  ASSUME NEW T \in Seq(Transaction), NEW d, NEW s, NEW L, LogOn(d, s, T, L),
         NEW n, n = LogSums(T)[L + 1], \A q \in 0..(n - 1) : d[Pos(s, q)].idx \in Seq(Block),
         NEW b, NEW q \in Copied(d, s, n, b)
  PROVE  NamedBy(T, L, q, b, d[Pos(s, q)].val)
<1> DEFINE f == Rest(d, s, n)[q]
<1>1. q \in 0..(n - 1) /\ f # <<>> /\ Head(f) = b /\ n \in Nat
  BY LogReads DEF Copied
<1>2. PICK i, k, r : Place(T, L, q, i, k, r)
  BY <1>1, PlaceHas
<1> DEFINE bs == T[i].blocks
           part == BufferPart(bs, k)
<1>3. i \in 1..L /\ k \in 1..Buffers(Len(bs)) /\ r \in 0..Len(part)
  BY <1>2 DEF Place
<1>4. /\ LogSums(T)[i] <= q /\ q < LogSums(T)[i + 1] /\ part \in Copies /\ Len(part) \in Nat
      /\ r \in Nat /\ bs \in Copies
      /\ d[Pos(s, q)] = IF r = 0 THEN BufferIndex(bs, k) ELSE Data(part[r].val)
  BY <1>2, PlaceIs
<1>5. StillNamed(f, part, r)
  BY <1>1, <1>2, LogReads
<1> HIDE DEF f
<1>6. r # 0
  BY <1>1, <1>5 DEF StillNamed
<1>7. r \in 1..Len(part)
  BY <1>3, <1>4, <1>6
<1>8. b = part[r].blk
  <2> HIDE DEF part
  <2>1. f \in Seq(Block) /\ Len(f) = Len(part) - r + 1 /\ \A x \in 1..Len(f) : f[x] = part[r - 1 + x].blk
    BY <1>5, <1>6 DEF StillNamed
  <2>2. Len(f) \in Nat \ {0} /\ r - 1 + 1 = r
    BY <1>4, <1>7, <2>1
  <2>3. Head(f) = f[1]
    BY <2>1, <2>2
  <2>4. f[1] = part[r].blk
    <3>1. 1 \in 1..Len(f)
      BY <2>2
    <3> QED BY <2>1, <2>2, <3>1
  <2> QED BY <1>1, <2>3, <2>4
<1>9. PICK j \in 1..Len(bs) : part[r] = bs[j]
  <2>1. bs \in Copies
    BY <1>4
  <2> HIDE DEF bs
  <2> QED BY <1>3, <1>7, <2>1, PartIn
<1>10. d[Pos(s, q)].val = part[r].val
  <2> HIDE DEF part, bs
  <2> QED BY <1>4, <1>6 DEF Data
<1> QED BY <1>3, <1>4, <1>8, <1>9, <1>10 DEF NamedBy

\* Where no index names a block, there is an index that names some.
LEMMA LogIndexed ==
  ASSUME NEW T \in Seq(Transaction), NEW d, NEW s, NEW L, LogOn(d, s, T, L),
         NEW n, n = LogSums(T)[L + 1], \A q \in 0..(n - 1) : d[Pos(s, q)].idx \in Seq(Block),
         NEW q \in 0..(n - 1), Rest(d, s, n)[q] = <<>>
  PROVE  d[Pos(s, q)].idx # <<>>
<1> DEFINE f == Rest(d, s, n)[q]
<1>1. n \in Nat
  BY LogReads
<1>2. PICK i, k, r : Place(T, L, q, i, k, r)
  BY <1>1, PlaceHas
<1> DEFINE bs == T[i].blocks
           part == BufferPart(bs, k)
<1>3. i \in 1..L /\ k \in 1..Buffers(Len(bs)) /\ r \in 0..Len(part)
  BY <1>2 DEF Place
<1>4. /\ Len(part) \in Nat \ {0} /\ r \in Nat /\ bs \in Copies
      /\ d[Pos(s, q)] = IF r = 0 THEN BufferIndex(bs, k) ELSE Data(part[r].val)
  BY <1>2, PlaceIs
<1>5. StillNamed(f, part, r) /\ f = <<>>
  BY <1>2, LogReads
<1> HIDE DEF f
<1>6. r = 0
  <2> HIDE DEF part
  <2>1. r # 0 => Len(f) = Len(part) - r + 1
    BY <1>5 DEF StillNamed
  <2>2. Len(f) = 0
    BY <1>5
  <2> QED BY <1>3, <1>4, <2>1, <2>2
<1>7. Len(BufferIndex(bs, k).idx) = Len(part)
  <2>1. bs \in Copies
    BY <1>4
  <2> HIDE DEF bs
  <2> QED BY <1>3, <2>1, IndexIs
<1>8. Len(d[Pos(s, q)].idx) # 0
  <2> HIDE DEF part, bs
  <2> QED BY <1>4, <1>6, <1>7
<1> QED BY <1>8
-----------------------------------------------------------------------------
(* What the log of a volume in memory gives back.                          *)

LoggedLen == IF HasOpen THEN Len(trans) - 1 ELSE Len(trans)

Home == Inv /\ nLoggStart = 1 /\ InMemoryState

\* The valid range of a volume in memory holds the logs of its logged
\* transactions.
LEMMA LogIsOn ==
  Home => /\ LoggedLen \in 0..Len(trans) /\ trans \in Seq(Transaction) /\ Len(trans) \in Nat
          /\ LogOn(disk, superblock.start, trans, LoggedLen)
          /\ superblock.valid = LogSums(trans)[LoggedLen + 1]
          /\ superblock.start \in 1..LogSize /\ superblock.valid \in 0..LogSize
          /\ \A q \in 0..(superblock.valid - 1) :
               /\ Pos(superblock.start, q) \in 1..LogSize
               /\ disk[Pos(superblock.start, q)].idx \in Seq(Block)
          /\ \A i \in 1..Len(trans) : trans[i].logged <=> i <= LoggedLen
<1> HAVE Home
<1>1. Inv /\ nLoggStart = 1 /\ InMemoryState /\ TypeOK
  BY DEF Home, Inv
<1>2. /\ trans \in Seq(Transaction) /\ Len(trans) \in Nat
      /\ trans = <<>> <=> Len(trans) = 0
      /\ HasOpen <=> Len(trans) > 0 /\ ~trans[Len(trans)].logged
      /\ trans # <<>> => Oldest = trans[1] /\ 1 \in 1..Len(trans)
  BY <1>1, ListIs
<1> DEFINE L == LoggedLen
<1>3. L \in 0..Len(trans) /\ L \in Nat /\ L + 1 = Len(trans) + (IF HasOpen THEN 0 ELSE 1)
      /\ L + 1 \in 1..(Len(trans) + 1)
  BY <1>2 DEF LoggedLen
<1>4. superblock.valid = LogSums(trans)[L + 1]
  BY <1>1, <1>3 DEF Inv, LogInPlace
<1>5. superblock.start = IF trans = <<>> THEN 1 ELSE trans[1].start
  BY <1>1, <1>2 DEF Inv, LogInPlace
<1>6. superblock.start \in 1..LogSize
  <2>1. trans # <<>> => trans[1].start \in 1..LogSize
    BY <1>1, <1>2, SumsIn
  <2> QED BY <1>5, <2>1, SizesAssumption
<1>7. superblock.valid \in 0..LogSize
  <2>1. LogSums(trans)[L + 1] \in Nat
    BY <1>2, <1>3, SumsStep
  <2>2. L + 1 \in 1..(Len(trans) + 1) /\ Len(trans) + 1 \in 1..(Len(trans) + 1)
    BY <1>2, <1>3
  <2>3. LogSums(trans)[L + 1] <= LogSums(trans)[Len(trans) + 1] /\ LogSums(trans)[Len(trans) + 1] \in Nat
    BY <1>2, <2>2, SumsGrow, SumsStep
  <2>4. LogSums(trans)[Len(trans) + 1] <= LogSize
    BY <1>1 DEF Inv, CountsAgree
  <2> HIDE DEF L
  <2> QED BY <1>4, <2>1, <2>3, <2>4, SizesAssumption
<1>8. \A i \in 1..Len(trans) : trans[i].logged <=> i <= L
  <2> TAKE i \in 1..Len(trans)
  <2>1. i < Len(trans) => trans[i].logged
    <3>1. i < Len(trans) => i + 1 \in 2..Len(trans) /\ (i + 1) - 1 = i
      BY <1>2
    <3> QED BY <1>1, <3>1 DEF Inv, ListInOrder
  <2>2. CASE HasOpen
    BY <1>2, <2>1, <2>2 DEF LoggedLen
  <2>3. CASE ~HasOpen
    BY <1>2, <2>1, <2>3 DEF LoggedLen
  <2> QED BY <2>2, <2>3
<1> HIDE DEF L
<1>9. LogOn(disk, superblock.start, trans, L)
  <2>1. \A i \in 1..L : trans[i].count = Len(LogImage(trans[i].blocks))
    BY <1>1, <1>2, <1>3 DEF Inv, CountsAgree
  <2>2. ASSUME NEW i \in 1..L, NEW p \in 1..trans[i].count
        PROVE  disk[Pos(superblock.start, LogSums(trans)[i] + p - 1)] = LogImage(trans[i].blocks)[p]
    <3>1. i \in 1..Len(trans) /\ trans # <<>> /\ i <= L
      BY <1>2, <1>3
    <3>2. p \in 1..Len(LogImage(trans[i].blocks))
      BY <2>1
    <3>3. LogPos(trans[i].start, nLoggStart, nLoggEnd, p - 1) = Pos(trans[1].start, LogSums(trans)[i] + p - 1)
      BY <1>1, <3>1, <3>2, SlotIs
    <3>4. InLog(trans[i])
      BY <1>1, <1>8, <3>1 DEF Inv, LogInPlace
    <3>5. disk[LogPos(trans[i].start, nLoggStart, nLoggEnd, p - 1)] = LogImage(trans[i].blocks)[p]
      BY <3>2, <3>4 DEF InLog
    <3> QED BY <1>5, <3>1, <3>3, <3>5
  <2> QED BY <1>3, <2>1, <2>2 DEF LogOn
<1>10. ASSUME NEW q \in 0..(superblock.valid - 1)
       PROVE  Pos(superblock.start, q) \in 1..LogSize /\ disk[Pos(superblock.start, q)].idx \in Seq(Block)
  <2>1. q \in 0..LogSize
    BY <1>7, SizesAssumption
  <2>2. Pos(superblock.start, q) \in 1..LogSize
    BY <1>6, <2>1, PosIn
  <2>3. Pos(superblock.start, q) \in Addr
    BY <2>2, AddrIs
  <2>4. disk \in [Addr -> [val : Int, idx : Seq(Block)]]
    BY <1>1 DEF TypeOK
  <2> QED BY <2>2, <2>3, <2>4
<1> QED BY <1>2, <1>3, <1>4, <1>6, <1>7, <1>8, <1>9, <1>10 DEF L

\* A replay would leave the newest copy of a block in the log, or the block as
\* it is on disk.
LEMMA RecoveredCopy ==
  Home => \A b \in Block :
    /\ (\A i \in 1..LoggedLen : ~Holds(i, b)) => Recovered[b] = disk[b].val
    /\ \A i \in 1..LoggedLen : \A j \in 1..Len(trans[i].blocks) :
         trans[i].blocks[j].blk = b /\ (\A k \in (i + 1)..LoggedLen : ~Holds(k, b))
           => Recovered[b] = trans[i].blocks[j].val
<1> HAVE Home
<1> TAKE b \in Block
<1> DEFINE n == superblock.valid
           s == superblock.start
           L == LoggedLen
           C == Copied(disk, s, n, b)
<1>1. /\ L \in 0..Len(trans) /\ trans \in Seq(Transaction) /\ Len(trans) \in Nat
      /\ LogOn(disk, s, trans, L) /\ n = LogSums(trans)[L + 1] /\ n \in Nat
      /\ \A q \in 0..(n - 1) : disk[Pos(s, q)].idx \in Seq(Block)
  BY LogIsOn, SizesAssumption
<1>2. Recovered[b] = Found(disk, s, n, b)
  BY RecoveredIs
<1> HIDE DEF n, s, L
<1>3. \A q \in C : \E i \in 1..L : \E j \in 1..Len(trans[i].blocks) :
        /\ LogSums(trans)[i] <= q /\ q < LogSums(trans)[i + 1]
        /\ trans[i].blocks[j].blk = b /\ trans[i].blocks[j].val = disk[Pos(s, q)].val
  <2> TAKE q \in C
  <2>1. NamedBy(trans, L, q, b, disk[Pos(s, q)].val)
    <3> HIDE DEF C
    <3>1. q \in Copied(disk, s, n, b)
      BY DEF C
    <3> QED BY <1>1, <3>1, LogNames
  <2> QED BY <2>1 DEF NamedBy
<1>4. (\A i \in 1..L : ~Holds(i, b)) => Recovered[b] = disk[b].val
  <2> SUFFICES ASSUME \A i \in 1..L : ~Holds(i, b)
               PROVE  Recovered[b] = disk[b].val
    OBVIOUS
  <2>1. C = {}
    BY <1>3 DEF Holds
  <2> QED BY <1>1, <1>2, <2>1, FoundIs
<1>5. ASSUME NEW i \in 1..L, NEW j \in 1..Len(trans[i].blocks), trans[i].blocks[j].blk = b,
             \A k \in (i + 1)..L : ~Holds(k, b)
      PROVE  Recovered[b] = trans[i].blocks[j].val
  <2>1. PICK q \in C : LogSums(trans)[i] <= q
    BY <1>1, <1>5, LogHas
  <2>2. PICK m \in C : (\A c \in C : c <= m) /\ Found(disk, s, n, b) = disk[Pos(s, m)].val
    <3>1. C # {}
      BY <2>1
    <3> QED BY <1>1, <3>1, FoundIs
  <2>3. PICK h \in 1..L : \E g \in 1..Len(trans[h].blocks) :
          /\ LogSums(trans)[h] <= m /\ m < LogSums(trans)[h + 1]
          /\ trans[h].blocks[g].blk = b /\ trans[h].blocks[g].val = disk[Pos(s, m)].val
    BY <1>3, <2>2
  <2>4. PICK g \in 1..Len(trans[h].blocks) :
          /\ LogSums(trans)[h] <= m /\ m < LogSums(trans)[h + 1]
          /\ trans[h].blocks[g].blk = b /\ trans[h].blocks[g].val = disk[Pos(s, m)].val
    BY <2>3
  <2>5. q \in Nat /\ m \in Nat /\ q <= m
    <3>1. C \subseteq Nat
      BY <1>1 DEF Copied
    <3> QED BY <2>1, <2>2, <3>1
  <2>6. ~(h < i)
    <3>1. h < i => h + 1 \in 1..i /\ i \in 1..(Len(trans) + 1) /\ h + 1 \in 1..(Len(trans) + 1)
      BY <1>1
    <3>2. h < i => LogSums(trans)[h + 1] <= LogSums(trans)[i] /\ LogSums(trans)[i] \in Nat
                   /\ LogSums(trans)[h + 1] \in Nat
      BY <1>1, <3>1, SumsGrow, SumsStep
    <3> QED BY <2>1, <2>4, <2>5, <3>2
  <2>7. ~(i < h)
    <3>1. Holds(h, b)
      BY <2>4 DEF Holds
    <3> QED BY <1>1, <1>5, <3>1
  <2>8. h = i
    BY <1>1, <2>6, <2>7
  <2>9. g = j
    <3>1. i \in 1..Len(trans)
      BY <1>1
    <3> QED BY <1>5, <2>4, <2>8, <3>1 DEF Home, Inv, OneCopyPerBlock
  <2> QED BY <1>2, <2>2, <2>4, <2>8, <2>9
<1> QED BY <1>4, <1>5 DEF L

\* What is committed is the newest copy of a block in a transaction, or the
\* block as it is on disk.
LEMMA CommittedCopy ==
  Inv /\ InMemoryState => \A b \in Block :
    /\ (\A i \in 1..Len(trans) : ~Holds(i, b)) => Committed[b] = disk[b].val
    /\ \A i \in 1..Len(trans) : \A j \in 1..Len(trans[i].blocks) :
         trans[i].blocks[j].blk = b /\ Newest(i, b) => Committed[b] = trans[i].blocks[j].val
<1> HAVE Inv /\ InMemoryState
<1> TAKE b \in Block
<1>0. TypeOK /\ HashFollows /\ CacheFollows /\ OneCopyPerBlock /\ ListInOrder
  BY DEF Inv
<1>1. trans \in Seq(Transaction) /\ Len(trans) \in Nat /\ (trans = <<>> <=> Len(trans) = 0)
      /\ (trans # <<>> => Oldest = trans[1] /\ 1 \in 1..Len(trans))
  BY <1>0, ListIs
<1>2. Committed[b] = IF hash[b].present /\ LiveBuffer(hash[b].buffer) THEN BufferRead(hash[b].buffer)
                     ELSE CachedRead(b)
  BY DEF Committed
<1>3. LiveBuffer(hash[b].buffer) =>
        \E i \in 1..Len(trans) :
          /\ hash[b].buffer[1] = trans[i].id
          /\ BufferRead(hash[b].buffer) = trans[i].blocks[hash[b].buffer[2]].val
  <2> SUFFICES ASSUME LiveBuffer(hash[b].buffer)
               PROVE  \E i \in 1..Len(trans) :
                        /\ hash[b].buffer[1] = trans[i].id
                        /\ BufferRead(hash[b].buffer) = trans[i].blocks[hash[b].buffer[2]].val
    OBVIOUS
  <2> DEFINE c == CHOOSE i \in 1..Len(trans) : trans[i].id = hash[b].buffer[1]
  <2>1. c \in 1..Len(trans) /\ trans[c].id = hash[b].buffer[1]
    BY DEF LiveBuffer
  <2>2. BufferRead(hash[b].buffer) = trans[c].blocks[hash[b].buffer[2]].val
    BY DEF BufferRead
  <2> HIDE DEF c
  <2> QED BY <2>1, <2>2
<1>4. \A i \in 1..Len(trans) : hash[b].buffer[1] = trans[i].id =>
        /\ hash[b].buffer[2] \in 1..Len(trans[i].blocks)
        /\ trans[i].blocks[hash[b].buffer[2]].blk = b
        /\ Newest(i, b)
  BY <1>0 DEF HashFollows
<1>5. cache[b].dirty => trans # <<>> /\ Holds(1, b)
  <2> SUFFICES ASSUME cache[b].dirty
               PROVE  trans # <<>> /\ Holds(1, b)
    OBVIOUS
  <2>1. trans # <<>> /\ \E p \in 1..Handed : BufferOrder(Oldest.blocks)[p].blk = b
    BY <1>0 DEF CacheFollows
  <2>2. PICK p \in 1..Len(Oldest.blocks) : BufferOrder(Oldest.blocks)[p].blk = b
    BY <2>1, HandedIs
  <2>3. PICK x \in 1..Len(Oldest.blocks) : BufferOrder(Oldest.blocks)[p] = Oldest.blocks[x]
    BY <2>1, HandedIs, OrderIn
  <2> QED BY <1>1, <2>1, <2>2, <2>3 DEF Holds
<1>6. (\A i \in 1..Len(trans) : ~Holds(i, b)) => Committed[b] = disk[b].val
  <2> SUFFICES ASSUME \A i \in 1..Len(trans) : ~Holds(i, b)
               PROVE  Committed[b] = disk[b].val
    OBVIOUS
  <2>1. ~LiveBuffer(hash[b].buffer)
    BY <1>3, <1>4 DEF Holds
  <2>2. ~cache[b].dirty
    BY <1>1, <1>5
  <2> QED BY <1>2, <2>1, <2>2 DEF CachedRead
<1>7. ASSUME NEW i \in 1..Len(trans), NEW j \in 1..Len(trans[i].blocks),
             trans[i].blocks[j].blk = b, Newest(i, b)
      PROVE  Committed[b] = trans[i].blocks[j].val
  <2>1. Holds(i, b)
    BY <1>7 DEF Holds
  <2>2. LiveBuffer(hash[b].buffer) => BufferRead(hash[b].buffer) = trans[i].blocks[j].val
    <3> SUFFICES ASSUME LiveBuffer(hash[b].buffer)
                 PROVE  BufferRead(hash[b].buffer) = trans[i].blocks[j].val
      OBVIOUS
    <3>1. PICK k \in 1..Len(trans) : /\ hash[b].buffer[1] = trans[k].id
                                     /\ BufferRead(hash[b].buffer) = trans[k].blocks[hash[b].buffer[2]].val
      BY <1>3
    <3>2. Newest(k, b) /\ Holds(k, b)
      BY <1>4, <3>1 DEF Holds
    <3>3. k = i
      <4>1. ~(k < i) /\ ~(i < k)
        BY <1>1, <1>7, <2>1, <3>2 DEF Newest
      <4> QED BY <1>1, <4>1
    <3>4. hash[b].buffer[2] = j
      BY <1>0, <1>4, <1>7, <3>1, <3>3 DEF OneCopyPerBlock
    <3> QED BY <3>1, <3>3, <3>4
  <2>3. CASE ~trans[i].ondisk
    <3>1. hash[b].trans = trans[i].id /\ hash[b].buffer[1] = trans[i].id
      BY <1>0, <1>7, <2>1, <2>3 DEF HashFollows
    <3>2. LiveBuffer(hash[b].buffer)
      BY <3>1 DEF LiveBuffer
    <3>3. hash[b].present
      <4>1. trans[i].id # 0
        BY <1>0, <1>1 DEF ListInOrder
      <4> QED BY <1>0, <3>1, <4>1, NoEntryIs DEF HashFollows
    <3> QED BY <1>2, <2>2, <3>2, <3>3
  <2>4. CASE trans[i].ondisk
    <3>1. i = 1 /\ Oldest = trans[1] /\ Oldest.written = Len(Oldest.blocks) /\ trans # <<>>
          /\ Oldest.ondisk
      BY <1>0, <1>1, <2>4 DEF ListInOrder
    <3>2. ~At("count") /\ Len(Oldest.blocks) \in Nat /\ Oldest.blocks \in Copies
      <4>1. Len(Oldest.blocks) \in Nat /\ Oldest.blocks \in Copies
        BY <1>0, <1>1, <3>1, TransIs
      <4> QED BY <3>1, <4>1 DEF Inv, StepsReady
    <3>3. Handed = Len(Oldest.blocks)
      BY <3>1, <3>2 DEF Handed
    <3>4. PICK p \in 1..Len(Oldest.blocks) : BufferOrder(Oldest.blocks)[p] = Oldest.blocks[j]
      BY <3>1, <3>2, OrderOnto
    <3>5. CachedRead(BufferOrder(Oldest.blocks)[p].blk) = BufferOrder(Oldest.blocks)[p].val
      BY <1>0, <3>3, <3>4 DEF CacheFollows
    <3>6. CachedRead(b) = trans[i].blocks[j].val
      BY <1>7, <3>1, <3>4, <3>5
    <3> QED BY <1>2, <2>2, <3>6
  <2> QED BY <2>3, <2>4
<1> QED BY <1>6, <1>7
-----------------------------------------------------------------------------
(* Mount and replay.                                                       *)

\* A log that a replay can read, and how far it has got when m blocks are read.
Readable(d, s, n) ==
  /\ s \in 1..LogSize /\ n \in 0..LogSize
  /\ Rest(d, s, n)[n] = <<>>
  /\ \A q \in 0..(n - 1) : Rest(d, s, n)[q] = <<>> => d[Pos(s, q)].idx # <<>>

InPlace(d, s, n, m) ==
  \A i \in 0..(m - 1) :
    /\ Rest(d, s, n)[i] # <<>>
    /\ \A j \in (i + 1)..(m - 1) : Rest(d, s, n)[j] # <<>> => Head(Rest(d, s, n)[j]) # Head(Rest(d, s, n)[i])
    => d[Head(Rest(d, s, n)[i])].val = d[Pos(s, i)].val

ReplayIs(d, s, n, r) ==
  /\ r.left \in 0..n
  /\ r.pos = Pos(s, n - r.left)
  /\ r.idx = Rest(d, s, n)[n - r.left]
  /\ InPlace(d, s, n, n - r.left)

\* ReplayFollows with the disk and the range as parameters.
LEMMA ReplayFollowsIs ==
  TypeOK => (ReplayFollows <=> (~InMemoryState =>
               /\ Readable(disk, superblock.start, superblock.valid)
               /\ mode = "replay" => ReplayIs(disk, superblock.start, superblock.valid, replay)))
<1> HAVE TypeOK
<1> DEFINE s == superblock.start
           n == superblock.valid
           R == Rest(disk, s, n)
           m == n - replay.left
<1>1. n \in Nat
  BY DEF TypeOK
<1>2. Named = R /\ \A i : ValidPos(i) = Pos(s, i)
  BY RecoveredIs
<1>3. ReplayFollows <=> (~InMemoryState =>
        /\ s \in 1..LogSize /\ n <= LogSize
        /\ R[n] = <<>>
        /\ \A i \in 0..(n - 1) : R[i] = <<>> => disk[Pos(s, i)].idx # <<>>
        /\ mode = "replay" =>
             /\ replay.left \in 0..n
             /\ replay.pos = Pos(s, m)
             /\ replay.idx = R[m]
             /\ \A i \in 0..(m - 1) :
                  /\ R[i] # <<>>
                  /\ \A j \in (i + 1)..(m - 1) : R[j] # <<>> => Head(R[j]) # Head(R[i])
                  => disk[Head(R[i])].val = disk[Pos(s, i)].val)
  BY <1>2 DEF ReplayFollows, Replayed
<1>4. Readable(disk, s, n) <=> /\ s \in 1..LogSize /\ n <= LogSize
                               /\ R[n] = <<>>
                               /\ \A i \in 0..(n - 1) : R[i] = <<>> => disk[Pos(s, i)].idx # <<>>
  <2>1. n \in 0..LogSize <=> n <= LogSize
    BY <1>1, SizesAssumption
  <2> HIDE DEF s, n
  <2> QED BY <2>1 DEF Readable
<1>5. ReplayIs(disk, s, n, replay) <=>
        /\ replay.left \in 0..n
        /\ replay.pos = Pos(s, m)
        /\ replay.idx = R[m]
        /\ \A i \in 0..(m - 1) :
             /\ R[i] # <<>>
             /\ \A j \in (i + 1)..(m - 1) : R[j] # <<>> => Head(R[j]) # Head(R[i])
             => disk[Head(R[i])].val = disk[Pos(s, i)].val
  <2> HIDE DEF s, n
  <2> QED BY DEF ReplayIs, InPlace
<1> HIDE DEF s, n, R, m
<1> QED BY <1>3, <1>4, <1>5, Zenon DEF s, n, R, m

\* What an index still names is a sequence of blocks.
LEMMA RestType ==
  ASSUME NEW d, NEW s, NEW n \in Nat, \A q \in 0..(n - 1) : d[Pos(s, q)].idx \in Seq(Block)
  PROVE  \A i \in 0..n : Rest(d, s, n)[i] \in Seq(Block)
<1> DEFINE R == Rest(d, s, n)
           P == {i \in Nat : R[i] \in Seq(Block)}
<1>1. RestOf(R, d, s, n)
  BY RestIs
<1> HIDE DEF R
<1>2. 0 \in P
  <2>1. R[0] = <<>>
    BY <1>1 DEF RestOf
  <2>2. <<>> \in Seq(Block)
    OBVIOUS
  <2> QED BY <2>1, <2>2
<1>3. \A i \in 0..(n - 1) : i \in P => i + 1 \in P
  <2> SUFFICES ASSUME NEW i \in 0..(n - 1), R[i] \in Seq(Block)
               PROVE  R[i + 1] \in Seq(Block)
    OBVIOUS
  <2>1. R[i + 1] = IF R[i] = <<>> THEN d[Pos(s, i)].idx ELSE Tail(R[i])
    BY <1>1 DEF RestOf
  <2>2. R[i] # <<>> => Tail(R[i]) \in Seq(Block)
    OBVIOUS
  <2> QED BY <2>1, <2>2
<1>4. \A i \in 0..n : i \in P
  <2> HIDE DEF P
  <2> QED BY <1>2, <1>3, UpTo
<1> QED BY <1>4 DEF R

\* A disk that differs outside the valid range.
LEMMA ReadableSame ==
  ASSUME NEW d, NEW e, NEW s, NEW n, Readable(d, s, n),
         \A i \in 0..(n - 1) : d[Pos(s, i)] = e[Pos(s, i)]
  PROVE  Readable(e, s, n) /\ Rest(e, s, n) = Rest(d, s, n)
<1>1. n \in Nat
  BY SizesAssumption DEF Readable
<1>2. Rest(d, s, n) = Rest(e, s, n)
  BY <1>1, RestSame
<1> QED BY <1>2 DEF Readable

\* A volume in memory has a log that can be read.
LEMMA HomeReadable ==
  Home => Readable(disk, superblock.start, superblock.valid)
<1> HAVE Home
<1> DEFINE n == superblock.valid
           s == superblock.start
           L == LoggedLen
<1>1. /\ trans \in Seq(Transaction) /\ s \in 1..LogSize /\ n \in 0..LogSize
      /\ LogOn(disk, s, trans, L) /\ n = LogSums(trans)[L + 1]
      /\ \A q \in 0..(n - 1) : disk[Pos(s, q)].idx \in Seq(Block)
  BY LogIsOn
<1> HIDE DEF n, s, L
<1>2. Rest(disk, s, n)[n] = <<>>
  BY <1>1, LogReads
<1>3. \A q \in 0..(n - 1) : Rest(disk, s, n)[q] = <<>> => disk[Pos(s, q)].idx # <<>>
  <2> TAKE q \in 0..(n - 1)
  <2> QED BY <1>1, LogIndexed
<1>4. Readable(disk, s, n)
  BY <1>1, <1>2, <1>3 DEF Readable
<1> QED BY <1>4 DEF n, s

\* Writing the log of the open transaction leaves the valid range alone.
LEMMA OutsideRange ==
  ASSUME Home, HasOpen, NEW q \in 0..(superblock.valid - 1)
  PROVE  Pos(superblock.start, q) \notin DOMAIN LogWrites(Current)
<1> DEFINE n == Len(trans)
           s == trans[1].start
<1>1. Inv /\ nLoggStart = 1 /\ InMemoryState /\ TypeOK
  BY DEF Home, Inv
<1>2. n \in 1..Len(trans) /\ 1 \in 1..Len(trans) /\ trans # <<>> /\ Current = trans[n] /\ Oldest = trans[1]
      /\ n \in Nat
  BY <1>1, ListIs
<1>3. superblock.valid = LogSums(trans)[n] /\ superblock.start = s
  BY <1>1, <1>2 DEF Inv, LogInPlace
<1>4. LogSums(trans)[n] \in Nat /\ LogSums(trans)[n + 1] = LogSums(trans)[n] + trans[n].count
      /\ LogSums(trans)[n + 1] <= LogSize /\ Len(LogImage(trans[n].blocks)) = trans[n].count
      /\ trans[n].count \in Nat
  BY <1>1, <1>2, SumsIn
<1>5. s \in 1..LogSize
  BY <1>1, <1>2, SumsIn
<1> HIDE DEF n, s
<1> SUFFICES ASSUME Pos(superblock.start, q) \in DOMAIN LogWrites(Current)
             PROVE  FALSE
  OBVIOUS
<1>6. PICK i \in 1..Len(LogImage(trans[n].blocks)) : Pos(s, q) = Pos(s, LogSums(trans)[n] + i - 1)
  <2>1. Pos(s, q) \in DOMAIN LogWrites(trans[n])
    BY <1>2, <1>3
  <2>2. n \in 1..Len(trans)
    BY <1>2
  <2> QED BY <1>1, <2>1, <2>2, LogWritesIs DEF s
<1>7. LogSums(trans)[n] + i - 1 \in 0..(LogSize - 1) /\ q \in 0..(LogSize - 1)
      /\ q < LogSums(trans)[n] + i - 1 + 1 /\ q # LogSums(trans)[n] + i - 1
  BY <1>3, <1>4, SizesAssumption, SMTT(30)
<1> QED BY <1>5, <1>6, <1>7, PosOne

\* What keeps the volume in memory.
InMemoryStep ==
  \/ FileSystemCall \/ afs_journal_flusher \/ (\E b \in Block : cache_flusher(b))
  \/ CallStep /\ ~unmounted

\* The steps of a mounted volume leave it in memory.
LEMMA StaysInMemory ==
  ASSUME InMemoryStep
  PROVE  mode = "mounted" /\ InMemoryState /\ InMemoryState'
<1>1. mode = "mounted" /\ (mode' = "mounted" \/ mode' = "panic in callback" \/ mode' = "panic in log")
  <2>1. CASE FileSystemCall
    BY <2>1 DEF FileSystemCall, afs_begin_transaction, afs_logged_write, afs_end_transaction,
                afs_checkpoint_journal, afs_wait_for_block_to_leave_log, afs_sync, afs_unmount, Run, Idle
  <2>2. CASE afs_journal_flusher
    BY <2>2 DEF afs_journal_flusher, Run, Idle
  <2>3. CASE \E b \in Block : cache_flusher(b)
    BY <2>3 DEF cache_flusher, flush_block_list
  <2>4. CASE CallStep /\ ~unmounted
    <3>1. CASE flush_device_cache \/ afs_force_flush_transaction
      BY <3>1 DEF flush_device_cache, afs_force_flush_transaction, flush_block_list, Step
    <3>2. CASE write_log_blocks \/ write_log_superblock \/ write_logged_blocks
      BY <3>2 DEF write_log_blocks, write_log_superblock, write_logged_blocks, Step
    <3>3. CASE count_written_block \/ written_to_disk \/ afs_discard_flushed_journal_entries
               \/ afs_wait_for_log_space \/ wait_for_block_to_leave_log_round
      BY <3>3 DEF count_written_block, written_to_disk, afs_discard_flushed_journal_entries, Discard,
                  afs_wait_for_log_space, wait_for_block_to_leave_log_round, Step, InMemory
    <3>4. CASE create_next_transaction \/ afs_merge_transactions \/ merge_fails
               \/ afs_discard_transactions \/ transaction_ended
      BY <3>4 DEF create_next_transaction, afs_merge_transactions, merge_fails,
                  afs_discard_transactions, transaction_ended, Step, InMemory
    <3> QED BY <2>4, <3>1, <3>2, <3>3, <3>4 DEF CallStep
  <2> QED BY <2>1, <2>2, <2>3, <2>4 DEF InMemoryStep
<1> QED BY <1>1 DEF InMemoryState

\* One step of a replay: an index block is read ...
LEMMA ReplayIndex ==
  ASSUME NEW d, NEW s, NEW n, NEW r, Readable(d, s, n), ReplayIs(d, s, n, r),
         r.idx = <<>>, r.left > 0
  PROVE  ReplayIs(d, s, n, [pos |-> Pos(r.pos, 1), left |-> r.left - 1, idx |-> d[r.pos].idx])
<1> DEFINE R == Rest(d, s, n)
           m == n - r.left
           t == [pos |-> Pos(r.pos, 1), left |-> r.left - 1, idx |-> d[r.pos].idx]
<1>1. s \in 1..LogSize /\ n \in 0..LogSize /\ n \in Nat
  BY SizesAssumption DEF Readable
<1>2. /\ r.left \in 0..n /\ r.pos = Pos(s, m) /\ R[m] = <<>> /\ InPlace(d, s, n, m)
      /\ m \in 0..(n - 1) /\ n - (r.left - 1) = m + 1 /\ r.left - 1 \in 0..n /\ m + 1 <= LogSize
  BY <1>1, SizesAssumption DEF ReplayIs
<1>3. t.pos = Pos(r.pos, 1) /\ t.left = r.left - 1 /\ t.idx = d[r.pos].idx
  OBVIOUS
<1>4. RestOf(R, d, s, n)
  BY <1>1, RestIs
<1> HIDE DEF R, m, t
<1>5. R[m + 1] = d[Pos(s, m)].idx
  BY <1>2, <1>4 DEF RestOf
<1>6. Pos(r.pos, 1) = Pos(s, m + 1)
  BY <1>1, <1>2, PosSum
<1>7. InPlace(d, s, n, m + 1)
  <2> SUFFICES ASSUME NEW i \in 0..m, R[i] # <<>>,
                      \A j \in (i + 1)..m : R[j] # <<>> => Head(R[j]) # Head(R[i])
               PROVE  d[Head(R[i])].val = d[Pos(s, i)].val
    BY <1>2 DEF InPlace, R
  <2>1. i \in 0..(m - 1) /\ \A j \in (i + 1)..(m - 1) : R[j] # <<>> => Head(R[j]) # Head(R[i])
    BY <1>2
  <2> QED BY <1>2, <2>1 DEF InPlace, R
<1>8. t.left \in 0..n /\ n - t.left = m + 1 /\ t.pos = Pos(s, m + 1) /\ t.idx = R[m + 1]
  BY <1>2, <1>3, <1>5, <1>6
<1>9. ReplayIs(d, s, n, t)
  BY <1>7, <1>8 DEF ReplayIs, R
<1> QED BY <1>9 DEF t

\* ... or a block that the index names goes to its place.
LEMMA ReplayCopy ==
  ASSUME NEW d, NEW e, NEW s, NEW n, NEW r, Readable(d, s, n), ReplayIs(d, s, n, r),
         r.idx # <<>>,
         \A q \in 0..(n - 1) : d[Pos(s, q)].idx \in Seq(Block),
         \A a \in Addr : a # Head(r.idx) => e[a] = d[a],
         e[Head(r.idx)] = d[r.pos]
  PROVE  /\ Readable(e, s, n) /\ Rest(e, s, n) = Rest(d, s, n)
         /\ n - r.left \in 0..(n - 1) /\ Head(r.idx) \in Block
         /\ ReplayIs(e, s, n, [pos |-> Pos(r.pos, 1), left |-> r.left - 1, idx |-> Tail(r.idx)])
<1> DEFINE R == Rest(d, s, n)
           m == n - r.left
           h == Head(r.idx)
           t == [pos |-> Pos(r.pos, 1), left |-> r.left - 1, idx |-> Tail(r.idx)]
<1>1. s \in 1..LogSize /\ n \in 0..LogSize /\ n \in Nat /\ R[n] = <<>>
  BY SizesAssumption DEF Readable
<1>2. r.left \in 0..n /\ r.pos = Pos(s, m) /\ r.idx = R[m] /\ InPlace(d, s, n, m)
  BY DEF ReplayIs
<1>3. r.left # 0
  <2> SUFFICES ASSUME r.left = 0 PROVE FALSE
    OBVIOUS
  <2>1. m = n
    BY <1>1
  <2> HIDE DEF m, R
  <2> QED BY <1>1, <1>2, <2>1
<1>4. m \in 0..(n - 1) /\ n - (r.left - 1) = m + 1 /\ r.left - 1 \in 0..n /\ m + 1 <= LogSize
      /\ m \in 0..n
  BY <1>1, <1>2, <1>3, SizesAssumption
<1>5. t.pos = Pos(r.pos, 1) /\ t.left = r.left - 1 /\ t.idx = Tail(r.idx)
  OBVIOUS
<1>6. RestOf(R, d, s, n)
  BY <1>1, RestIs
<1>7. \A i \in 0..n : R[i] \in Seq(Block)
  BY <1>1, RestType
<1> HIDE DEF m
<1>8. h \in Block
  <2>1. r.idx \in Seq(Block)
    BY <1>2, <1>4, <1>7
  <2> QED BY <2>1
<1>9. \A i \in 0..(n - 1) : e[Pos(s, i)] = d[Pos(s, i)]
  <2> TAKE i \in 0..(n - 1)
  <2>1. i \in 0..LogSize
    BY <1>1, SizesAssumption
  <2>2. Pos(s, i) \in 1..LogSize
    BY <1>1, <2>1, PosIn
  <2>3. Pos(s, i) \notin Block /\ Pos(s, i) \in Addr
    BY <2>2, AddrIs
  <2>4. \A a \in Addr \ Block : e[a] = d[a]
    BY <1>8
  <2> HIDE DEF R, t, h
  <2> QED BY <2>3, <2>4
<1>10. Readable(e, s, n) /\ Rest(e, s, n) = R
  BY <1>9, ReadableSame
<1> HIDE DEF R, t, h
<1>11. R[m + 1] = Tail(R[m])
  BY <1>2, <1>4, <1>6 DEF RestOf
<1>12. Pos(r.pos, 1) = Pos(s, m + 1)
  BY <1>1, <1>2, <1>4, PosSum
<1>13. InPlace(e, s, n, m + 1)
  <2> SUFFICES ASSUME NEW i \in 0..m, R[i] # <<>>,
                      \A j \in (i + 1)..m : R[j] # <<>> => Head(R[j]) # Head(R[i])
               PROVE  e[Head(R[i])].val = e[Pos(s, i)].val
    BY <1>4, <1>10 DEF InPlace
  <2>1. e[Pos(s, i)] = d[Pos(s, i)]
    <3>1. i \in 0..(n - 1)
      BY <1>1, <1>4, SizesAssumption
    <3> QED BY <1>9, <3>1
  <2>2. CASE i = m
    BY <1>2, <2>1, <2>2 DEF h
  <2>3. CASE i # m
    <3>1. i \in 0..(m - 1) /\ m \in (i + 1)..m
      BY <1>4, <2>3
    <3>2. Head(R[i]) # h
      BY <1>2, <3>1 DEF h
    <3>3. e[Head(R[i])] = d[Head(R[i])]
      <4>0. i \in 0..n
        BY <1>1, <1>4, SizesAssumption
      <4>1. R[i] \in Seq(Block)
        BY <1>7, <4>0
      <4>2. Head(R[i]) \in Block
        BY <4>1
      <4>3. Head(R[i]) \in Addr
        BY <4>2, AddrIs
      <4> QED BY <3>2, <4>3 DEF h
    <3>4. \A j \in (i + 1)..(m - 1) : R[j] # <<>> => Head(R[j]) # Head(R[i])
      BY <1>4
    <3>5. d[Head(R[i])].val = d[Pos(s, i)].val
      BY <1>2, <3>1, <3>4 DEF InPlace, R
    <3> QED BY <2>1, <3>3, <3>5
  <2> QED BY <2>2, <2>3
<1>14. t.left \in 0..n /\ n - t.left = m + 1 /\ t.pos = Pos(s, m + 1) /\ t.idx = R[m + 1]
  BY <1>2, <1>4, <1>5, <1>11, <1>12
<1>15. ReplayIs(e, s, n, t)
  BY <1>10, <1>13, <1>14 DEF ReplayIs
<1> QED BY <1>4, <1>8, <1>10, <1>15 DEF t, R, m, h

\* What the steps that are not part of a running volume do.
OtherStep ==
  \/ unmounted \/ Crash \/ CrashInLogWrite \/ afs_mount \/ afs_replay_log \/ replay_done
  \/ UNCHANGED vars

\* Every other step stops, mounts or replays.
LEMMA StepKinds ==
  ASSUME [Next]_vars
  PROVE  InMemoryStep \/ OtherStep
BY DEF Next, CallStep, Mount, InMemoryStep, OtherStep

\* A volume that stops leaves a log that can be read.
LEMMA StopReadable ==
  ASSUME Home, unmounted \/ Crash \/ CrashInLogWrite
  PROVE  /\ Readable(disk', superblock.start, superblock.valid)
         /\ \A q \in 0..(superblock.valid - 1) :
              disk'[Pos(superblock.start, q)] = disk[Pos(superblock.start, q)]
         /\ \A b \in Block : disk'[b] = disk[b]
<1> DEFINE s == superblock.start
           n == superblock.valid
<1>1. Readable(disk, s, n)
  BY HomeReadable
<1>2. CASE unmounted \/ Crash
  <2>1. disk' = disk
    BY <1>2 DEF unmounted, Crash
  <2> QED BY <1>1, <2>1
<1>3. CASE CrashInLogWrite
  <2>1. HasOpen
    BY <1>3 DEF CrashInLogWrite
  <2>2. PICK done \in SUBSET DOMAIN LogWrites(Current) :
           disk' = Overwritten([a \in done |-> LogWrites(Current)[a]])
    BY <1>3 DEF CrashInLogWrite
  <2>3. \A a \in Addr : a \notin DOMAIN LogWrites(Current) => disk'[a] = disk[a]
    BY <2>2 DEF Overwritten
  <2>4. ASSUME NEW q \in 0..(n - 1)
        PROVE  disk'[Pos(s, q)] = disk[Pos(s, q)]
    <3>1. Pos(s, q) \notin DOMAIN LogWrites(Current)
      BY <2>1, OutsideRange
    <3>2. Pos(s, q) \in 1..LogSize
      BY LogIsOn
    <3>3. Pos(s, q) \in Addr
      BY <3>2, AddrIs
    <3> QED BY <2>3, <3>1, <3>3
  <2>5. ASSUME NEW b \in Block
        PROVE  disk'[b] = disk[b]
    <3>1. Len(trans) \in 1..Len(trans) /\ Current = trans[Len(trans)]
      BY <2>1, ListIs DEF Home, Inv, HasOpen
    <3>2. DOMAIN LogWrites(Current) \subseteq 1..LogSize
      BY <3>1, LogWritesIs DEF Home
    <3>3. b \in Addr /\ b \notin 1..LogSize
      BY AddrIs, SizesIs
    <3> QED BY <2>3, <3>2, <3>3
  <2> HIDE DEF s, n
  <2>6. \A q \in 0..(n - 1) : disk[Pos(s, q)] = disk'[Pos(s, q)]
    BY <2>4
  <2>7. Readable(disk', s, n)
    BY <1>1, <2>6, ReadableSame
  <2> QED BY <2>4, <2>5, <2>7 DEF s, n
<1> QED BY <1>2, <1>3

\* Copying a block of the log to its place keeps the log readable, and the
\* replay on its way.
LEMMA ReplayWrites ==
  ASSUME Inv, nLoggStart = 1, afs_replay_log, replay.idx # <<>>,
         Readable(disk, superblock.start, superblock.valid),
         ReplayIs(disk, superblock.start, superblock.valid, replay)
  PROVE  /\ Readable(disk', superblock.start, superblock.valid)
         /\ ReplayIs(disk', superblock.start, superblock.valid, replay')
         /\ \A q \in 0..(superblock.valid - 1) :
              disk'[Pos(superblock.start, q)] = disk[Pos(superblock.start, q)]
         /\ \A b \in Block : Copied(disk, superblock.start, superblock.valid, b) = {} => disk'[b] = disk[b]
<1> DEFINE s == superblock.start
           n == superblock.valid
<1>1. /\ replay' = [pos |-> Pos(replay.pos, 1), left |-> replay.left - 1, idx |-> Tail(replay.idx)]
      /\ disk' = [disk EXCEPT ![Head(replay.idx)] = disk[replay.pos]]
  BY PosHere DEF afs_replay_log
<1>2. disk \in [Addr -> [val : Int, idx : Seq(Block)]] /\ replay.idx \in Seq(Block) /\ n \in Nat
  BY DEF Inv, TypeOK
<1>3. Head(replay.idx) \in Block
  BY <1>2
<1>4. \A b \in Block : b \in Addr
  BY AddrIs
<1>5. disk'[Head(replay.idx)] = disk[replay.pos]
      /\ \A a \in Addr : a # Head(replay.idx) => disk'[a] = disk[a]
  BY <1>1, <1>2, <1>3, <1>4
<1>6. \A q \in 0..(n - 1) : disk[Pos(s, q)].idx \in Seq(Block) /\ disk'[Pos(s, q)] = disk[Pos(s, q)]
  <2> TAKE q \in 0..(n - 1)
  <2>1. s \in 1..LogSize /\ q \in 0..LogSize
    BY SizesAssumption DEF Readable
  <2>2. Pos(s, q) \in 1..LogSize
    BY <2>1, PosIn
  <2>3. Pos(s, q) \in Addr /\ Pos(s, q) \notin Block
    BY <2>2, AddrIs
  <2> QED BY <1>2, <1>3, <1>5, <2>3
<1> DEFINE e == disk'
           r == replay
<1>7. /\ Readable(disk, s, n) /\ ReplayIs(disk, s, n, r) /\ r.idx # <<>>
      /\ \A a \in Addr : a # Head(r.idx) => e[a] = disk[a]
      /\ e[Head(r.idx)] = disk[r.pos]
      /\ \A q \in 0..(n - 1) : disk[Pos(s, q)].idx \in Seq(Block)
  BY <1>5, <1>6
<1> HIDE DEF s, n, e, r
<1>8. /\ Readable(e, s, n) /\ n - r.left \in 0..(n - 1)
      /\ ReplayIs(e, s, n, [pos |-> Pos(r.pos, 1), left |-> r.left - 1, idx |-> Tail(r.idx)])
  BY <1>7, ReplayCopy
<1>9. n - r.left \in Copied(disk, s, n, Head(r.idx))
  BY <1>7, <1>8 DEF ReplayIs, Copied
<1>10. \A b \in Block : Copied(disk, s, n, b) = {} => e[b] = disk[b]
  BY <1>4, <1>7, <1>9
<1> QED BY <1>1, <1>6, <1>8, <1>10 DEF s, n, e, r

\* Every step leaves a log that a mount can read, and a replay reads on.
LEMMA FollowsNext ==
  ASSUME Inv, nLoggStart = 1, nLoggStart' = 1, [Next]_vars, ReplayFollows
  PROVE  ReplayFollows'
<1>1. TypeOK /\ TypeOK' /\ Inv'
  BY NextInv DEF Inv
<1>2. ~InMemoryState =>
        /\ Readable(disk, superblock.start, superblock.valid)
        /\ mode = "replay" => ReplayIs(disk, superblock.start, superblock.valid, replay)
  BY <1>1, ReplayFollowsIs
<1>3. (TypeOK => (ReplayFollows <=> (~InMemoryState =>
               /\ Readable(disk, superblock.start, superblock.valid)
               /\ mode = "replay" => ReplayIs(disk, superblock.start, superblock.valid, replay))))'
  BY ReplayFollowsIs, PTL
<1> SUFFICES ASSUME ~InMemoryState'
             PROVE  /\ Readable(disk', superblock'.start, superblock'.valid)
                    /\ mode' = "replay" => ReplayIs(disk', superblock'.start, superblock'.valid, replay')
  BY <1>1, <1>3
<1>4. CASE InMemoryStep
  BY <1>4, StaysInMemory
<1>5. CASE (unmounted \/ Crash \/ CrashInLogWrite) /\ InMemoryState
  <2>1. mode' = "down" /\ superblock' = superblock
    BY <1>5 DEF unmounted, Crash, CrashInLogWrite, Gone
  <2>2. Readable(disk', superblock.start, superblock.valid)
    BY <1>5, StopReadable DEF Home
  <2> QED BY <2>1, <2>2
<1>6. CASE (unmounted \/ Crash \/ CrashInLogWrite) /\ ~InMemoryState
  <2>1. ~Step("unmount") /\ ~Step("log")
    BY <1>6 DEF Step, InMemoryState
  <2>2. mode' = "down" /\ superblock' = superblock /\ disk' = disk
    BY <1>6, <2>1 DEF unmounted, Crash, CrashInLogWrite, Gone
  <2> QED BY <1>2, <1>6, <2>2
<1>7. CASE afs_mount
  <2> DEFINE s == superblock.start
             n == superblock.valid
  <2>1. /\ mode = "down" /\ disk' = disk /\ superblock' = superblock
        /\ replay' = [pos |-> s, left |-> n, idx |-> <<>>]
    BY <1>7 DEF afs_mount
  <2>2. Readable(disk, s, n)
    BY <1>2, <2>1 DEF InMemoryState
  <2>3. s \in 1..LogSize /\ n \in 0..LogSize /\ n \in Nat
    BY <2>2, SizesAssumption DEF Readable
  <2>4. replay'.pos = s /\ replay'.left = n /\ replay'.idx = <<>>
    BY <2>1
  <2>5. Pos(s, 0) = s
    BY <2>3, PosZero
  <2>6. Rest(disk, s, n)[0] = <<>>
    BY <2>3, RestIs DEF RestOf
  <2> HIDE DEF s, n
  <2>7. InPlace(disk, s, n, 0)
    BY DEF InPlace
  <2>8. replay'.left \in 0..n /\ n - replay'.left = 0
    BY <2>3, <2>4
  <2>9. ReplayIs(disk, s, n, replay')
    BY <2>4, <2>5, <2>6, <2>7, <2>8 DEF ReplayIs
  <2> QED BY <2>1, <2>2, <2>9 DEF s, n
<1>8. CASE afs_replay_log
  <2> DEFINE s == superblock.start
             n == superblock.valid
  <2>1. mode = "replay" /\ superblock' = superblock
    BY <1>8 DEF afs_replay_log
  <2>2. Readable(disk, s, n) /\ ReplayIs(disk, s, n, replay)
    BY <1>2, <2>1 DEF InMemoryState
  <2>3. LogPos(replay.pos, nLoggStart, nLoggEnd, 1) = Pos(replay.pos, 1)
    BY PosHere
  <2>4. CASE /\ replay.idx = <<>> /\ replay.left > 0
             /\ replay' = [pos  |-> LogPos(replay.pos, nLoggStart, nLoggEnd, 1),
                           left |-> replay.left - 1,
                           idx  |-> disk[replay.pos].idx]
             /\ UNCHANGED disk
    <3> HIDE DEF s, n
    <3>1. replay' = [pos |-> Pos(replay.pos, 1), left |-> replay.left - 1, idx |-> disk[replay.pos].idx]
      BY <2>3, <2>4
    <3>2. ReplayIs(disk, s, n, replay')
      BY <2>2, <2>4, <3>1, ReplayIndex
    <3> QED BY <2>1, <2>2, <2>4, <3>2 DEF s, n
  <2>5. CASE replay.idx # <<>>
    BY <1>8, <2>1, <2>2, <2>5, ReplayWrites
  <2> QED BY <1>8, <2>4, <2>5 DEF afs_replay_log
<1>9. CASE replay_done
  BY <1>9 DEF replay_done, InMemoryState
<1>10. CASE UNCHANGED vars
  <2>1. UNCHANGED <<disk, superblock, mode, replay>>
    BY <1>10 DEF vars
  <2> QED BY <1>2, <2>1 DEF InMemoryState
<1> QED BY <1>4, <1>5, <1>6, <1>7, <1>8, <1>9, <1>10, StepKinds DEF OtherStep

\* In every state in which the volume is not in memory, what a mount finds in
\* the valid range is index blocks, each followed by the blocks it names, and
\* a replay (afs_replay_log) has every block it has read in its place.
THEOREM ReplayFollowsLog == Spec /\ []LogStaysInItsArea => []ReplayFollows
<1>1. Init => ReplayFollows
  BY DEF Init, ReplayFollows, InMemoryState
<1>2. Inv /\ ReplayFollows /\ [Next]_vars /\ LogStaysInItsArea /\ LogStaysInItsArea' => ReplayFollows'
  BY FollowsNext DEF LogStaysInItsArea
<1> QED BY <1>1, <1>2, JournalInvariant, PTL DEF Spec

\* afs_replay_log never takes for an index block what was not written as one:
\* the blocks of a buffer are followed by the index block of the next.
THEOREM ReplayFindsIndex == Spec /\ []LogStaysInItsArea => []ReplayReadsIndex
<1>1. Inv /\ ReplayFollows => ReplayReadsIndex
  <2> SUFFICES ASSUME Inv, ReplayFollows, mode = "replay", replay.idx = <<>>, replay.left > 0
               PROVE  disk[replay.pos].idx # <<>>
    BY DEF ReplayReadsIndex
  <2> DEFINE s == superblock.start
             n == superblock.valid
             m == n - replay.left
  <2>1. Readable(disk, s, n) /\ ReplayIs(disk, s, n, replay)
    BY ReplayFollowsIs DEF Inv, InMemoryState
  <2>2. n \in 0..LogSize /\ \A q \in 0..(n - 1) : Rest(disk, s, n)[q] = <<>> => disk[Pos(s, q)].idx # <<>>
    BY <2>1 DEF Readable
  <2>3. replay.left \in 0..n /\ replay.pos = Pos(s, m) /\ replay.idx = Rest(disk, s, n)[m]
    BY <2>1 DEF ReplayIs
  <2>4. m \in 0..(n - 1)
    BY <2>2, <2>3, SizesAssumption
  <2> HIDE DEF s, n, m
  <2> QED BY <2>2, <2>3, <2>4
<1> QED BY <1>1, JournalInvariant, ReplayFollowsLog, PTL
-----------------------------------------------------------------------------
(* The newest copy of a block in the first n transactions of a list T, or  *)
(* the block as it is on a disk d.                                         *)

HasBlock(t, b) == \E j \in 1..Len(t.blocks) : t.blocks[j].blk = b

Held(T, n, b, v) ==
  \E i \in 1..n :
    /\ \E j \in 1..Len(T[i].blocks) : T[i].blocks[j].blk = b /\ T[i].blocks[j].val = v
    /\ \A k \in (i + 1)..n : ~HasBlock(T[k], b)

Newer(T, n, d, b, v) ==
  Held(T, n, b, v) \/ (v = d[b].val /\ \A i \in 1..n : ~HasBlock(T[i], b))

\* Every block has a newest copy.
LEMMA NewerExists ==
  ASSUME NEW T, NEW n \in Nat, NEW d, NEW b
  PROVE  \E v : Newer(T, n, d, b, v)
<1>1. CASE \A i \in 1..n : ~HasBlock(T[i], b)
  BY <1>1 DEF Newer
<1>2. CASE \E i \in 1..n : HasBlock(T[i], b)
  <2> DEFINE S == {i \in 1..n : HasBlock(T[i], b)}
  <2>1. S \in SUBSET (0..((n + 1) - 1)) /\ S # {} /\ n + 1 \in Nat
    BY <1>2
  <2>2. PICK i \in S : \A k \in S : k <= i
    <3> HIDE DEF S
    <3> QED BY <2>1, Greatest
  <2>3. \A k \in (i + 1)..n : ~HasBlock(T[k], b)
    BY <2>2
  <2>4. PICK j \in 1..Len(T[i].blocks) : T[i].blocks[j].blk = b
    BY <2>2 DEF HasBlock
  <2>5. Held(T, n, b, T[i].blocks[j].val)
    BY <2>2, <2>3, <2>4 DEF Held
  <2> QED BY <2>5 DEF Newer
<1> QED BY <1>1, <1>2

\* The committed content is the newest copy in all transactions ...
LEMMA NewerCommitted ==
  Inv /\ InMemoryState =>
    \A b \in Block : \A v : Newer(trans, Len(trans), disk, b, v) => Committed[b] = v
<1> SUFFICES ASSUME Inv, InMemoryState, NEW b \in Block, NEW v, Newer(trans, Len(trans), disk, b, v)
             PROVE  Committed[b] = v
  OBVIOUS
<1>1. \A i : Holds(i, b) <=> HasBlock(trans[i], b)
  BY DEF Holds, HasBlock
<1>2. CASE Held(trans, Len(trans), b, v)
  <2>1. PICK i \in 1..Len(trans) :
          /\ \E j \in 1..Len(trans[i].blocks) : trans[i].blocks[j].blk = b /\ trans[i].blocks[j].val = v
          /\ \A k \in (i + 1)..Len(trans) : ~HasBlock(trans[k], b)
    BY <1>2 DEF Held
  <2>2. PICK j \in 1..Len(trans[i].blocks) : trans[i].blocks[j].blk = b /\ trans[i].blocks[j].val = v
    BY <2>1
  <2>3. Newest(i, b)
    BY <1>1, <2>1 DEF Newest
  <2> QED BY <2>2, <2>3, CommittedCopy
<1>3. CASE v = disk[b].val /\ \A i \in 1..Len(trans) : ~HasBlock(trans[i], b)
  BY <1>1, <1>3, CommittedCopy
<1> QED BY <1>2, <1>3 DEF Newer

\* ... and the durable one is the newest copy in those that are logged.
LEMMA NewerRecovered ==
  Home => \A b \in Block : \A v : Newer(trans, LoggedLen, disk, b, v) => Recovered[b] = v
<1> SUFFICES ASSUME Home, NEW b \in Block, NEW v, Newer(trans, LoggedLen, disk, b, v)
             PROVE  Recovered[b] = v
  OBVIOUS
<1>1. \A i : Holds(i, b) <=> HasBlock(trans[i], b)
  BY DEF Holds, HasBlock
<1>2. CASE Held(trans, LoggedLen, b, v)
  <2>1. PICK i \in 1..LoggedLen :
          /\ \E j \in 1..Len(trans[i].blocks) : trans[i].blocks[j].blk = b /\ trans[i].blocks[j].val = v
          /\ \A k \in (i + 1)..LoggedLen : ~HasBlock(trans[k], b)
    BY <1>2 DEF Held
  <2>2. PICK j \in 1..Len(trans[i].blocks) : trans[i].blocks[j].blk = b /\ trans[i].blocks[j].val = v
    BY <2>1
  <2>3. \A k \in (i + 1)..LoggedLen : ~Holds(k, b)
    BY <1>1, <2>1
  <2> QED BY <2>2, <2>3, RecoveredCopy
<1>3. CASE v = disk[b].val /\ \A i \in 1..LoggedLen : ~HasBlock(trans[i], b)
  BY <1>1, <1>3, RecoveredCopy
<1> QED BY <1>2, <1>3 DEF Newer

\* The same copies, and the same disk where there is none.
LEMMA NewerSame ==
  ASSUME NEW T, NEW U, NEW n \in Nat, NEW d, NEW e, NEW b, NEW v, Newer(T, n, d, b, v),
         \A i \in 1..n : U[i].blocks = T[i].blocks,
         (\A i \in 1..n : ~HasBlock(T[i], b)) => e[b].val = d[b].val
  PROVE  Newer(U, n, e, b, v)
<1>1. \A i \in 1..n : HasBlock(U[i], b) <=> HasBlock(T[i], b)
  BY DEF HasBlock
<1>2. CASE Held(T, n, b, v)
  <2>1. PICK i \in 1..n :
          /\ \E j \in 1..Len(T[i].blocks) : T[i].blocks[j].blk = b /\ T[i].blocks[j].val = v
          /\ \A k \in (i + 1)..n : ~HasBlock(T[k], b)
    BY <1>2 DEF Held
  <2>2. \E j \in 1..Len(U[i].blocks) : U[i].blocks[j].blk = b /\ U[i].blocks[j].val = v
    BY <2>1
  <2>3. \A k \in (i + 1)..n : ~HasBlock(U[k], b)
    BY <1>1, <2>1
  <2>4. Held(U, n, b, v)
    BY <2>2, <2>3 DEF Held
  <2> QED BY <2>4 DEF Newer
<1>3. CASE v = d[b].val /\ \A i \in 1..n : ~HasBlock(T[i], b)
  BY <1>1, <1>3 DEF Newer
<1> QED BY <1>2, <1>3 DEF Newer

\* A transaction without blocks is added.
LEMMA NewerMore ==
  ASSUME NEW T, NEW U, NEW n \in Nat, NEW d, NEW b, NEW v, Newer(T, n, d, b, v),
         \A i \in 1..n : U[i].blocks = T[i].blocks, U[n + 1].blocks = <<>>
  PROVE  Newer(U, n + 1, d, b, v)
<1>1. Newer(U, n, d, b, v)
  BY NewerSame
<1>2. ~HasBlock(U[n + 1], b)
  BY DEF HasBlock
<1>3. CASE Held(U, n, b, v)
  <2>1. PICK i \in 1..n :
          /\ \E j \in 1..Len(U[i].blocks) : U[i].blocks[j].blk = b /\ U[i].blocks[j].val = v
          /\ \A k \in (i + 1)..n : ~HasBlock(U[k], b)
    BY <1>3 DEF Held
  <2>2. i \in 1..(n + 1) /\ \A k \in (i + 1)..(n + 1) : ~HasBlock(U[k], b)
    BY <1>2, <2>1
  <2>3. Held(U, n + 1, b, v)
    BY <2>1, <2>2 DEF Held
  <2> QED BY <2>3 DEF Newer
<1>4. CASE v = d[b].val /\ \A i \in 1..n : ~HasBlock(U[i], b)
  BY <1>2, <1>4 DEF Newer
<1> QED BY <1>1, <1>3, <1>4 DEF Newer

\* The first transaction goes, with its blocks on disk.
LEMMA NewerTail ==
  ASSUME NEW T, NEW U, NEW n \in Nat, NEW d, NEW b, NEW v, Newer(T, n + 1, d, b, v),
         \A i \in 1..n : U[i] = T[i + 1],
         \A j \in 1..Len(T[1].blocks) : T[1].blocks[j].blk = b => d[b].val = T[1].blocks[j].val
  PROVE  Newer(U, n, d, b, v)
<1>1. CASE Held(T, n + 1, b, v)
  <2>1. PICK i \in 1..(n + 1) :
          /\ \E j \in 1..Len(T[i].blocks) : T[i].blocks[j].blk = b /\ T[i].blocks[j].val = v
          /\ \A k \in (i + 1)..(n + 1) : ~HasBlock(T[k], b)
    BY <1>1 DEF Held
  <2>2. CASE i = 1
    <3>1. d[b].val = v
      BY <2>1, <2>2
    <3>2. \A k \in 1..n : k + 1 \in (i + 1)..(n + 1)
      BY <2>2
    <3>3. \A k \in 1..n : ~HasBlock(U[k], b)
      BY <2>1, <3>2
    <3> QED BY <3>1, <3>3 DEF Newer
  <2>3. CASE i # 1
    <3> DEFINE h == i - 1
    <3>1. h \in 1..n /\ h + 1 = i /\ \A k \in (h + 1)..n : k \in 1..n /\ k + 1 \in (i + 1)..(n + 1)
      BY <2>3
    <3> HIDE DEF h
    <3>2. U[h] = T[i] /\ \A k \in (h + 1)..n : ~HasBlock(U[k], b)
      BY <2>1, <3>1
    <3>3. Held(U, n, b, v)
      BY <2>1, <3>1, <3>2 DEF Held
    <3> QED BY <3>3 DEF Newer
  <2> QED BY <2>2, <2>3
<1>2. CASE v = d[b].val /\ \A i \in 1..(n + 1) : ~HasBlock(T[i], b)
  <2>1. \A i \in 1..n : i + 1 \in 1..(n + 1)
    OBVIOUS
  <2> QED BY <1>2, <2>1 DEF Newer
<1> QED BY <1>1, <1>2 DEF Newer

\* A step that keeps the copies of the blocks keeps what is committed and what
\* a crash would leave.
SameBlocks == Len(trans') = Len(trans) /\ \A i \in 1..Len(trans) : trans'[i].blocks = trans[i].blocks
SameStore == \A b \in Block : Committed'[b] = Committed[b] /\ Recovered'[b] = Recovered[b]

\* The same after a step.
LEMMA NewerNext ==
  ASSUME Inv', nLoggStart' = 1, InMemoryState'
  PROVE  /\ \A b \in Block : \A v : Newer(trans', Len(trans'), disk', b, v) => Committed'[b] = v
         /\ \A b \in Block : \A v : Newer(trans', LoggedLen', disk', b, v) => Recovered'[b] = v
<1>1. (Inv /\ InMemoryState =>
    \A b \in Block : \A v : Newer(trans, Len(trans), disk, b, v) => Committed[b] = v)'
  BY NewerCommitted, PTL
<1>2. (Home => \A b \in Block : \A v : Newer(trans, LoggedLen, disk, b, v) => Recovered[b] = v)'
  BY NewerRecovered, PTL
<1>3. Home'
  BY DEF Home
<1> QED BY <1>1, <1>2, <1>3

\* A step that keeps the blocks of the transactions, and writes only blocks
\* that a logged one holds, changes neither.
LEMMA KeptStore ==
  ASSUME Home, Inv', nLoggStart' = 1, InMemoryState', SameBlocks, LoggedLen' = LoggedLen,
         \A b \in Block : (\A i \in 1..LoggedLen : ~HasBlock(trans[i], b)) => disk'[b].val = disk[b].val
  PROVE  SameStore
<1> SUFFICES ASSUME NEW b \in Block
             PROVE  Committed'[b] = Committed[b] /\ Recovered'[b] = Recovered[b]
  BY DEF SameStore
<1>1. LoggedLen \in 0..Len(trans) /\ Len(trans) \in Nat /\ LoggedLen \in Nat
  BY LogIsOn
<1>2. Len(trans') = Len(trans) /\ \A i \in 1..Len(trans) : trans'[i].blocks = trans[i].blocks
  BY DEF SameBlocks
<1>3. \A i \in 1..LoggedLen : i \in 1..Len(trans)
  BY <1>1
<1>4. PICK v : Newer(trans, Len(trans), disk, b, v)
  BY <1>1, NewerExists
<1>5. PICK w : Newer(trans, LoggedLen, disk, b, w)
  BY <1>1, NewerExists
<1>6. Committed[b] = v /\ Recovered[b] = w
  BY <1>4, <1>5, NewerCommitted, NewerRecovered DEF Home
<1>7. Newer(trans', Len(trans'), disk', b, v)
  <2>1. (\A i \in 1..Len(trans) : ~HasBlock(trans[i], b)) => disk'[b].val = disk[b].val
    BY <1>3
  <2>2. Newer(trans', Len(trans), disk', b, v)
    BY <1>1, <1>2, <1>4, <2>1, NewerSame
  <2> QED BY <1>2, <2>2
<1>8. Newer(trans', LoggedLen', disk', b, w)
  <2>1. Newer(trans', LoggedLen, disk', b, w)
    BY <1>1, <1>2, <1>3, <1>5, NewerSame
  <2> QED BY <2>1
<1> QED BY <1>6, <1>7, <1>8, NewerNext

\* What a flush writes is the copy that the oldest transaction holds.
FlushStep ==
  flush_device_cache \/ afs_force_flush_transaction \/ (\E b \in Block : cache_flusher(b))

\* A flush is such a step.
LEMMA FlushKeeps ==
  ASSUME Home, FlushStep
  PROVE  /\ SameBlocks /\ \A i \in 1..Len(trans) : trans'[i].logged = trans[i].logged
         /\ \A b \in Block : (\A i \in 1..LoggedLen : ~HasBlock(trans[i], b)) => disk'[b].val = disk[b].val
         /\ hash' = hash
<1>1. PICK S \in SUBSET Dirty : flush_block_list(S)
  <2>1. CASE flush_device_cache
    BY <2>1 DEF flush_device_cache
  <2>2. CASE afs_force_flush_transaction
    BY <2>2 DEF afs_force_flush_transaction
  <2>3. CASE \E b \in Block : cache_flusher(b)
    BY <2>3 DEF cache_flusher
  <2> QED BY <2>1, <2>2, <2>3 DEF FlushStep
<1>2. /\ disk' = [a \in Addr |-> IF a \in S THEN Data(cache[a].val) ELSE disk[a]]
      /\ trans' = [i \in 1..Len(trans) |-> [trans[i] EXCEPT !.pending = PendingAfter(trans[i], S)]]
  BY <1>1 DEF flush_block_list
<1>3. trans \in Seq(Transaction) /\ Len(trans) \in Nat /\ Inv
  BY ListIs DEF Inv, Home
<1>4. Len(trans') = Len(trans)
  BY <1>2, <1>3
<1>5. ASSUME NEW i \in 1..Len(trans)
      PROVE  trans'[i].blocks = trans[i].blocks /\ trans'[i].logged = trans[i].logged
  <2>1. trans[i] \in Transaction
    BY <1>3, TransIs DEF Inv
  <2>2. trans'[i] = [trans[i] EXCEPT !.pending = PendingAfter(trans[i], S)]
    BY <1>2
  <2> QED BY <2>1, <2>2 DEF Transaction
<1>6. ASSUME NEW b \in Block, \A i \in 1..LoggedLen : ~HasBlock(trans[i], b)
      PROVE  disk'[b].val = disk[b].val
  <2>1. b \notin S
    <3> SUFFICES ASSUME b \in S PROVE FALSE
      OBVIOUS
    <3>1. cache[b].dirty
      BY <1>1 DEF Dirty
    <3>2. trans # <<>> /\ \E p \in 1..Handed : BufferOrder(Oldest.blocks)[p].blk = b
      BY <1>3, <3>1 DEF Inv, CacheFollows
    <3>3. PICK p \in 1..Handed : BufferOrder(Oldest.blocks)[p].blk = b
      BY <3>2
    <3>4. /\ Oldest = trans[1] /\ 1 \in 1..Len(trans) /\ Oldest.blocks \in Copies
          /\ p \in 1..Len(Oldest.blocks)
      BY <1>3, <3>2, <3>3, HandedIs
    <3>5. PICK x \in 1..Len(Oldest.blocks) : BufferOrder(Oldest.blocks)[p] = Oldest.blocks[x]
      BY <3>4, OrderIn
    <3>6. HasBlock(trans[1], b)
      BY <3>3, <3>4, <3>5 DEF HasBlock
    <3>7. trans[1].logged
      <4>1. CASE At("count")
        BY <1>3, <3>4, <4>1 DEF Inv, StepsReady, NeedsDisk
      <4>2. CASE ~At("count")
        <5>1. Handed = Oldest.written /\ Oldest.written \in Nat
          BY <1>3, <3>2, <3>4, <4>2, TransIs DEF Handed, Inv
        <5>2. trans[1].written > 0
          BY <3>3, <3>4, <5>1
        <5> QED BY <1>3, <3>4, <5>2 DEF Inv, ListInOrder
      <4> QED BY <4>1, <4>2
    <3>8. 1 <= LoggedLen /\ LoggedLen \in Nat
      BY <3>4, <3>7, LogIsOn
    <3> QED BY <1>6, <3>6, <3>8
  <2>2. b \in Addr
    BY AddrIs
  <2> QED BY <1>2, <2>1, <2>2
<1>7. hash' = hash
  BY DEF FlushStep, flush_device_cache, afs_force_flush_transaction, cache_flusher
<1> QED BY <1>4, <1>5, <1>6, <1>7 DEF SameBlocks

\* The number of logged transactions depends on the flags only.
LEMMA LoggedSame ==
  ASSUME Inv, Inv', SameBlocks, \A i \in 1..Len(trans) : trans'[i].logged = trans[i].logged
  PROVE  LoggedLen' = LoggedLen
<1>1. /\ HasOpen <=> Len(trans) > 0 /\ ~trans[Len(trans)].logged
      /\ Len(trans) \in Nat
  BY ListIs DEF Inv
<1>2. trans' \in Seq(Transaction)
  BY DEF Inv, TypeOK
<1>3. HasOpen' <=> Len(trans') > 0 /\ ~trans'[Len(trans')].logged
  <2>1. trans' # <<>> <=> Len(trans') > 0
    BY <1>2, EmptyIs
  <2> QED BY <1>2, <2>1 DEF HasOpen, Current, Last
<1>4. Len(trans') = Len(trans)
  BY DEF SameBlocks
<1>5. HasOpen' <=> HasOpen
  <2>1. Len(trans) > 0 => Len(trans) \in 1..Len(trans)
    BY <1>1
  <2> QED BY <1>1, <1>3, <1>4, <2>1
<1> QED BY <1>4, <1>5 DEF LoggedLen
-----------------------------------------------------------------------------
(* A sync.                                                                 *)

\* When no log blocks are pending the log is empty and so are the
\* transactions.
LEMMA NothingPending ==
  ASSUME Home, nPendingLog = 0
  PROVE  superblock.valid = 0 /\ \A i \in 1..Len(trans) : trans[i].blocks = <<>>
<1>1. Inv /\ trans \in Seq(Transaction) /\ Len(trans) \in Nat
  BY ListIs DEF Home, Inv
<1>2. LogSums(trans)[Len(trans) + 1] = 0
  BY <1>1 DEF Inv, CountsAgree
<1>3. ASSUME NEW i \in 1..(Len(trans) + 1)
      PROVE  LogSums(trans)[i] = 0
  <2>1. LogSums(trans)[i] <= LogSums(trans)[Len(trans) + 1] /\ LogSums(trans)[i] \in Nat
    <3>1. Len(trans) + 1 \in 1..(Len(trans) + 1)
      BY <1>1
    <3> QED BY <1>1, <3>1, SumsGrow, SumsStep
  <2> QED BY <1>2, <2>1
<1>4. superblock.valid = 0
  <2>1. superblock.valid = LogSums(trans)[LoggedLen + 1] /\ LoggedLen \in 0..Len(trans)
    BY LogIsOn
  <2>2. LoggedLen + 1 \in 1..(Len(trans) + 1)
    BY <1>1, <2>1
  <2> QED BY <1>3, <2>1, <2>2
<1>5. ASSUME NEW i \in 1..Len(trans)
      PROVE  trans[i].blocks = <<>>
  <2>1. /\ LogSums(trans)[i + 1] = LogSums(trans)[i] + trans[i].count
        /\ Len(LogImage(trans[i].blocks)) = trans[i].count /\ trans[i].count \in Nat
    BY <1>1, SumsIn
  <2>2. i \in 1..(Len(trans) + 1) /\ i + 1 \in 1..(Len(trans) + 1)
    BY <1>1
  <2>3. LogSums(trans)[i] = 0 /\ LogSums(trans)[i + 1] = 0
    BY <1>3, <2>2
  <2>4. trans[i].count = 0
    BY <2>1, <2>3
  <2>5. trans[i].blocks \in Copies /\ Len(trans[i].blocks) \in Nat
    BY <1>1, TransIs DEF Inv
  <2>6. Len(LogImage(trans[i].blocks)) = Len(trans[i].blocks) + Buffers(Len(trans[i].blocks))
    BY <2>5, ImageIs
  <2>7. Buffers(Len(trans[i].blocks)) \in Nat
    BY <2>5, BuffersIs
  <2>8. Len(trans[i].blocks) = 0
    BY <2>1, <2>4, <2>5, <2>6, <2>7
  <2> QED BY <2>5, <2>8, EmptyIs DEF Copies
<1> QED BY <1>4, <1>5

\* A volume that is not in memory holds what a replay would leave.
StoreFacts ==
  /\ Committed = [b \in Block |-> Committed[b]]
  /\ Visible = [b \in Block |-> Visible[b]]
  /\ Recovered = [b \in Block |-> Recovered[b]]
  /\ \A b \in Block : Recovered[b] = Found(disk, superblock.start, superblock.valid, b)
  /\ ~InMemoryState => \A b \in Block : Committed[b] = Recovered[b] /\ Visible[b] = Recovered[b]

\* The three states of the store are functions on the blocks, given by the
\* log when the volume is not in memory.
LEMMA DownIs == StoreFacts
<1>1. Committed = [b \in Block |-> Committed[b]]
  BY DEF Committed
<1>2. Visible = [b \in Block |-> Visible[b]]
  BY DEF Visible
<1>3. Recovered = [b \in Block |-> Recovered[b]]
  BY DEF Recovered
<1>4. ~InMemoryState => \A b \in Block : Committed[b] = Recovered[b] /\ Visible[b] = Recovered[b]
  BY DEF Committed, Visible
<1> QED BY <1>1, <1>2, <1>3, <1>4, RecoveredIs DEF StoreFacts

\* The same after a step.
LEMMA DownNext == StoreFacts'
BY DownIs, PTL

\* An empty range leaves every block as it is.
LEMMA NothingFound ==
  ASSUME NEW d, NEW s, NEW b
  PROVE  Found(d, s, 0, b) = d[b].val
<1>1. Copied(d, s, 0, b) = {}
  BY DEF Copied
<1> QED BY <1>1, FoundIs

\* The last flush of a sync leaves every committed block in its place.
LEMMA SyncNext ==
  ASSUME Inv, nLoggStart = 1, nLoggStart' = 1, Next,
         Step("flush"), Tail(todo) \in {<<>>, <<"unmount">>}, todo' = Tail(todo)
  PROVE  Synced' \/ UNCHANGED vars
<1>1. Home /\ Inv' /\ At("flush") /\ nPendingLog = 0
  <2>1. Inv'
    BY NextInv
  <2> QED BY <2>1 DEF Step, Home, InMemoryState, At, Inv, StepsReady
<1>2. superblock.valid = 0 /\ \A i \in 1..Len(trans) : trans[i].blocks = <<>>
  BY <1>1, NothingPending
<1>3. mode = "mounted" /\ todo # <<>> /\ \A name : Step(name) => name = "flush"
  BY DEF Step
<1>4. CASE FlushStep
  <2>1. SameBlocks
    BY <1>1, <1>4, FlushKeeps
  <2>2. InMemoryState'
    <3>1. InMemoryStep
      <4>1. ~unmounted
        BY <1>3 DEF unmounted
      <4> QED BY <1>4, <4>1 DEF InMemoryStep, CallStep, FlushStep
    <3> QED BY <3>1, StaysInMemory
  <2>3. \A i \in 1..Len(trans') : trans'[i].blocks = <<>>
    BY <1>2, <2>1 DEF SameBlocks
  <2>4. ASSUME NEW b \in Block
        PROVE  Newer(trans', Len(trans'), disk', b, disk'[b].val)
    <3>1. \A i \in 1..Len(trans') : ~HasBlock(trans'[i], b)
      BY <2>3 DEF HasBlock
    <3> QED BY <3>1 DEF Newer
  <2>5. \A b \in Block : Committed'[b] = disk'[b].val
    BY <1>1, <2>2, <2>4, NewerNext
  <2> QED BY <2>5 DEF Synced
<1>5. CASE Crash
  <2>1. mode' = "down" /\ superblock' = superblock
    BY <1>5 DEF Crash, Gone
  <2>2. ~InMemoryState'
    BY <2>1 DEF InMemoryState
  <2>3. \A b \in Block : Committed'[b] = Found(disk', superblock'.start, superblock'.valid, b)
    BY <2>2, DownNext DEF StoreFacts
  <2>4. superblock'.valid = 0
    BY <1>2, <2>1
  <2>5. \A b \in Block : Committed'[b] = disk'[b].val
    BY <2>3, <2>4, NothingFound
  <2> QED BY <2>5 DEF Synced
<1>6. CASE FileSystemCall \/ afs_journal_flusher
  BY <1>3, <1>6 DEF FileSystemCall, afs_begin_transaction, afs_logged_write, afs_end_transaction,
                    afs_checkpoint_journal, afs_wait_for_block_to_leave_log, afs_sync, afs_unmount,
                    afs_journal_flusher, Idle
<1>7. CASE Mount \/ CrashInLogWrite
  BY <1>3, <1>7 DEF Mount, afs_mount, afs_replay_log, replay_done, CrashInLogWrite
<1>8. CASE CallStep /\ ~flush_device_cache
  <2>1. CASE afs_force_flush_transaction \/ write_log_blocks \/ write_log_superblock \/ write_logged_blocks
    BY <1>3, <2>1 DEF afs_force_flush_transaction, write_log_blocks, write_log_superblock, write_logged_blocks
  <2>2. CASE count_written_block \/ written_to_disk \/ afs_discard_flushed_journal_entries
             \/ afs_wait_for_log_space \/ wait_for_block_to_leave_log_round
    BY <1>3, <2>2 DEF count_written_block, written_to_disk, afs_discard_flushed_journal_entries, Discard,
                      afs_wait_for_log_space, wait_for_block_to_leave_log_round
  <2>3. CASE create_next_transaction \/ afs_merge_transactions \/ merge_fails
             \/ afs_discard_transactions \/ transaction_ended \/ unmounted
    BY <1>3, <2>3 DEF create_next_transaction, afs_merge_transactions, merge_fails,
                      afs_discard_transactions, transaction_ended, unmounted
  <2> QED BY <1>8, <2>1, <2>2, <2>3 DEF CallStep
<1> QED BY <1>4, <1>5, <1>6, <1>7, <1>8 DEF Next, FlushStep

\* When afs_sync or afs_unmount has flushed the cache for the last time every
\* committed block is in its place, whatever the cache wrote before and
\* wherever the steps of the call were interrupted.
THEOREM SyncIsComplete == Spec /\ []LogStaysInItsArea => SyncWritesEverything
<1>1. Inv /\ LogStaysInItsArea /\ LogStaysInItsArea' /\ [Next]_vars
      => [Step("flush") /\ Tail(todo) \in {<<>>, <<"unmount">>} /\ todo' = Tail(todo) => Synced']_vars
  BY SyncNext DEF LogStaysInItsArea
<1> QED BY <1>1, JournalInvariant, PTL DEF Spec, SyncWritesEverything
-----------------------------------------------------------------------------
(* The durable store.                                                      *)

Live == Home /\ ReadsLiveBuffer
View == <<Visible, Committed, Recovered>>
NewOr(b) == IF hash[b].new # 0 THEN hash[b].new ELSE Committed[b]

\* A read returns what the open operation wrote, or what is committed.
LEMMA ViewIs == Live => \A b \in Block : Visible[b] = NewOr(b)
<1> HAVE Live
<1> TAKE b \in Block
<1>1. Inv /\ InMemoryState /\ (hash[b].present /\ hash[b].new = 0 => LiveBuffer(hash[b].buffer))
  BY DEF Live, Home, ReadsLiveBuffer
<1>2. ~hash[b].present => hash[b].new = 0
  BY <1>1, NoEntryIs DEF Inv, HashFollows
<1>3. Visible[b] = afs_logged_read(b)
  BY <1>1 DEF Visible
<1>4. Committed[b] = IF hash[b].present /\ LiveBuffer(hash[b].buffer) THEN BufferRead(hash[b].buffer)
                     ELSE CachedRead(b)
  BY <1>1 DEF Committed
<1> QED BY <1>1, <1>2, <1>3, <1>4 DEF afs_logged_read, NewOr

\* The same after a step.
LEMMA ViewNext == (Live => \A b \in Block : Visible[b] = NewOr(b))'
BY ViewIs, PTL

\* Without a change of the store or of new contents nothing is seen to
\* change.
LEMMA ViewSame ==
  ASSUME Live, Live', SameStore, \A b \in Block : hash'[b].new = hash[b].new
  PROVE  UNCHANGED View
<1>1. \A b \in Block : Visible'[b] = Visible[b]
  BY ViewIs, ViewNext DEF SameStore, NewOr
<1> QED BY <1>1, DownIs, DownNext DEF StoreFacts, SameStore, View

\* Steps that leave the transactions and the metadata blocks alone.
LEMMA QuietStore ==
  ASSUME Live, Live', trans' = trans, \A b \in Block : disk'[b] = disk[b]
  PROVE  SameStore
<1>1. SameBlocks /\ Inv /\ Inv'
  BY DEF SameBlocks, Live, Home
<1>2. LoggedLen' = LoggedLen
  BY <1>1, LoggedSame
<1> QED BY <1>1, <1>2, KeptStore DEF Live, Home

Quiet ==
  \/ \E bSubmitChanges \in BOOLEAN : afs_end_transaction(bSubmitChanges)
  \/ afs_checkpoint_journal \/ (\E b \in Block : afs_wait_for_block_to_leave_log(b))
  \/ afs_sync \/ afs_unmount \/ afs_journal_flusher
  \/ write_log_blocks \/ write_logged_blocks \/ afs_wait_for_log_space
  \/ wait_for_block_to_leave_log_round \/ merge_fails \/ transaction_ended

\* Calls that only set their steps, and writes to the log, are not seen in
\* the store.
LEMMA QuietIs ==
  ASSUME Live, Live', Quiet
  PROVE  UNCHANGED View
<1>0. merge_fails => trans' = trans /\ hash' = hash /\ disk' = disk
  BY MergeTakesBack DEF Live, Home
<1>1. /\ trans' = trans /\ hash' = hash
      /\ disk' = disk \/ (HasOpen /\ disk' = Overwritten(LogWrites(Current)))
  BY <1>0 DEF Quiet, afs_end_transaction, afs_checkpoint_journal, afs_wait_for_block_to_leave_log,
         afs_sync, afs_unmount, afs_journal_flusher, Run, write_log_blocks, write_logged_blocks, volume,
         afs_wait_for_log_space, wait_for_block_to_leave_log_round, transaction_ended, InMemory
<1>2. CASE HasOpen /\ disk' = Overwritten(LogWrites(Current))
  <2>1. Len(trans) \in 1..Len(trans) /\ Current = trans[Len(trans)]
    BY <1>2, ListIs DEF Live, Home, Inv, HasOpen
  <2>2. DOMAIN LogWrites(Current) \subseteq 1..LogSize
    BY <2>1, LogWritesIs DEF Live, Home
  <2>3. \A b \in Block : b \in Addr /\ b \notin 1..LogSize
    BY AddrIs, SizesIs
  <2>4. \A b \in Block : disk'[b] = disk[b]
    BY <1>2, <2>2, <2>3 DEF Overwritten
  <2> QED BY <1>1, <2>4, QuietStore, ViewSame
<1> QED BY <1>1, <1>2, QuietStore, ViewSame

\* Nor is a flush of the cache.
LEMMA FlushIs ==
  ASSUME Live, Live', FlushStep
  PROVE  UNCHANGED View
<1>1. Home /\ Inv /\ Inv' /\ nLoggStart' = 1 /\ InMemoryState'
  BY DEF Live, Home
<1>2. /\ SameBlocks /\ \A i \in 1..Len(trans) : trans'[i].logged = trans[i].logged
      /\ \A b \in Block : (\A i \in 1..LoggedLen : ~HasBlock(trans[i], b)) => disk'[b].val = disk[b].val
      /\ hash' = hash
  BY <1>1, FlushKeeps
<1>3. LoggedLen' = LoggedLen
  BY <1>1, <1>2, LoggedSame
<1>4. SameStore
  BY <1>1, <1>2, <1>3, KeptStore
<1> QED BY <1>2, <1>4, ViewSame

\* The counters and the flags of the oldest transaction.
LEMMA OldestIs ==
  ASSUME Live, Live', count_written_block \/ written_to_disk
  PROVE  UNCHANGED View
<1>1. Inv /\ Inv' /\ Home /\ nLoggStart' = 1 /\ InMemoryState' /\ disk' = disk
  BY DEF Live, Home, count_written_block, written_to_disk, InMemory
<1>2. SameBlocks /\ \A i \in 1..Len(trans) : trans'[i].logged = trans[i].logged
  <2>1. trans \in Seq(Transaction)
    BY <1>1, ListIs DEF Inv
  <2>2. trans # <<>> => 1 \in 1..Len(trans) /\ trans[1] \in Transaction
    BY <1>1, ListIs, TransIs DEF Inv
  <2>3. CASE count_written_block
    <3>1. trans # <<>>
      BY <1>1, <2>3 DEF count_written_block, Inv, StepsReady, NeedsDisk, At, Step
    <3> PICK t : t = [trans[1] EXCEPT !.pending = trans[1].pending + 1, !.written = trans[1].written + 1]
      OBVIOUS
    <3>2. trans' = [trans EXCEPT ![1] = t]
      BY <2>1, <2>2, <2>3, <3>1 DEF count_written_block
    <3>3. t.blocks = trans[1].blocks /\ t.logged = trans[1].logged
      BY <2>2, <3>1 DEF Transaction
    <3> QED BY <2>1, <2>2, <3>1, <3>2, <3>3 DEF SameBlocks
  <2>4. CASE written_to_disk /\ NeedsDisk
    <3>1. trans # <<>> /\ trans' = [trans EXCEPT ![1].ondisk = TRUE]
      BY <2>4 DEF written_to_disk, NeedsDisk
    <3> PICK t : t = [trans[1] EXCEPT !.ondisk = TRUE]
      OBVIOUS
    <3>2. trans' = [trans EXCEPT ![1] = t]
      BY <2>1, <2>2, <3>1
    <3>3. t.blocks = trans[1].blocks /\ t.logged = trans[1].logged
      BY <2>2, <3>1 DEF Transaction
    <3> QED BY <2>1, <2>2, <3>1, <3>2, <3>3 DEF SameBlocks
  <2>5. CASE written_to_disk /\ ~NeedsDisk
    BY <2>5 DEF written_to_disk, SameBlocks
  <2> QED BY <2>3, <2>4, <2>5
<1>3. \A b \in Block : hash'[b].new = hash[b].new
  <2> TAKE b \in Block
  <2>1. hash[b] \in Entry
    BY <1>1, EntryIs DEF Inv
  <2>2. hash' = hash \/ hash'[b] = Unlink(hash[b])
    BY DEF count_written_block, written_to_disk
  <2>3. Unlink(hash[b]).new = hash[b].new
    BY <2>1, NoEntryIs DEF Unlink, Entry
  <2> QED BY <2>2, <2>3
<1>4. SameStore
  BY <1>1, <1>2, LoggedSame, KeptStore
<1> QED BY <1>3, <1>4, ViewSame

\* What changes the store: a write ...
LEMMA WriteIs ==
  ASSUME Live, Live', NEW b \in Block, afs_logged_write(b)
  PROVE  Store!Next
<1>1. /\ trans' = trans /\ disk' = disk /\ nCalls + 1 \in 0..MaxCalls /\ nCalls + 1 # 0
      /\ hash' = [hash EXCEPT ![b] = IF @.present THEN [@ EXCEPT !.new = nCalls + 1]
                                     ELSE [present |-> TRUE, trans |-> Current.id,
                                           buffer |-> NoBuffer, new |-> nCalls + 1]]
  BY LeaveIs, SizesAssumption DEF afs_logged_write, MayCall, Live, Home, Inv
<1>2. SameStore
  BY <1>1, QuietStore
<1>3. hash \in [Block -> Entry] /\ hash[b] \in Entry
  BY EntryIs DEF Live, Home, Inv, TypeOK
<1>4. hash'[b].new = nCalls + 1 /\ \A c \in Block : c # b => hash'[c] = hash[c]
  BY <1>1, <1>3 DEF Entry
<1>5. \A c \in Block : Visible'[c] = IF c = b THEN nCalls + 1 ELSE Visible[c]
  BY <1>1, <1>2, <1>4, ViewIs, ViewNext DEF SameStore, NewOr
<1>6. Visible' = [Visible EXCEPT ![b] = nCalls + 1] /\ UNCHANGED <<Committed, Recovered>>
  BY <1>2, <1>5, DownIs, DownNext DEF StoreFacts, SameStore
<1> QED BY <1>1, <1>6 DEF Store!Next, Store!Write

\* ... an undone operation ...
LEMMA RevertIs ==
  ASSUME Live, Live', afs_discard_transactions
  PROVE  Store!Next
<1>1. trans' = trans /\ disk' = disk /\ newBlocks' = <<>>
  BY DEF afs_discard_transactions, InMemory
<1>2. SameStore
  BY <1>1, QuietStore
<1>3. \A b \in Block : hash'[b].new = 0
  BY <1>1 DEF Live, Home, Inv, HashFollows
<1>4. \A b \in Block : Visible'[b] = Committed[b]
  BY <1>2, <1>3, ViewNext DEF SameStore, NewOr
<1>5. Visible' = Committed /\ UNCHANGED <<Committed, Recovered>>
  BY <1>2, <1>4, DownIs, DownNext DEF StoreFacts, SameStore
<1> QED BY <1>5 DEF Store!Next, Store!Abort

\* ... the superblock that makes the log of a transaction valid ...
LEMMA SuperIs ==
  ASSUME Live, Live', write_log_superblock
  PROVE  Store!Next
<1> PICK n : n = Len(trans)
  OBVIOUS
<1>1. /\ trans' = [trans EXCEPT ![n].logged = TRUE] /\ hash' = hash /\ disk' = disk
      /\ Inv /\ Inv' /\ InMemoryState /\ InMemoryState' /\ nLoggStart' = 1
  BY DEF write_log_superblock, Live, Home
<1>2. HasOpen
  BY <1>1 DEF write_log_superblock, Inv, StepsReady, Step, At
<1>3. trans \in Seq(Transaction) /\ n \in Nat /\ n \in 1..Len(trans) /\ trans[n] \in Transaction
  BY <1>1, <1>2, ListIs, TransIs DEF Inv, HasOpen
<1>4. Len(trans') = n /\ trans'[n].logged /\ \A i \in 1..n : trans'[i].blocks = trans[i].blocks
  BY <1>1, <1>3 DEF Transaction
<1>5. LoggedLen' = n
  <2>1. trans' # <<>>
    BY <1>3, <1>4
  <2> QED BY <1>4, <2>1 DEF LoggedLen, HasOpen, Current, Last
<1>6. ASSUME NEW b \in Block
      PROVE  Committed'[b] = Committed[b] /\ Recovered'[b] = Committed[b]
  <2>1. PICK v : Newer(trans, n, disk, b, v)
    BY <1>3, NewerExists
  <2>2. Newer(trans', n, disk, b, v)
    BY <1>3, <1>4, <2>1, NewerSame
  <2>3. Newer(trans', n, disk', b, v)
    BY <1>1, <2>2
  <2> QED BY <1>1, <1>4, <1>5, <2>1, <2>3, NewerCommitted, NewerNext
<1>7. \A b \in Block : Visible'[b] = Visible[b]
  BY <1>1, <1>6, ViewIs, ViewNext DEF NewOr
<1>8. Recovered' = Committed /\ UNCHANGED <<Visible, Committed>>
  BY <1>6, <1>7, DownIs, DownNext DEF StoreFacts
<1> QED BY <1>8 DEF Store!Next, Store!Persist

\* A new transaction has no blocks.
LEMMA CreateIs ==
  ASSUME Live, Live', afs_begin_transaction \/ create_next_transaction
  PROVE  UNCHANGED View
<1>1. hash' = hash /\ disk' = disk /\ Inv /\ Inv' /\ InMemoryState /\ InMemoryState' /\ nLoggStart' = 1 /\ Home
  BY DEF afs_begin_transaction, create_next_transaction, InMemory, Live, Home
<1>2. CASE trans' = trans
  BY <1>1, <1>2, QuietStore, ViewSame
<1>3. CASE trans' # trans
  <2> PICK n : n = Len(trans)
    OBVIOUS
  <2>1. afs_create_transaction
    BY <1>3 DEF afs_begin_transaction, create_next_transaction
  <2>2. ~HasOpen
    <3>1. CASE afs_begin_transaction
      BY <1>3, <3>1 DEF afs_begin_transaction
    <3>2. CASE create_next_transaction
      <4>1. todo # <<>> /\ todo[1] = "create" /\ 1 \in 1..Len(todo) /\ ~At("log") /\ ~At("super")
        BY <1>1, <3>2, TodoIs DEF create_next_transaction, Step, Next1, Inv
      <4> QED BY <1>1, <4>1 DEF Inv, StepsReady, Ahead
    <3> QED BY <3>1, <3>2
  <2>3. NewTransaction \in Transaction /\ NewTransaction.blocks = <<>> /\ ~NewTransaction.logged
    BY <1>1, NewTransactionIs DEF Home
  <2>4. trans \in Seq(Transaction) /\ n \in Nat
    BY <1>1, ListIs DEF Inv
  <2> PICK t : t = NewTransaction
    OBVIOUS
  <2>5. Len(trans') = n + 1 /\ trans'[n + 1] = t /\ \A i \in 1..n : trans'[i] = trans[i]
    BY <2>1, <2>3, <2>4 DEF afs_create_transaction
  <2>6. LoggedLen = n /\ LoggedLen' = n
    <3>1. trans' # <<>> /\ ~trans'[Len(trans')].logged
      BY <2>3, <2>4, <2>5
    <3> QED BY <2>2, <2>4, <2>5, <3>1 DEF LoggedLen, HasOpen, Current, Last
  <2>7. ASSUME NEW b \in Block
        PROVE  Committed'[b] = Committed[b] /\ Recovered'[b] = Recovered[b]
    <3>1. PICK v : Newer(trans, n, disk, b, v)
      BY <2>4, NewerExists
    <3>2. Newer(trans', n, disk', b, v)
      BY <1>1, <2>4, <2>5, <3>1, NewerSame
    <3>3. Newer(trans', n + 1, disk', b, v)
      BY <2>3, <2>4, <2>5, <3>2, NewerMore
    <3> QED BY <1>1, <2>5, <2>6, <3>1, <3>2, <3>3, NewerCommitted, NewerRecovered, NewerNext
  <2> QED BY <1>1, <2>7, ViewSame DEF SameStore
<1> QED BY <1>2, <1>3

\* A transaction that leaves the log has its blocks in their place.
LEMMA InPlaceThen ==
  ASSUME Inv, trans # <<>>, Oldest.ondisk, Oldest.pending <= 0
  PROVE  \A j \in 1..Len(trans[1].blocks) : disk[trans[1].blocks[j].blk].val = trans[1].blocks[j].val
<1> TAKE j \in 1..Len(trans[1].blocks)
<1>1. 1 \in 1..Len(trans) /\ Oldest = trans[1] /\ Oldest.blocks \in Copies /\ CacheFollows
  BY HandedIs DEF Inv
<1>2. Oldest.written = Len(Oldest.blocks) /\ ~At("count")
  BY <1>1 DEF Inv, ListInOrder, StepsReady, NeedsDisk
<1>3. Handed = Len(Oldest.blocks)
  <2>1. Len(Oldest.blocks) \in Nat
    BY <1>1, TransIs DEF Inv
  <2> QED BY <1>2, <2>1 DEF Handed
<1>4. PICK p \in 1..Len(Oldest.blocks) : BufferOrder(Oldest.blocks)[p] = Oldest.blocks[j]
  BY <1>1, OrderOnto
<1>5. CachedRead(Oldest.blocks[j].blk) = Oldest.blocks[j].val
  BY <1>1, <1>3, <1>4 DEF CacheFollows
<1>6. Oldest.blocks[j].blk \in Block
  BY <1>1, CopyIn
<1>7. ~cache[Oldest.blocks[j].blk].dirty
  BY <1>2, <1>6, NothingDirty
<1> QED BY <1>1, <1>5, <1>7 DEF CachedRead

\* It leaves without being seen.
LEMMA DiscardIs ==
  ASSUME Live, Live', afs_discard_flushed_journal_entries
  PROVE  UNCHANGED View
<1>1. hash' = hash /\ disk' = disk /\ Inv /\ Inv' /\ InMemoryState /\ InMemoryState' /\ nLoggStart' = 1 /\ Home
  BY DEF afs_discard_flushed_journal_entries, Discard, Live, Home
<1>2. CASE trans' = trans
  BY <1>1, <1>2, QuietStore, ViewSame
<1>3. CASE trans' # trans
  <2>1. trans # <<>> /\ Oldest.logged /\ Oldest.ondisk /\ Oldest.pending <= 0 /\ trans' = Tail(trans)
    BY <1>3 DEF afs_discard_flushed_journal_entries, Discard
  <2>2. \A j \in 1..Len(trans[1].blocks) : disk[trans[1].blocks[j].blk].val = trans[1].blocks[j].val
    BY <1>1, <2>1, InPlaceThen
  <2> PICK m : m = Len(trans) - 1
    OBVIOUS
  <2>3. /\ trans \in Seq(Transaction) /\ trans' \in Seq(Transaction) /\ m \in Nat /\ Len(trans) = m + 1
        /\ Oldest = trans[1]
        /\ (HasOpen <=> ~trans[m + 1].logged)
    <3>1. /\ trans \in Seq(Transaction) /\ Len(trans) \in Nat /\ Len(trans) # 0 /\ Oldest = trans[1]
          /\ HasOpen <=> Len(trans) > 0 /\ ~trans[Len(trans)].logged
      BY <1>1, <2>1, ListIs DEF Inv
    <3>2. m \in Nat /\ Len(trans) = m + 1 /\ Len(trans) > 0
      BY <3>1
    <3>3. HasOpen <=> ~trans[m + 1].logged
      BY <3>1, <3>2
    <3> QED BY <1>1, <3>1, <3>2, <3>3 DEF Inv, TypeOK
  <2>4. Len(trans') = m /\ \A i \in 1..m : trans'[i] = trans[i + 1]
    BY <2>1, <2>3
  <2>5. HasOpen' <=> HasOpen
    <3>1. trans' # <<>> <=> m > 0
      BY <2>3, <2>4, EmptyIs
    <3>2. m > 0 => m \in 1..m
      BY <2>3
    <3>3. m > 0 => trans'[Len(trans')] = trans[m + 1]
      BY <2>4, <3>2
    <3>4. ~(m > 0) => m + 1 = 1
      BY <2>3
    <3> QED BY <2>1, <2>3, <3>1, <3>3, <3>4 DEF HasOpen, Current, Last
  <2> PICK k : k = LoggedLen - 1
    OBVIOUS
  <2>6. k \in Nat /\ LoggedLen = k + 1 /\ LoggedLen' = k /\ k <= m
    <3>1. 1 \in 1..Len(trans) /\ LoggedLen \in 0..Len(trans)
          /\ \A i \in 1..Len(trans) : trans[i].logged <=> i <= LoggedLen
      BY <1>1, <2>3, LogIsOn
    <3>2. 1 <= LoggedLen
      BY <2>1, <2>3, <3>1
    <3> QED BY <2>3, <2>4, <2>5, <3>1, <3>2 DEF LoggedLen
  <2>7. ASSUME NEW b \in Block
        PROVE  Committed'[b] = Committed[b] /\ Recovered'[b] = Recovered[b]
    <3>0. m + 1 \in Nat /\ k + 1 \in Nat
      BY <2>3, <2>6
    <3>1. PICK v : Newer(trans, m + 1, disk, b, v)
      BY <3>0, NewerExists
    <3>2. PICK w : Newer(trans, k + 1, disk, b, w)
      BY <3>0, NewerExists
    <3>3. Newer(trans', m, disk, b, v)
      BY <2>2, <2>3, <2>4, <3>1, NewerTail
    <3>4. Newer(trans', k, disk, b, w)
      <4>1. \A i \in 1..k : trans'[i] = trans[i + 1]
        BY <2>3, <2>4, <2>6
      <4> QED BY <2>2, <2>6, <3>2, <4>1, NewerTail
    <3>5. Committed[b] = v /\ Recovered[b] = w
      BY <1>1, <2>3, <2>6, <3>1, <3>2, NewerCommitted, NewerRecovered
    <3>6. Newer(trans', Len(trans'), disk', b, v) /\ Newer(trans', LoggedLen', disk', b, w)
      BY <1>1, <2>4, <2>6, <3>3, <3>4
    <3> QED BY <1>1, <3>5, <3>6, NewerNext
  <2> QED BY <1>1, <2>7, ViewSame DEF SameStore
<1> QED BY <1>2, <1>3

\* ... and a merge: a block that the operation wrote is in the current
\* transaction with its new content, the others are there as they were.
LEMMA MergedVal ==
  ASSUME Inv, HasOpen, NEW b \in Block, NEW j \in 1..Len(Merged \o Added), (Merged \o Added)[j].blk = b
  PROVE  /\ IsIn(b, newBlocks) => (Merged \o Added)[j].val = hash[b].new
         /\ ~IsIn(b, newBlocks) => /\ j \in 1..Len(Current.blocks) /\ Current.blocks[j].blk = b
                                   /\ (Merged \o Added)[j].val = Current.blocks[j].val
<1> DEFINE n == Len(trans)
           bs == Current.blocks
           new == Merged \o Added
<1>1. n \in 1..Len(trans) /\ Current = trans[n] /\ trans # <<>>
  BY ListIs DEF Inv, HasOpen
<1>2. /\ Len(new) = Len(bs) + Len(Fresh) /\ Len(bs) \in Nat /\ Len(Fresh) \in Nat
      /\ \A i \in 1..Len(bs) : new[i].blk = bs[i].blk
      /\ \A i \in 1..Len(Fresh) : new[Len(bs) + i].blk = Fresh[i]
  BY <1>1, MergedIs
<1>3. /\ \A i \in 1..Len(bs) : new[i].val = Merged[i].val
      /\ \A i \in 1..Len(Fresh) : new[Len(bs) + i].val = hash[Fresh[i]].new
  BY <1>1, MergedIs
<1>4. \A c \in Block : ~IsNew(c) =>
        hash[c].buffer[2] \in 1..Len(bs) /\ bs[hash[c].buffer[2]].blk = c
  <2> TAKE c \in Block
  <2> HAVE ~IsNew(c)
  <2>1. hash[c].trans = Current.id /\ hash[c].buffer # NoBuffer
    BY IsNewIs
  <2>2. EntryOK(c, hash[c], IsIn(c, newBlocks), nextId) /\ PlaceOK(c, hash[c], n)
    BY <1>1, HashIs DEF Inv
  <2>3. Current.id \in 1..(nextId - 1)
    BY <1>1 DEF Inv, ListInOrder
  <2>4. Current.id # 0
    BY <2>3
  <2> QED BY <1>1, <2>1, <2>2, <2>4 DEF EntryOK, PlaceOK
<1>5. \A x, y \in 1..Len(bs) : bs[x].blk = bs[y].blk => x = y
  BY <1>1 DEF Inv, OneCopyPerBlock
<1>6. \A c : c \in Range(newBlocks) <=> IsIn(c, newBlocks)
  BY RangeIs DEF Inv
<1>7. \A c \in Range(newBlocks) : c \in Block
  BY <1>6, NewIs DEF Inv, IsIn
<1> HIDE DEF new
<1>8. CASE j \in 1..Len(bs)
  <2> DEFINE again == {c \in Range(newBlocks) : ~IsNew(c) /\ hash[c].buffer[2] = j}
  <2>1. bs[j].blk = b
    BY <1>2, <1>8 DEF new
  <2>2. Merged[j] = IF again = {} THEN bs[j] ELSE [bs[j] EXCEPT !.val = hash[CHOOSE c \in again : TRUE].new]
    BY <1>8 DEF Merged
  <2>3. \A c \in again : c = b
    BY <1>4, <1>7, <2>1
  <2>4. ~IsNew(b)
    BY <1>1, <1>8, <2>1, IsNewIs DEF Holds
  <2>5. hash[b].buffer[2] = j
    BY <1>4, <1>5, <1>8, <2>1, <2>4
  <2>6. b \in again <=> IsIn(b, newBlocks)
    BY <1>6, <2>4, <2>5
  <2> HIDE DEF again
  <2>7. bs[j] \in [blk : Block, val : Nat]
    BY <1>1, <1>8, TransIs, CopyIn DEF Inv
  <2>8. CASE IsIn(b, newBlocks)
    <3>1. (CHOOSE c \in again : TRUE) = b /\ again # {}
      BY <2>3, <2>6, <2>8
    <3> QED BY <1>3, <1>8, <2>2, <2>7, <2>8, <3>1 DEF new
  <2>9. CASE ~IsIn(b, newBlocks)
    <3>1. again = {}
      BY <2>3, <2>6, <2>9
    <3> QED BY <1>3, <1>8, <2>1, <2>2, <2>9, <3>1 DEF new
  <2> QED BY <2>8, <2>9
<1>9. CASE j \notin 1..Len(bs)
  <2> PICK k : k = j - Len(bs)
    OBVIOUS
  <2>1. k \in 1..Len(Fresh) /\ j = Len(bs) + k
    BY <1>2, <1>9 DEF new
  <2>2. new[j].blk = b
    BY DEF new
  <2>3. Fresh[k] = b /\ new[j].val = hash[b].new
    <3>1. new[Len(bs) + k].blk = Fresh[k]
      BY <1>2, <2>1, Zenon
    <3>2. new[Len(bs) + k].val = hash[Fresh[k]].new
      BY <1>3, <2>1, Zenon
    <3> QED BY <2>1, <2>2, <3>1, <3>2, Zenon
  <2>4. IsIn(Fresh[k], newBlocks)
    BY <2>1, FreshIs DEF FreshUpTo, IsIn
  <2> QED BY <2>3, <2>4 DEF new
<1> QED BY <1>8, <1>9

\* A merge commits the operation.
LEMMA MergeStep ==
  ASSUME Live, Live', afs_merge_transactions
  PROVE  Store!Next
<1> DEFINE n == Len(trans)
           new == Merged \o Added
<1>1. Home /\ Inv /\ Inv' /\ InMemoryState /\ InMemoryState' /\ nLoggStart' = 1
  BY DEF Live, Home
<1>2. /\ disk' = disk /\ newBlocks' = <<>> /\ HasOpen /\ HasOpen' /\ n \in Nat /\ n - 1 \in Nat /\ n \in 1..n
      /\ Len(trans') = n /\ Current = trans[n] /\ trans'[n].blocks = new /\ trans # <<>>
      /\ \A i \in 1..n : i # n => trans'[i] = trans[i]
  BY <1>1, MergeIs DEF afs_merge_transactions, InMemory
<1>3. LoggedLen = n - 1 /\ LoggedLen' = n - 1
  BY <1>2 DEF LoggedLen
<1>4. /\ Len(new) = Len(trans[n].blocks) + Len(Fresh) /\ Len(trans[n].blocks) \in Nat /\ Len(Fresh) \in Nat
      /\ \A i \in 1..Len(trans[n].blocks) : new[i].blk = trans[n].blocks[i].blk
      /\ \A i \in 1..Len(Fresh) : new[Len(trans[n].blocks) + i].blk = Fresh[i]
  BY <1>1, <1>2, MergedIs
<1>5. /\ \A i \in 1..Len(trans[n].blocks) : i \in 1..Len(new)
      /\ \A i \in 1..Len(Fresh) : Len(trans[n].blocks) + i \in 1..Len(new)
  BY <1>4
<1>6. \A b \in Block : \A j \in 1..Len(new) : new[j].blk = b =>
        /\ IsIn(b, newBlocks) => new[j].val = hash[b].new
        /\ ~IsIn(b, newBlocks) => /\ j \in 1..Len(trans[n].blocks) /\ trans[n].blocks[j].blk = b
                                  /\ new[j].val = trans[n].blocks[j].val
  BY <1>1, <1>2, MergedVal
<1> HIDE DEF n, new
<1>7. ASSUME NEW b \in Block
      PROVE  Committed'[b] = Visible[b] /\ Visible'[b] = Visible[b] /\ Recovered'[b] = Recovered[b]
  <2>1. hash[b].new # 0 <=> IsIn(b, newBlocks)
    BY <1>1 DEF Inv, HashFollows, IsIn
  <2>2. Visible[b] = NewOr(b)
    BY ViewIs
  <2>3. Visible'[b] = Committed'[b]
    <3>1. hash'[b].new = 0
      BY <1>1, <1>2 DEF Inv, HashFollows
    <3> QED BY <3>1, ViewNext DEF NewOr
  <2>4. Recovered'[b] = Recovered[b]
    <3>1. PICK w : Newer(trans, n - 1, disk, b, w)
      BY <1>2, NewerExists
    <3>2. \A i \in 1..(n - 1) : trans'[i].blocks = trans[i].blocks
      BY <1>2
    <3>3. Newer(trans', n - 1, disk', b, w)
      BY <1>2, <3>1, <3>2, NewerSame
    <3> QED BY <1>1, <1>3, <3>1, <3>3, NewerRecovered, NewerNext
  <2>5. CASE IsIn(b, newBlocks)
    <3>1. PICK j \in 1..Len(new) : new[j].blk = b
      <4>1. CASE IsNew(b)
        <5>1. PICK k \in 1..Len(Fresh) : Fresh[k] = b
          BY <1>1, <2>5, <4>1, FreshIs DEF FreshUpTo, IsIn
        <5> QED BY <1>4, <1>5, <5>1
      <4>2. CASE ~IsNew(b)
        <5>1. PICK k \in 1..Len(trans[n].blocks) : trans[n].blocks[k].blk = b
          BY <1>1, <1>2, <4>2, IsNewIs DEF Holds, n
        <5> QED BY <1>4, <1>5, <5>1
      <4> QED BY <4>1, <4>2
    <3>2. Held(trans', n, b, hash[b].new)
      <4>1. \A k \in (n + 1)..n : ~HasBlock(trans'[k], b)
        BY <1>2
      <4> QED BY <1>2, <1>6, <2>5, <3>1, <4>1 DEF Held
    <3>3. Committed'[b] = hash[b].new
      BY <1>1, <1>2, <3>2, NewerNext DEF Newer
    <3> QED BY <2>1, <2>2, <2>3, <2>4, <2>5, <3>3 DEF NewOr
  <2>6. CASE ~IsIn(b, newBlocks)
    <3>1. PICK v : Newer(trans, n, disk, b, v)
      BY <1>2, NewerExists
    <3>2. Committed[b] = v
      BY <1>1, <3>1, NewerCommitted DEF n
    <3>3. \A k \in 1..n : HasBlock(trans'[k], b) => HasBlock(trans[k], b)
      <4> TAKE k \in 1..n
      <4>1. CASE k = n
        BY <1>2, <1>6, <2>6, <4>1 DEF HasBlock
      <4> QED BY <1>2, <4>1
    <3>4. ASSUME Held(trans, n, b, v) PROVE Held(trans', n, b, v)
      <4>1. PICK i \in 1..n :
              /\ \E j \in 1..Len(trans[i].blocks) : trans[i].blocks[j].blk = b /\ trans[i].blocks[j].val = v
              /\ \A k \in (i + 1)..n : ~HasBlock(trans[k], b)
        BY <3>4 DEF Held
      <4>2. \E j \in 1..Len(trans'[i].blocks) : trans'[i].blocks[j].blk = b /\ trans'[i].blocks[j].val = v
        <5>1. CASE i = n
          <6>1. PICK j \in 1..Len(trans[n].blocks) : trans[n].blocks[j].blk = b /\ trans[n].blocks[j].val = v
            BY <4>1, <5>1, Zenon
          <6>2. j \in 1..Len(new) /\ new[j].blk = b
            BY <1>4, <1>5, <6>1, Zenon
          <6>3. new[j].val = v
            BY <1>6, <2>6, <6>1, <6>2, Zenon
          <6>4. trans'[i].blocks = new
            BY <1>2, <5>1, Zenon
          <6> QED BY <6>2, <6>3, <6>4, Zenon
        <5> QED BY <1>2, <4>1, <5>1
      <4>3. \A k \in (i + 1)..n : k \in 1..n
        BY <1>2
      <4>4. \A k \in (i + 1)..n : ~HasBlock(trans'[k], b)
        BY <3>3, <4>1, <4>3
      <4> QED BY <4>2, <4>4 DEF Held
    <3>5. Newer(trans', n, disk', b, v)
      BY <1>2, <3>1, <3>3, <3>4 DEF Newer
    <3>6. Committed'[b] = v
      BY <1>1, <1>2, <3>5, NewerNext
    <3> QED BY <2>1, <2>2, <2>3, <2>4, <2>6, <3>2, <3>6 DEF NewOr
  <2> QED BY <2>5, <2>6
<1>8. Committed' = Visible /\ UNCHANGED <<Visible, Recovered>>
  BY <1>7, DownIs, DownNext DEF StoreFacts
<1> QED BY <1>8 DEF Store!Next, Store!Commit
-----------------------------------------------------------------------------
(* A volume that stops, is mounted and replayed.                           *)

\* A disk that differs only in blocks the range holds copies of is replayed
\* to the same contents.
LEMMA FoundSame ==
  ASSUME NEW d, NEW e, NEW s, NEW n \in Nat, NEW b,
         \A q \in 0..(n - 1) : d[Pos(s, q)] = e[Pos(s, q)],
         Copied(d, s, n, b) = {} => e[b].val = d[b].val
  PROVE  Found(e, s, n, b) = Found(d, s, n, b)
<1> DEFINE C == Copied(d, s, n, b)
<1>1. Copied(e, s, n, b) = C /\ C \subseteq 0..(n - 1)
  BY RestSame DEF Copied
<1>2. CASE C = {}
  BY <1>1, <1>2, FoundIs
<1>3. CASE C # {}
  <2>1. PICK i \in C : (\A j \in C : j <= i) /\ Found(d, s, n, b) = d[Pos(s, i)].val
    BY <1>3, FoundIs
  <2>2. PICK k \in C : (\A j \in C : j <= k) /\ Found(e, s, n, b) = e[Pos(s, k)].val
    BY <1>1, <1>3, FoundIs
  <2> HIDE DEF C
  <2>3. i = k
    BY <1>1, <2>1, <2>2
  <2> QED BY <1>1, <2>1, <2>2, <2>3
<1> QED BY <1>2, <1>3

\* Nothing is left to replay.
LEMMA FoundInPlace ==
  ASSUME NEW d, NEW s, NEW n \in Nat, NEW b, InPlace(d, s, n, n)
  PROVE  Found(d, s, n, b) = d[b].val
<1> DEFINE C == Copied(d, s, n, b)
<1>1. CASE C = {}
  BY <1>1, FoundIs
<1>2. CASE C # {}
  <2>1. PICK i \in C : (\A j \in C : j <= i) /\ Found(d, s, n, b) = d[Pos(s, i)].val
    BY <1>2, FoundIs
  <2>2. i \in 0..(n - 1) /\ Rest(d, s, n)[i] # <<>> /\ Head(Rest(d, s, n)[i]) = b
    BY <2>1 DEF Copied
  <2>3. \A j \in (i + 1)..(n - 1) : Rest(d, s, n)[j] # <<>> => Head(Rest(d, s, n)[j]) # b
    <3> TAKE j \in (i + 1)..(n - 1)
    <3>1. j \in 0..(n - 1) /\ ~(j <= i)
      BY <2>2
    <3> QED BY <2>1, <3>1 DEF Copied
  <2> QED BY <2>1, <2>2, <2>3 DEF InPlace
<1> QED BY <1>1, <1>2

\* A volume that is not in memory changes only with what a replay would
\* leave.
LEMMA DownSame ==
  ASSUME ~InMemoryState, ~InMemoryState', superblock' = superblock,
         \A b \in Block : Found(disk', superblock.start, superblock.valid, b)
                          = Found(disk, superblock.start, superblock.valid, b)
  PROVE  UNCHANGED View
<1>1. \A b \in Block : Recovered'[b] = Recovered[b]
  BY DownIs, DownNext DEF StoreFacts
<1> QED BY <1>1, DownIs, DownNext DEF StoreFacts, View

\* A volume comes up with what the replay left.
LEMMA UpSame ==
  ASSUME Inv, ~InMemoryState, Live', trans' = trans, newBlocks' = newBlocks, disk' = disk,
         superblock'.valid = 0, \A b \in Block : Recovered[b] = disk[b].val
  PROVE  UNCHANGED View
<1>1. trans' = <<>> /\ newBlocks' = <<>> /\ Len(trans') = 0
  BY DEF Inv, NothingInMemory
<1>2. Inv' /\ nLoggStart' = 1 /\ InMemoryState'
  BY DEF Live, Home
<1>3. ASSUME NEW b \in Block
      PROVE  Recovered'[b] = Recovered[b] /\ Committed'[b] = Recovered[b] /\ Visible'[b] = Recovered[b]
  <2>1. Newer(trans', Len(trans'), disk', b, disk'[b].val)
    BY <1>1 DEF Newer
  <2>2. Committed'[b] = Recovered[b]
    BY <1>2, <2>1, NewerNext
  <2>3. hash'[b].new = 0
    BY <1>1, <1>2 DEF Inv, HashFollows
  <2>4. Visible'[b] = Recovered[b]
    BY <2>2, <2>3, ViewNext DEF NewOr
  <2>5. Recovered'[b] = disk'[b].val
    BY DownNext, NothingFound DEF StoreFacts
  <2> QED BY <2>2, <2>4, <2>5
<1> QED BY <1>3, DownIs, DownNext DEF StoreFacts, View

\* The machine stops, and the next mount finds what was durable.
LEMMA StopStore ==
  ASSUME Home, unmounted \/ Crash \/ CrashInLogWrite
  PROVE  Store!Next
<1>1. superblock' = superblock /\ ~InMemoryState'
  BY DEF unmounted, Crash, CrashInLogWrite, Gone, InMemoryState
<1> PICK e : e = disk'
  OBVIOUS
<1> DEFINE s == superblock.start
           n == superblock.valid
<1>2. n \in Nat /\ (\A q \in 0..(n - 1) : disk[Pos(s, q)] = e[Pos(s, q)]) /\ \A b \in Block : e[b] = disk[b]
  BY StopReadable DEF Home, Inv, TypeOK
<1>3. \A b \in Block : Found(e, s, n, b) = Found(disk, s, n, b)
  <2> HIDE DEF s, n
  <2> QED BY <1>2, FoundSame
<1>4. \A b \in Block : Recovered'[b] = Recovered[b]
  BY <1>1, <1>3, DownIs, DownNext DEF StoreFacts
<1>5. Visible' = Recovered /\ Committed' = Recovered /\ UNCHANGED Recovered
  BY <1>1, <1>4, DownIs, DownNext DEF StoreFacts
<1> QED BY <1>5 DEF Store!Next, Store!Crash

\* Stops, mounts and replays are crashes of the store or not seen in it.
LEMMA OtherIs ==
  ASSUME Inv, Inv', nLoggStart = 1, nLoggStart' = 1, ReadsLiveBuffer, ReadsLiveBuffer', ReplayFollows, OtherStep
  PROVE  Store!Next \/ UNCHANGED View
<1> DEFINE s == superblock.start
           n == superblock.valid
<1>1. TypeOK /\ n \in Nat
  BY DEF Inv, TypeOK
<1>2. ~InMemoryState => Readable(disk, s, n) /\ (mode = "replay" => ReplayIs(disk, s, n, replay))
  BY <1>1, ReplayFollowsIs
<1>3. InMemoryState' => Live'
  BY DEF Live, Home
<1>4. CASE (unmounted \/ Crash \/ CrashInLogWrite) /\ InMemoryState
  BY <1>4, StopStore DEF Home
<1>5. CASE (unmounted \/ Crash \/ CrashInLogWrite) /\ ~InMemoryState
  <2>1. ~Step("unmount") /\ ~Step("log")
    BY <1>5 DEF Step, InMemoryState
  <2>2. ~InMemoryState' /\ superblock' = superblock /\ disk' = disk
    BY <1>5, <2>1 DEF unmounted, Crash, CrashInLogWrite, Gone, InMemoryState
  <2> QED BY <1>5, <2>2, DownSame
<1>6. CASE afs_mount
  <2>1. /\ ~InMemoryState /\ disk' = disk /\ superblock' = superblock /\ trans' = trans /\ newBlocks' = newBlocks
        /\ mode' = IF n = 0 THEN "mounted" ELSE "replay"
    BY <1>6 DEF afs_mount, InMemoryState
  <2>2. CASE n = 0
    <3>1. InMemoryState'
      BY <2>1, <2>2 DEF InMemoryState
    <3>2. \A b \in Block : Recovered[b] = disk[b].val
      BY <2>2, DownIs, NothingFound DEF StoreFacts
    <3> QED BY <1>3, <2>1, <2>2, <3>1, <3>2, UpSame
  <2>3. CASE n # 0
    <3>1. ~InMemoryState'
      BY <2>1, <2>3 DEF InMemoryState
    <3> QED BY <2>1, <3>1, DownSame
  <2> QED BY <2>2, <2>3
<1>7. CASE afs_replay_log
  <2>1. /\ ~InMemoryState /\ ~InMemoryState' /\ mode = "replay" /\ superblock' = superblock
        /\ replay.idx = <<>> => disk' = disk
    BY <1>7 DEF afs_replay_log, InMemoryState
  <2>2. CASE replay.idx = <<>>
    BY <2>1, <2>2, DownSame
  <2>3. CASE replay.idx # <<>>
    <3> PICK e : e = disk'
      OBVIOUS
    <3>1. /\ \A q \in 0..(n - 1) : disk[Pos(s, q)] = e[Pos(s, q)]
          /\ \A b \in Block : Copied(disk, s, n, b) = {} => e[b] = disk[b]
      BY <1>2, <1>7, <2>1, <2>3, ReplayWrites
    <3>2. \A b \in Block : Found(e, s, n, b) = Found(disk, s, n, b)
      <4> HIDE DEF s, n
      <4> QED BY <1>1, <3>1, FoundSame
    <3> QED BY <2>1, <3>2, DownSame
  <2> QED BY <2>2, <2>3
<1>8. CASE replay_done
  <2>1. /\ ~InMemoryState /\ InMemoryState' /\ disk' = disk /\ superblock'.valid = 0 /\ mode = "replay"
        /\ trans' = trans /\ newBlocks' = newBlocks /\ replay.left = 0
    BY <1>8 DEF replay_done, InMemoryState
  <2>2. n - replay.left = n
    BY <1>1, <2>1
  <2>3. InPlace(disk, s, n, n)
    BY <1>2, <2>1, <2>2 DEF ReplayIs
  <2>4. \A b \in Block : Recovered[b] = disk[b].val
    BY <1>1, <2>3, DownIs, FoundInPlace DEF StoreFacts
  <2> QED BY <1>3, <2>1, <2>4, UpSame
<1>9. CASE UNCHANGED vars
  <2>1. UNCHANGED <<disk, superblock, mode, trans, hash>>
    BY <1>9 DEF vars, volume
  <2>2. CASE InMemoryState
    <3>1. Live /\ Live'
      BY <1>3, <2>1, <2>2 DEF Live, Home, InMemoryState
    <3> QED BY <2>1, <3>1, QuietStore, ViewSame
  <2>3. CASE ~InMemoryState
    <3>1. ~InMemoryState'
      BY <2>1, <2>3 DEF InMemoryState
    <3> QED BY <2>1, <2>3, <3>1, DownSame
  <2> QED BY <2>2, <2>3
<1> QED BY <1>4, <1>5, <1>6, <1>7, <1>8, <1>9 DEF OtherStep

\* Every step of the journal is a step of the store or changes nothing of it.
LEMMA StoreNext ==
  ASSUME Inv, LogStaysInItsArea, LogStaysInItsArea', ReadsLiveBuffer, ReadsLiveBuffer', ReplayFollows, [Next]_vars
  PROVE  [Store!Next]_(Store!vars)
<1>1. Inv' /\ nLoggStart = 1 /\ nLoggStart' = 1
  BY NextInv DEF LogStaysInItsArea
<1>2. ASSUME InMemoryStep
      PROVE  Store!Next \/ UNCHANGED View
  <2>1. Live /\ Live'
    BY <1>1, <1>2, StaysInMemory DEF Live, Home
  <2>2. CASE Quiet
    BY <2>1, <2>2, QuietIs
  <2>3. CASE FlushStep
    BY <2>1, <2>3, FlushIs
  <2>4. CASE count_written_block \/ written_to_disk
    BY <2>1, <2>4, OldestIs
  <2>5. CASE \E b \in Block : afs_logged_write(b)
    BY <2>1, <2>5, WriteIs
  <2>6. CASE afs_discard_transactions \/ write_log_superblock \/ afs_merge_transactions
    BY <2>1, <2>6, RevertIs, SuperIs, MergeStep
  <2>7. CASE afs_begin_transaction \/ create_next_transaction \/ afs_discard_flushed_journal_entries
    BY <2>1, <2>7, CreateIs, DiscardIs
  <2> QED BY <1>2, <2>2, <2>3, <2>4, <2>5, <2>6, <2>7
          DEF InMemoryStep, FileSystemCall, CallStep, Quiet, FlushStep
<1>3. Store!Next \/ UNCHANGED View
  BY <1>1, <1>2, OtherIs, StepKinds
<1> QED BY <1>3 DEF Store!vars, View

\* A formatted volume is an initial state of the store.
LEMMA StoreInit == Init => Store!Init
<1> SUFFICES ASSUME Init PROVE Store!Init
  OBVIOUS
<1>1. \A b \in Block : Recovered[b] = 0 /\ Committed[b] = 0 /\ Visible[b] = 0
  <2> TAKE b \in Block
  <2>1. superblock.valid = 0 /\ disk[b].val = 0
    BY AddrIs DEF Init, Data
  <2>2. Recovered[b] = 0
    BY <2>1, DownIs, NothingFound DEF StoreFacts
  <2>3. ~hash[b].present /\ ~cache[b].dirty /\ InMemoryState
    BY DEF Init, NoEntry, Clean, InMemoryState
  <2> QED BY <2>1, <2>2, <2>3 DEF Committed, Visible, afs_logged_read, CachedRead
<1>2. 0 \in 0..MaxCalls
  BY SizesAssumption
<1> QED BY <1>1, <1>2, DownIs DEF StoreFacts, Store!Init

\* The journal implements the durable store, as long as the log stays in its
\* area and no read goes through a stale he_pBuffer: reads see every write, an
\* operation is undone or kept as a whole, and wherever the machine stops, in
\* the middle of a log write or of a replay, the next mount finds a committed
\* state no older than the last one that was durable.
THEOREM JournalImplementsStore ==
  Spec /\ []LogStaysInItsArea /\ []ReadsLiveBuffer => StoreSpec
<1>1. /\ Inv /\ LogStaysInItsArea /\ LogStaysInItsArea' /\ ReadsLiveBuffer /\ ReadsLiveBuffer'
      /\ ReplayFollows /\ [Next]_vars
      => [Store!Next]_(Store!vars)
  BY StoreNext
<1> QED BY <1>1, StoreInit, JournalInvariant, ReplayFollowsLog, PTL DEF Spec, StoreSpec, Store!Spec

-----------------------------------------------------------------------------
(* Pointers into transaction buffers.                                      *)

\* The transaction of an entry is in the list and not yet in the cache; an
\* entry that lost its transaction is one the open operation has written.
Lives(T, id) == \E i \in 1..Len(T) : T[i].id = id /\ ~T[i].ondisk
LiveEntry(T, e) ==
  /\ e.buffer # NoBuffer /\ e.trans # 0 => Lives(T, e.trans)
  /\ e.present /\ e.new = 0 => e.trans # 0
EntriesLive == \A b \in Block : LiveEntry(trans, hash[b])

\* An undone operation has not written a block that a transaction held when it
\* began and that was handed to the cache while it ran: for such a block
\* afs_discard_transactions keeps the entry, with a he_pBuffer that goes when
\* the transaction does.
UndoesOwnBlocks ==
  afs_discard_transactions =>
    \A b \in Block : IsIn(b, newBlocks) /\ hash[b].buffer # NoBuffer => hash[b].trans # 0

\* Entries stay live while the transactions that are not in the cache stay.
LEMMA LiveKept ==
  ASSUME EntriesLive, hash' = hash,
         \A i \in 1..Len(trans) : ~trans[i].ondisk => Lives(trans', trans[i].id)
  PROVE  EntriesLive'
BY DEF EntriesLive, LiveEntry, Lives

\* An entry that reads through its pointer reads a buffer in memory.
LEMMA LiveReads == Inv /\ EntriesLive => ReadsLiveBuffer
<1> HAVE Inv /\ EntriesLive
<1> SUFFICES ASSUME NEW b \in Block, hash[b].present, hash[b].new = 0
             PROVE  LiveBuffer(hash[b].buffer)
  BY DEF ReadsLiveBuffer
<1>1. EntryOK(b, hash[b], IsIn(b, newBlocks), nextId)
  BY HashIs DEF Inv
<1>2. hash[b].trans # 0 /\ hash[b].buffer # NoBuffer /\ Lives(trans, hash[b].trans)
  BY <1>1 DEF EntryOK, EntriesLive, LiveEntry
<1>3. hash[b].buffer[1] = hash[b].trans
  BY <1>1, <1>2 DEF EntryOK
<1> QED BY <1>2, <1>3 DEF Lives, LiveBuffer

\* Steps that leave the entries alone.
LEMMA LiveList ==
  ASSUME Inv, EntriesLive,
         \/ Quiet \/ FlushStep \/ count_written_block \/ write_log_superblock
         \/ afs_begin_transaction \/ create_next_transaction \/ afs_discard_flushed_journal_entries
  PROVE  EntriesLive'
<1>1. trans \in Seq(Transaction) /\ Len(trans) \in Nat
  BY ListIs DEF Inv
<1>2. \A i \in 1..Len(trans) : trans[i] \in Transaction
  BY TransIs DEF Inv
<1>3. CASE Quiet
  <2>0. merge_fails => trans' = trans /\ hash' = hash
    BY MergeTakesBack
  <2>1. trans' = trans /\ hash' = hash
    BY <1>3, <2>0 DEF Quiet, afs_end_transaction, afs_checkpoint_journal, afs_wait_for_block_to_leave_log,
         afs_sync, afs_unmount, afs_journal_flusher, Run, write_log_blocks, write_logged_blocks, volume,
         afs_wait_for_log_space, wait_for_block_to_leave_log_round, transaction_ended, InMemory
  <2> QED BY <2>1 DEF EntriesLive
<1>4. ASSUME hash' = hash, Len(trans') = Len(trans),
             \A i \in 1..Len(trans) : trans'[i].id = trans[i].id /\ trans'[i].ondisk = trans[i].ondisk
      PROVE  EntriesLive'
  BY <1>4, LiveKept DEF Lives
<1>5. CASE FlushStep
  <2>1. PICK S : flush_block_list(S)
    BY <1>5 DEF FlushStep, flush_device_cache, afs_force_flush_transaction, cache_flusher
  <2>2. trans' = [i \in 1..Len(trans) |-> [trans[i] EXCEPT !.pending = PendingAfter(trans[i], S)]]
    BY <2>1 DEF flush_block_list
  <2>3. Len(trans') = Len(trans)
    BY <1>1, <2>2
  <2>4. ASSUME NEW i \in 1..Len(trans)
        PROVE  trans'[i].id = trans[i].id /\ trans'[i].ondisk = trans[i].ondisk
    <3>1. trans'[i] = [trans[i] EXCEPT !.pending = PendingAfter(trans[i], S)]
      BY <2>2
    <3> QED BY <1>2, <3>1 DEF Transaction
  <2>5. hash' = hash
    BY <1>5 DEF FlushStep, flush_device_cache, afs_force_flush_transaction, cache_flusher
  <2> QED BY <1>4, <2>3, <2>4, <2>5
<1>6. CASE count_written_block
  <2>1. trans # <<>> /\ hash' = hash
    BY <1>6 DEF count_written_block, Inv, StepsReady, NeedsDisk, At, Step
  <2>2. 1 \in 1..Len(trans)
    BY <1>1, <2>1, ListIs DEF Inv
  <2> PICK t : t = [trans[1] EXCEPT !.pending = trans[1].pending + 1, !.written = trans[1].written + 1]
    OBVIOUS
  <2>3. trans' = [trans EXCEPT ![1] = t]
    BY <1>1, <1>2, <1>6, <2>2 DEF count_written_block
  <2>4. t.id = trans[1].id /\ t.ondisk = trans[1].ondisk
    BY <1>2, <2>2 DEF Transaction
  <2> QED BY <1>1, <1>4, <2>1, <2>2, <2>3, <2>4
<1>7. CASE write_log_superblock
  <2> PICK n : n = Len(trans)
    OBVIOUS
  <2>1. trans' = [trans EXCEPT ![n].logged = TRUE] /\ hash' = hash
    BY <1>7 DEF write_log_superblock
  <2>2. Len(trans') = Len(trans)
    BY <1>1, <2>1
  <2>3. ASSUME NEW i \in 1..Len(trans)
        PROVE  trans'[i].id = trans[i].id /\ trans'[i].ondisk = trans[i].ondisk
    <3>1. trans[i] \in Transaction
      BY <1>2
    <3>2. i # n => trans'[i] = trans[i]
      BY <1>1, <2>1
    <3>3. i = n => trans'[i].id = trans[i].id /\ trans'[i].ondisk = trans[i].ondisk
      BY <1>1, <2>1, <3>1 DEF Transaction
    <3> QED BY <3>2, <3>3
  <2> QED BY <1>4, <2>1, <2>2, <2>3
<1>8. CASE afs_begin_transaction \/ create_next_transaction
  <2>1. hash' = hash /\ (trans' = trans \/ trans' = Append(trans, NewTransaction))
    BY <1>8 DEF afs_begin_transaction, create_next_transaction, afs_create_transaction
  <2>2. CASE trans' = trans
    BY <2>1, <2>2 DEF EntriesLive
  <2>3. CASE trans' = Append(trans, NewTransaction)
    <3> PICK t : t = NewTransaction
      OBVIOUS
    <3>1. \A i \in 1..Len(trans) : i \in 1..Len(trans') /\ trans'[i] = trans[i]
      BY <1>1, <2>3
    <3> QED BY <2>1, <3>1, LiveKept DEF Lives
  <2> QED BY <2>1, <2>2, <2>3
<1>9. CASE afs_discard_flushed_journal_entries
  <2>1. hash' = hash
    BY <1>9 DEF afs_discard_flushed_journal_entries, Discard
  <2>2. CASE trans' = trans
    BY <2>1, <2>2 DEF EntriesLive
  <2>3. CASE trans' # trans
    <3>1. trans # <<>> /\ Oldest.ondisk /\ trans' = Tail(trans) /\ Oldest = trans[1]
      BY <1>9, <2>3, ListIs DEF afs_discard_flushed_journal_entries, Discard, Inv
    <3>2. ASSUME NEW i \in 1..Len(trans), ~trans[i].ondisk
          PROVE  Lives(trans', trans[i].id)
      <4>1. i # 1
        BY <3>1, <3>2
      <4>2. Len(trans') = Len(trans) - 1 /\ \A j \in 1..(Len(trans) - 1) : trans'[j] = trans[j + 1]
        BY <1>1, <3>1
      <4>3. i - 1 \in 1..(Len(trans) - 1) /\ (i - 1) + 1 = i
        BY <1>1, <4>1
      <4>4. i - 1 \in 1..Len(trans') /\ trans'[i - 1] = trans[i]
        BY <4>2, <4>3
      <4> QED BY <3>2, <4>4 DEF Lives
    <3> QED BY <2>1, <3>2, LiveKept
  <2> QED BY <2>2, <2>3
<1> QED BY <1>3, <1>5, <1>6, <1>7, <1>8, <1>9

\* A write makes an entry or gives one new content.
LEMMA LiveWrite ==
  ASSUME Inv, EntriesLive, NEW c \in Block, afs_logged_write(c)
  PROVE  EntriesLive'
<1>1. /\ trans' = trans /\ nCalls + 1 # 0
      /\ hash' = [hash EXCEPT ![c] = IF @.present THEN [@ EXCEPT !.new = nCalls + 1]
                                     ELSE [present |-> TRUE, trans |-> Current.id,
                                           buffer |-> NoBuffer, new |-> nCalls + 1]]
  BY LeaveIs DEF afs_logged_write, Inv
<1>2. hash \in [Block -> Entry] /\ hash[c] \in Entry
  BY EntryIs DEF Inv, TypeOK
<1>3. \A b \in Block : b # c => hash'[b] = hash[b]
  BY <1>1, <1>2
<1>4. /\ hash'[c].new # 0
      /\ \/ hash'[c].buffer = NoBuffer
         \/ hash'[c].buffer = hash[c].buffer /\ hash'[c].trans = hash[c].trans
  BY <1>1, <1>2 DEF Entry
<1> QED BY <1>1, <1>3, <1>4 DEF EntriesLive, LiveEntry

\* An undone operation gives an entry back what its transaction holds.
LEMMA LiveUndo ==
  ASSUME Inv, EntriesLive, afs_discard_transactions, UndoesOwnBlocks
  PROVE  EntriesLive'
<1> SUFFICES ASSUME NEW b \in Block PROVE LiveEntry(trans', hash'[b])
  BY DEF EntriesLive
<1>1. /\ trans' = trans /\ LiveEntry(trans, hash[b]) /\ hash[b] \in Entry
      /\ hash'[b] = IF b \notin Range(newBlocks) THEN hash[b]
                    ELSE IF hash[b].buffer = NoBuffer THEN NoEntry
                    ELSE [hash[b] EXCEPT !.new = 0]
  BY EntryIs DEF afs_discard_transactions, EntriesLive, Inv, InMemory
<1>2. b \in Range(newBlocks) /\ hash[b].buffer # NoBuffer => hash[b].trans # 0
  BY RangeIs DEF UndoesOwnBlocks, Inv
<1> QED BY <1>1, <1>2, NoEntryIs DEF LiveEntry, Entry

\* The entries of a transaction that is in the cache lose it.
LEMMA LiveUnlink ==
  ASSUME Inv, EntriesLive, written_to_disk
  PROVE  EntriesLive'
<1>1. CASE ~NeedsDisk
  BY <1>1 DEF written_to_disk, EntriesLive
<1>2. CASE NeedsDisk
  <2>1. /\ trans # <<>> /\ trans' = [trans EXCEPT ![1].ondisk = TRUE]
        /\ hash' = [b \in Block |-> Unlink(hash[b])]
    BY <1>2 DEF written_to_disk, NeedsDisk
  <2>2. trans \in Seq(Transaction) /\ 1 \in 1..Len(trans) /\ Oldest = trans[1]
    BY <2>1, ListIs DEF Inv
  <2>3. Len(trans') = Len(trans) /\ \A i \in 1..Len(trans) : i # 1 => trans'[i] = trans[i]
    BY <2>1, <2>2
  <2> SUFFICES ASSUME NEW b \in Block PROVE LiveEntry(trans', hash'[b])
    BY DEF EntriesLive
  <2>4. LiveEntry(trans, hash[b]) /\ hash[b] \in Entry /\ hash'[b] = Unlink(hash[b])
    BY <2>1, EntryIs DEF EntriesLive, Inv
  <2>5. CASE hash[b].trans = Oldest.id
    <3>1. hash'[b] = NoEntry \/ (hash'[b].trans = 0 /\ hash'[b].new # 0)
      BY <2>4, <2>5 DEF Unlink, Entry
    <3> QED BY <3>1, NoEntryIs DEF LiveEntry
  <2>6. CASE hash[b].trans # Oldest.id
    <3>1. hash'[b] = hash[b]
      BY <2>4, <2>6 DEF Unlink
    <3>2. Lives(trans, hash[b].trans) => Lives(trans', hash[b].trans)
      BY <2>2, <2>3, <2>6 DEF Lives
    <3> QED BY <2>4, <3>1, <3>2 DEF LiveEntry
  <2> QED BY <2>5, <2>6
<1> QED BY <1>1, <1>2

\* A merged block is in the current transaction.
LEMMA LiveMerge ==
  ASSUME Inv, EntriesLive, afs_merge_transactions
  PROVE  EntriesLive'
<1> PICK n : n = Len(trans)
  OBVIOUS
<1>1. /\ HasOpen /\ n \in 1..n /\ Current = trans[n] /\ ~trans[n].logged /\ Len(trans') = n
      /\ \A i \in 1..n : trans'[i].id = trans[i].id /\ trans'[i].ondisk = trans[i].ondisk
  BY MergeIs
<1>2. ~trans[n].ondisk /\ trans[n].id # 0
  BY <1>1 DEF Inv, ListInOrder
<1>3. \A id : Lives(trans, id) => Lives(trans', id)
  BY <1>1 DEF Lives
<1>4. Lives(trans', Current.id)
  BY <1>1, <1>2 DEF Lives
<1> SUFFICES ASSUME NEW b \in Block PROVE LiveEntry(trans', hash'[b])
  BY DEF EntriesLive
<1>5. hash'[b] = MergedEntry(b) /\ LiveEntry(trans, hash[b])
  BY DEF afs_merge_transactions, EntriesLive
<1>6. CASE ~IsIn(b, newBlocks)
  <2>1. hash'[b] = hash[b]
    BY <1>5, <1>6, RangeIs DEF MergedEntry, Inv
  <2> QED BY <1>3, <1>5, <2>1 DEF LiveEntry
<1>7. CASE IsIn(b, newBlocks)
  <2>1. hash'[b].trans = Current.id
    BY <1>1, <1>5, <1>7, MergedEntryIs, IsNewIs
  <2> QED BY <1>1, <1>2, <1>4, <2>1 DEF LiveEntry
<1> QED BY <1>6, <1>7

\* Every step that is no forbidden undo keeps the entries live.
LEMMA LiveNext ==
  ASSUME Inv, EntriesLive, UndoesOwnBlocks, [Next]_vars
  PROVE  EntriesLive'
<1>1. CASE InMemoryStep
  <2>1. CASE \E b \in Block : afs_logged_write(b)
    BY <2>1, LiveWrite
  <2>2. CASE afs_discard_transactions \/ written_to_disk \/ afs_merge_transactions
    BY <2>2, LiveUndo, LiveUnlink, LiveMerge
  <2> QED BY <1>1, <2>1, <2>2, LiveList
          DEF InMemoryStep, FileSystemCall, CallStep, Quiet, FlushStep
<1>2. CASE unmounted \/ Crash \/ CrashInLogWrite
  <2>1. hash' = [b \in Block |-> NoEntry]
    BY <1>2 DEF unmounted, Crash, CrashInLogWrite, Gone
  <2> QED BY <2>1, NoEntryIs DEF EntriesLive, LiveEntry
<1>3. CASE afs_mount \/ afs_replay_log \/ replay_done \/ UNCHANGED vars
  <2>1. hash' = hash /\ trans' = trans
    BY <1>3 DEF afs_mount, afs_replay_log, replay_done, vars, volume
  <2> QED BY <2>1 DEF EntriesLive
<1> QED BY <1>1, <1>2, <1>3, StepKinds DEF OtherStep

\* Only an undone operation leaves a stale he_pBuffer behind: as long as none
\* has written a block whose transaction was handed to the cache in the
\* meantime, every read of a block in the hash table finds a buffer in memory.
THEOREM OnlyUndoLeavesStale ==
  Spec /\ []LogStaysInItsArea /\ [][UndoesOwnBlocks]_vars => []ReadsLiveBuffer
<1>1. Init => EntriesLive
  BY NoEntryIs DEF Init, EntriesLive, LiveEntry
<1>2. Inv /\ EntriesLive /\ [Next]_vars /\ [UndoesOwnBlocks]_vars => EntriesLive'
  <2> HAVE Inv /\ EntriesLive /\ [Next]_vars /\ [UndoesOwnBlocks]_vars
  <2>1. CASE UNCHANGED vars
    BY <2>1 DEF EntriesLive, vars, volume
  <2>2. CASE UndoesOwnBlocks
    BY <2>2, LiveNext
  <2> QED BY <2>1, <2>2
<1> QED BY <1>1, <1>2, LiveReads, JournalInvariant, PTL DEF Spec

\* The journal of a file system whose operations are not undone across a
\* handover implements the durable store without any assumption on reads.
THEOREM JournalKeepsPromise ==
  Spec /\ []LogStaysInItsArea /\ [][UndoesOwnBlocks]_vars => StoreSpec
BY OnlyUndoLeavesStale, JournalImplementsStore, PTL
=============================================================================
