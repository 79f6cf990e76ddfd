-------------------------- MODULE AfsJournalProofs ---------------------------
(***************************************************************************)
(* Proofs about AfsJournal for a log, buffers and a volume of any size.    *)
(***************************************************************************)
EXTENDS AfsJournal, SequenceTheorems, FiniteSetTheorems, WellFoundedInduction, TLAPS

-----------------------------------------------------------------------------
(* Numbers and induction.                                                  *)

\* Every set of naturals that is not empty has a least element.
LEMMA Least ==
  ASSUME NEW T \in SUBSET Nat, T # {}
  PROVE  \E x \in T : \A y \in T : x <= y
<1>1. PICK x \in T : \A y \in T : ~(<<y, x>> \in OpToRel(<, Nat))
  BY NatLessThanWellFounded, WFMin
<1>2. \A y \in T : ~(y < x)
  BY <1>1 DEF OpToRel
<1> QED BY <1>2

\* Induction up to m, with the property as a set.
LEMMA UpTo ==
  ASSUME NEW P, NEW m \in Nat, 0 \in P,
         \A i \in 0..(m - 1) : i \in P => i + 1 \in P
  PROVE  \A i \in 0..m : i \in P
<1> SUFFICES ASSUME \E i \in 0..m : i \notin P
             PROVE  FALSE
  OBVIOUS
<1> DEFINE Q == {i \in 0..m : i \notin P}
<1>1. Q \in SUBSET Nat /\ Q # {}
  OBVIOUS
<1>2. PICK x \in Q : \A y \in Q : x <= y
  BY <1>1, Least
<1>3. x # 0 /\ x \in 0..m /\ x \notin P
  BY <1>2
<1>4. x - 1 \in 0..(m - 1) /\ x - 1 \notin Q
  BY <1>2, <1>3
<1>5. x - 1 \in P
  BY <1>4
<1>6. (x - 1) + 1 \in P
  BY <1>4, <1>5
<1>7. (x - 1) + 1 = x
  BY <1>3
<1> QED BY <1>3, <1>6, <1>7

\* The number of buffers of n blocks.
LEMMA BuffersIs ==
  ASSUME NEW n \in Nat
  PROVE  /\ Buffers(n) \in Nat
         /\ n <= Buffers(n) * BufBlocks
         /\ n > 0 => Buffers(n) > 0 /\ (Buffers(n) - 1) * BufBlocks < n
         /\ n = 0 => Buffers(n) = 0
BY SizesAssumption DEF Buffers

\* Multiples of the buffer size.
LEMMA Times ==
  ASSUME NEW j \in Int, NEW k \in Int
  PROVE  /\ j * BufBlocks \in Int
         /\ (k - 1) * BufBlocks = k * BufBlocks - BufBlocks
         /\ (k + 1) * BufBlocks = k * BufBlocks + BufBlocks
         /\ j < k => j * BufBlocks + BufBlocks <= k * BufBlocks
         /\ j <= k => j * BufBlocks <= k * BufBlocks
<1>1. BufBlocks \in Nat \ {0}
  BY SizesAssumption
<1>2. j <= k => j * BufBlocks <= k * BufBlocks
  <2>1. \A d \in Nat, B \in Nat : d * B >= 0
    OBVIOUS
  <2>2. j <= k => (k - j) * BufBlocks >= 0
    BY <1>1, <2>1
  <2>3. (k - j) * BufBlocks = k * BufBlocks - j * BufBlocks
    BY <1>1
  <2> QED BY <1>1, <2>2, <2>3
<1>3. j < k => (j + 1) * BufBlocks <= k * BufBlocks
  <2>1. \A d \in Nat, B \in Nat : d * B >= 0
    OBVIOUS
  <2>2. j < k => (k - (j + 1)) * BufBlocks >= 0
    BY <1>1, <2>1
  <2>3. (k - (j + 1)) * BufBlocks = k * BufBlocks - (j + 1) * BufBlocks
    BY <1>1
  <2> QED BY <1>1, <2>2, <2>3
<1> QED BY <1>1, <1>2, <1>3

\* A merge whose buffers are all full deletes as many buffers as it counted.
LEMMA TakenBackIs ==
  ASSUME NEW old \in Nat, NEW n \in Nat, (old + n) % BufBlocks = 0
  PROVE  Buffers(old + n) - Buffers(old) = TakenBack(n)
<1> DEFINE q == (old + n) \div BufBlocks
           k == TakenBack(n)
           r == n % BufBlocks
           a == Buffers(old)
           c == Buffers(old + n)
<1>1. BufBlocks \in Nat \ {0}
  BY SizesAssumption
<1>2. q \in Nat /\ old + n = q * BufBlocks
  BY <1>1
<1>3. k \in Nat /\ r \in 0..(BufBlocks - 1) /\ n = k * BufBlocks + r
  BY <1>1 DEF TakenBack
<1>4. /\ a \in Nat /\ old <= a * BufBlocks
      /\ old > 0 => (a - 1) * BufBlocks < old
      /\ old = 0 => a = 0
  BY BuffersIs
<1>5. /\ c \in Nat /\ old + n <= c * BufBlocks
      /\ old + n > 0 => (c - 1) * BufBlocks < old + n
      /\ old + n = 0 => c = 0
  BY BuffersIs
<1> HIDE DEF q, k, r, a, c
<1>6. c = q
  <2>0. q \in Int /\ c \in Int /\ c - 1 \in Int /\ (q < c => q <= c - 1)
    BY <1>2, <1>5
  <2>1. /\ q * BufBlocks \in Int /\ c * BufBlocks \in Int /\ (c - 1) * BufBlocks \in Int
        /\ q < c => q * BufBlocks <= (c - 1) * BufBlocks
        /\ c < q => c * BufBlocks + BufBlocks <= q * BufBlocks
    <3>1. \A i, j \in Int : /\ j * BufBlocks \in Int
                            /\ i < j => i * BufBlocks + BufBlocks <= j * BufBlocks
                            /\ i <= j => i * BufBlocks <= j * BufBlocks
      BY Times
    <3> QED BY ONLY <2>0, <3>1
  <2>2. old + n = 0 => q = 0
    <3>1. 0 * BufBlocks = 0 /\ (0 < q => 0 * BufBlocks + BufBlocks <= q * BufBlocks)
      BY <1>1, <1>2, Times
    <3> QED BY <1>1, <1>2, <2>1, <3>1
  <2> QED BY <1>1, <1>2, <1>5, <2>1, <2>2
<1>7. k + a = q
  <2>1. (k + a) * BufBlocks = k * BufBlocks + a * BufBlocks
    BY <1>1, <1>3, <1>4
  <2>2. (k + a - 1) * BufBlocks = k * BufBlocks + (a - 1) * BufBlocks
    BY <1>1, <1>3, <1>4
  <2>3. /\ q * BufBlocks \in Int /\ k * BufBlocks \in Int /\ a * BufBlocks \in Int
        /\ (a - 1) * BufBlocks \in Int /\ (k + a) * BufBlocks \in Int
    BY <1>1, <1>2, <1>3, <1>4
  <2>4. /\ k + a < q => (k + a) * BufBlocks + BufBlocks <= q * BufBlocks
        /\ q < k + a => q * BufBlocks + BufBlocks <= (k + a) * BufBlocks
    <3>1. \A i, j \in Int : i < j => i * BufBlocks + BufBlocks <= j * BufBlocks
      BY Times
    <3>2. k + a \in Int /\ q \in Int
      BY <1>2, <1>3, <1>4
    <3> QED BY ONLY <3>1, <3>2
  <2>5. ~(k + a < q)
    BY <1>1, <1>2, <1>3, <1>4, <2>1, <2>3, <2>4
  <2>6. CASE old > 0
    <3>1. (a - 1) * BufBlocks = a * BufBlocks - BufBlocks
      BY <1>4, Times
    <3>2. ~(q < k + a)
      BY <1>1, <1>2, <1>3, <1>4, <2>1, <2>3, <2>4, <2>6, <3>1
    <3> QED BY <1>2, <1>3, <1>4, <2>5, <3>2
  <2>7. CASE old = 0
    <3>1. a = 0 /\ a * BufBlocks = 0
      BY <1>1, <1>4, <2>7
    <3>2. ~(q < k + a)
      BY <1>1, <1>2, <1>3, <2>1, <2>3, <2>4, <2>7, <3>1
    <3> QED BY <1>2, <1>3, <1>4, <2>5, <3>2
  <2> QED BY <2>6, <2>7
<1> QED BY <1>3, <1>4, <1>6, <1>7 DEF k, a, c

\* Buffers added for m more blocks, against the reserve of a log of whole buffers.
LEMMA ReserveCovers ==
  ASSUME NEW old \in Nat, NEW m \in Nat, m + Reserve <= LogSize
  PROVE  /\ Buffers(old + m) - Buffers(old) \in Nat
         /\ Buffers(old + m) - Buffers(old) <= Reserve
<1> DEFINE a == Buffers(old)
           c == Buffers(old + m)
<1>1. a \in Nat /\ c \in Nat /\ old <= a * BufBlocks /\ old + m <= c * BufBlocks
  BY BuffersIs
<1>2. old + m > 0 => (c - 1) * BufBlocks < old + m
  BY BuffersIs
<1>3. Reserve \in Nat /\ Reserve * BufBlocks = LogSize
  BY SizesAssumption DEF Reserve
<1>4. a <= c
  <2>1. CASE old = 0
    BY <1>1, <2>1, BuffersIs
  <2>2. CASE old > 0
    <3>1. (a - 1) * BufBlocks < old
      BY <2>2, BuffersIs
    <3>2. SUFFICES ASSUME c < a PROVE FALSE
      BY <1>1
    <3>3. c * BufBlocks <= (a - 1) * BufBlocks
      BY <1>1, <3>2, Times
    <3>4. c * BufBlocks \in Int /\ (a - 1) * BufBlocks \in Int
      BY <1>1, SizesAssumption
    <3> HIDE DEF a, c
    <3> QED BY <1>1, <3>1, <3>3, <3>4
  <2> QED BY <2>1, <2>2
<1>5. c - a <= Reserve
  <2> SUFFICES ASSUME c - a > Reserve PROVE FALSE
    BY <1>1, <1>3
  <2>1. a + Reserve <= c - 1
    BY <1>1, <1>3
  <2>2. (a + Reserve) * BufBlocks <= (c - 1) * BufBlocks
    BY <1>1, <1>3, <2>1, Times
  <2>3. (a + Reserve) * BufBlocks = a * BufBlocks + LogSize
    BY <1>1, <1>3, SizesAssumption
  <2>4. old + m > 0
    BY <1>1, <1>3, <2>1, BuffersIs
  <2>5. a * BufBlocks + LogSize < old + m
    BY <1>1, <1>2, <2>2, <2>3, <2>4, SizesAssumption, Times
  <2> QED BY <1>1, <1>3, <2>5, SizesAssumption, Times
<1> QED BY <1>1, <1>3, <1>4, <1>5
-----------------------------------------------------------------------------
(* Sums of transaction sizes.                                              *)

\* The fields of a transaction in a list, with their types.
LEMMA TransFields ==
  ASSUME NEW T \in Seq(Transaction), NEW i \in 1..Len(T)
  PROVE  /\ T[i] \in Transaction
         /\ T[i].count \in Nat /\ T[i].start \in Nat /\ T[i].id \in Nat
         /\ T[i].written \in Nat /\ T[i].pending \in Int
         /\ T[i].logged \in BOOLEAN /\ T[i].ondisk \in BOOLEAN
         /\ T[i].blocks \in Seq([blk : Block, val : Nat])
         /\ Len(T[i].blocks) \in Nat
<1>1. T[i] \in Transaction
  OBVIOUS
<1>2. T[i].logged \in BOOLEAN /\ T[i].ondisk \in BOOLEAN
  BY <1>1, Zenon DEF Transaction
<1>3. T[i].blocks \in Seq([blk : Block, val : Nat])
  BY <1>1 DEF Transaction
<1>4. Len(T[i].blocks) \in Nat
  BY <1>3
<1>5. /\ T[i].count \in Nat /\ T[i].start \in Nat /\ T[i].id \in Nat
      /\ T[i].written \in Nat /\ T[i].pending \in Int
  BY <1>1 DEF Transaction
<1> QED BY <1>1, <1>2, <1>3, <1>4, <1>5

SumsOf(f, T, m) ==
  /\ f \in [1..(m + 1) -> Nat]
  /\ f[1] = 0
  /\ \A i \in 1..m : f[i + 1] = f[i] + T[i].count

\* The running sums of the counts of a list exist.
LEMMA SumsExist ==
  ASSUME NEW T \in Seq(Transaction)
  PROVE  \E f : SumsOf(f, T, Len(T))
<1> DEFINE P == {n \in Nat : \E f : SumsOf(f, T, n)}
<1>1. 0 \in P
  <2>1. SumsOf([i \in 1..(0 + 1) |-> 0], T, 0)
    BY DEF SumsOf
  <2> QED BY <2>1
<1>2. \A n \in 0..(Len(T) - 1) : n \in P => n + 1 \in P
  <2> SUFFICES ASSUME NEW n \in 0..(Len(T) - 1), NEW f, SumsOf(f, T, n)
               PROVE  \E g : SumsOf(g, T, n + 1)
    OBVIOUS
  <2> DEFINE g == [i \in 1..((n + 1) + 1) |-> IF i = n + 2 THEN f[n + 1] + T[n + 1].count ELSE f[i]]
  <2>1. T[n + 1].count \in Nat
    BY TransFields
  <2>2. g \in [1..((n + 1) + 1) -> Nat]
    BY <2>1 DEF SumsOf
  <2>3. g[1] = 0
    BY DEF SumsOf
  <2>4. \A i \in 1..(n + 1) : g[i + 1] = g[i] + T[i].count
    BY DEF SumsOf
  <2>5. SumsOf(g, T, n + 1)
    BY <2>2, <2>3, <2>4 DEF SumsOf
  <2> QED BY <2>5
<1>3. Len(T) \in P
  <2> HIDE DEF P
  <2>1. Len(T) \in Nat /\ Len(T) \in 0..Len(T)
    OBVIOUS
  <2> QED BY <1>1, <1>2, <2>1, UpTo
<1> QED BY <1>3

\* Lists whose first m counts agree have the same first sums.
LEMMA SumsUnique ==
  ASSUME NEW T, NEW U, NEW m \in Nat, NEW f, NEW g, NEW k \in Nat, k >= m, NEW l \in Nat, l >= m,
         SumsOf(f, T, k), SumsOf(g, U, l),
         \A i \in 1..m : T[i].count = U[i].count
  PROVE  \A i \in 1..(m + 1) : f[i] = g[i]
<1> DEFINE P == {i \in Nat : f[i + 1] = g[i + 1]}
<1>1. 0 \in P
  BY DEF SumsOf
<1>2. \A i \in 0..(m - 1) : i \in P => i + 1 \in P
  BY DEF SumsOf
<1>3. \A i \in 0..m : i \in P
  <2> HIDE DEF P
  <2> QED BY <1>1, <1>2, UpTo
<1>4. \A i \in 1..(m + 1) : i - 1 \in P
  <2> HIDE DEF P
  <2> QED BY <1>3
<1> QED BY <1>4

\* ... so the sums of a list are determined.
LEMMA SumsOnly ==
  ASSUME NEW T, NEW m \in Nat, NEW f, NEW g, SumsOf(f, T, m), SumsOf(g, T, m)
  PROVE  \A i \in 1..(m + 1) : f[i] = g[i]
<1> DEFINE P == {i \in Nat : f[i + 1] = g[i + 1]}
<1>1. 0 \in P
  BY DEF SumsOf
<1>2. \A i \in 0..(m - 1) : i \in P => i + 1 \in P
  BY DEF SumsOf
<1>3. \A i \in 1..(m + 1) : i - 1 \in P
  <2> HIDE DEF P
  <2> QED BY <1>1, <1>2, UpTo
<1> QED BY <1>3

\* What LogSums computes.
LEMMA SumsAre ==
  ASSUME NEW T \in Seq(Transaction)
  PROVE  SumsOf(LogSums(T), T, Len(T))
<1>1. PICK f : SumsOf(f, T, Len(T))
  BY SumsExist
<1>2. f = [i \in 1..(Len(T) + 1) |-> IF i = 1 THEN 0 ELSE f[i - 1] + T[i - 1].count]
  BY <1>1 DEF SumsOf
<1>3. LogSums(T) = [i \in 1..(Len(T) + 1) |->
                      IF i = 1 THEN 0 ELSE LogSums(T)[i - 1] + T[i - 1].count]
  BY <1>2 DEF LogSums
<1> DEFINE g == LogSums(T)
<1>4. g[1] = 0 /\ \A i \in 1..Len(T) : g[i + 1] = g[i] + T[i].count
  <2> HIDE DEF g
  <2>1. g = [i \in 1..(Len(T) + 1) |-> IF i = 1 THEN 0 ELSE g[i - 1] + T[i - 1].count]
    BY <1>3 DEF g
  <2>2. g[1] = 0
    BY <2>1
  <2>3. \A i \in 1..Len(T) : g[i + 1] = g[i] + T[i].count
    BY <2>1
  <2> QED BY <2>2, <2>3
<1>5. DOMAIN g = 1..(Len(T) + 1)
  BY <1>3
<1> DEFINE P == {i \in Nat : g[i + 1] \in Nat}
<1>6. \A i \in 0..Len(T) : i \in P
  <2> HIDE DEF g
  <2>1. 0 \in P
    BY <1>4
  <2>2. \A i \in 0..(Len(T) - 1) : i \in P => i + 1 \in P
    <3> SUFFICES ASSUME NEW i \in 0..(Len(T) - 1), g[i + 1] \in Nat
                 PROVE  g[(i + 1) + 1] \in Nat
      OBVIOUS
    <3>1. i + 1 \in 1..Len(T)
      OBVIOUS
    <3>2. T[i + 1].count \in Nat
      BY <3>1, TransFields
    <3>3. g[(i + 1) + 1] = g[i + 1] + T[i + 1].count
      BY <1>4, <3>1
    <3> QED BY <3>2, <3>3
  <2> HIDE DEF P
  <2>3. Len(T) \in Nat
    OBVIOUS
  <2> QED BY <2>1, <2>2, <2>3, UpTo
<1>7. \A i \in 1..(Len(T) + 1) : g[i] \in Nat
  <2> HIDE DEF g
  <2>1. \A i \in 1..(Len(T) + 1) : i - 1 \in P
    <3> HIDE DEF P
    <3> QED BY <1>6
  <2> QED BY <2>1
<1>8. g = [i \in DOMAIN g |-> g[i]]
  BY <1>3
<1> HIDE DEF g
<1>9. g \in [1..(Len(T) + 1) -> Nat]
  BY <1>5, <1>7, <1>8
<1> QED BY <1>4, <1>9 DEF SumsOf, g

\* The sums of lists whose first m transactions have the same sizes.
LEMMA SumsSame ==
  ASSUME NEW T \in Seq(Transaction), NEW U \in Seq(Transaction),
         NEW m \in Nat, m <= Len(T), m <= Len(U),
         \A i \in 1..m : T[i].count = U[i].count
  PROVE  \A i \in 1..(m + 1) : LogSums(T)[i] = LogSums(U)[i]
<1>1. SumsOf(LogSums(T), T, Len(T)) /\ SumsOf(LogSums(U), U, Len(U))
  BY SumsAre
<1>2. Len(T) \in Nat /\ Len(U) \in Nat
  OBVIOUS
<1> QED BY <1>1, <1>2, SumsUnique, SMTT(30)

\* LogSums starts at zero and each transaction adds its count.
LEMMA SumsStep ==
  ASSUME NEW T \in Seq(Transaction)
  PROVE  /\ LogSums(T)[1] = 0
         /\ \A i \in 1..(Len(T) + 1) : LogSums(T)[i] \in Nat
         /\ \A i \in 1..Len(T) : LogSums(T)[i + 1] = LogSums(T)[i] + T[i].count
BY SumsAre DEF SumsOf

\* Sums only grow.
LEMMA SumsGrow ==
  ASSUME NEW T \in Seq(Transaction), NEW j \in 1..(Len(T) + 1), NEW i \in 1..j
  PROVE  LogSums(T)[i] <= LogSums(T)[j]
<1> DEFINE P == {d \in Nat : i + d <= Len(T) + 1 => LogSums(T)[i] <= LogSums(T)[i + d]}
<1>1. 0 \in P
  BY SumsStep
<1>2. \A d \in 0..((j - i) - 1) : d \in P => d + 1 \in P
  <2> SUFFICES ASSUME NEW d \in 0..((j - i) - 1), d \in P
               PROVE  LogSums(T)[i] <= LogSums(T)[i + (d + 1)]
    OBVIOUS
  <2>1. i + d \in 1..Len(T) /\ i + (d + 1) = (i + d) + 1
    OBVIOUS
  <2>2. LogSums(T)[(i + d) + 1] = LogSums(T)[i + d] + T[i + d].count
    BY <2>1, SumsStep
  <2>3. T[i + d].count \in Nat /\ LogSums(T)[i + d] \in Nat /\ LogSums(T)[i] \in Nat
    BY <2>1, TransFields, SumsStep
  <2> QED BY <2>1, <2>2, <2>3
<1>3. j - i \in P
  <2> HIDE DEF P
  <2>1. j - i \in Nat /\ j - i \in 0..(j - i)
    OBVIOUS
  <2> QED BY <1>1, <1>2, <2>1, UpTo
<1> QED BY <1>3

\* The sums of the list without its oldest transaction.
LEMMA SumsTail ==
  ASSUME NEW T \in Seq(Transaction), T # <<>>
  PROVE  /\ Tail(T) \in Seq(Transaction) /\ Len(Tail(T)) = Len(T) - 1
         /\ \A i \in 1..Len(T) : LogSums(Tail(T))[i] = LogSums(T)[i + 1] - T[1].count
<1>1. Tail(T) \in Seq(Transaction) /\ Len(Tail(T)) = Len(T) - 1
      /\ \A i \in 1..(Len(T) - 1) : Tail(T)[i] = T[i + 1]
  OBVIOUS
<1> DEFINE c == T[1].count
           f == [i \in 1..((Len(T) - 1) + 1) |-> LogSums(T)[i + 1] - c]
<1>2. c \in Nat /\ Len(T) \in Nat \ {0}
  BY TransFields
<1>3. \A i \in 1..Len(T) : LogSums(T)[i + 1] - c \in Nat
  <2> TAKE i \in 1..Len(T)
  <2>1. LogSums(T)[2] = c
    <3>1. LogSums(T)[1 + 1] = LogSums(T)[1] + T[1].count
      BY <1>2, SumsStep
    <3> QED BY <1>2, <3>1, SumsStep
  <2>2. LogSums(T)[2] <= LogSums(T)[i + 1]
    BY <1>2, SumsGrow
  <2>3. LogSums(T)[i + 1] \in Nat
    BY <1>2, SumsStep
  <2> HIDE DEF c
  <2> QED BY <1>2, <2>1, <2>2, <2>3
<1>4. SumsOf(f, Tail(T), Len(T) - 1)
  <2>1. f \in [1..((Len(T) - 1) + 1) -> Nat]
    <3> HIDE DEF c
    <3> QED BY <1>2, <1>3
  <2>2. f[1] = 0
    <3>1. LogSums(T)[1 + 1] = LogSums(T)[1] + T[1].count
      BY <1>2, SumsStep
    <3> QED BY <1>2, <3>1, SumsStep
  <2>3. \A i \in 1..(Len(T) - 1) : f[i + 1] = f[i] + Tail(T)[i].count
    <3> TAKE i \in 1..(Len(T) - 1)
    <3>1. LogSums(T)[(i + 1) + 1] = LogSums(T)[i + 1] + T[i + 1].count
      BY <1>2, SumsStep
    <3>2. LogSums(T)[i + 1] \in Nat /\ T[i + 1].count \in Nat
      BY <1>2, SumsStep, TransFields
    <3>3. f[i + 1] = LogSums(T)[(i + 1) + 1] - c /\ f[i] = LogSums(T)[i + 1] - c
      BY <1>2
    <3> HIDE DEF f, c
    <3> QED BY <1>1, <1>2, <3>1, <3>2, <3>3
  <2> HIDE DEF f
  <2> QED BY <2>1, <2>2, <2>3 DEF SumsOf
<1>5. SumsOf(LogSums(Tail(T)), Tail(T), Len(T) - 1)
  BY <1>1, SumsAre
<1>6. \A i \in 1..((Len(T) - 1) + 1) : LogSums(Tail(T))[i] = f[i]
  <2> HIDE DEF f
  <2> DEFINE m == Len(T) - 1
             U == Tail(T)
  <2>1. m \in Nat /\ m >= m
    BY <1>2
  <2>2. SumsOf(f, U, m) /\ SumsOf(LogSums(U), U, m)
    BY <1>4, <1>5
  <2> DEFINE g == LogSums(U)
  <2> HIDE DEF m, U, g
  <2>3. SumsOf(g, U, m)
    BY <2>2 DEF g
  <2>4. \A i \in 1..(m + 1) : g[i] = f[i]
    BY <2>1, <2>2, <2>3, SumsOnly
  <2> QED BY <2>4 DEF m, U, g
<1> QED BY <1>1, <1>2, <1>6
-----------------------------------------------------------------------------
(* Positions in the log, while the log is in its area.                     *)

Pos(s, i) == LogPos(s, 1, LogSize, i)

\* A position of the ring is a block of the log.
LEMMA PosIn ==
  ASSUME NEW s \in 1..LogSize, NEW i \in 0..LogSize
  PROVE  Pos(s, i) \in 1..LogSize
BY SizesAssumption DEF Pos, LogPos

\* Positions add up.
LEMMA PosSum ==
  ASSUME NEW s \in 1..LogSize, NEW a \in Nat, NEW b \in Nat, a + b <= LogSize
  PROVE  Pos(Pos(s, a), b) = Pos(s, a + b)
BY SizesAssumption DEF Pos, LogPos

\* The first position is the start.
LEMMA PosZero ==
  ASSUME NEW s \in 1..LogSize
  PROVE  Pos(s, 0) = s
BY SizesAssumption DEF Pos, LogPos

\* Less than a turn apart, two positions are different blocks.
LEMMA PosOne ==
  ASSUME NEW s \in 1..LogSize, NEW i \in 0..(LogSize - 1), NEW j \in 0..(LogSize - 1),
         Pos(s, i) = Pos(s, j)
  PROVE  i = j
BY SizesAssumption DEF Pos, LogPos

\* The log of a mounted volume that was not moved.
LEMMA PosHere ==
  ASSUME nLoggStart = 1
  PROVE  /\ nLoggEnd = LogSize
         /\ \A s, i : LogPos(s, nLoggStart, nLoggEnd, i) = Pos(s, i)
BY SizesAssumption DEF nLoggEnd, Pos
-----------------------------------------------------------------------------
(* The buffers of a transaction.                                           *)

Copies == Seq([blk : Block, val : Nat])

\* A copy in a transaction is a block number and a content.
LEMMA CopyIn ==
  ASSUME NEW bs \in Copies, NEW i \in 1..Len(bs)
  PROVE  bs[i] \in [blk : Block, val : Nat] /\ bs[i].blk \in Block /\ bs[i].val \in Nat
<1>1. bs[i] \in [blk : Block, val : Nat]
  BY ElementOfSeq DEF Copies
<1> QED BY <1>1

\* The number of blocks in the buffers newer than the k-th one.
LEMMA NewerIs ==
  ASSUME NEW bs \in Copies, NEW j \in Nat, NEW k \in Nat
  PROVE  /\ NewerBlocks(bs, k) \in Nat
         /\ j <= k => NewerBlocks(bs, k) <= NewerBlocks(bs, j)
         /\ NewerBlocks(bs, 0) = Len(bs)
         /\ NewerBlocks(bs, Buffers(Len(bs))) = 0
<1>1. Len(bs) \in Nat
  BY DEF Copies
<1>2. j * BufBlocks \in Int /\ k * BufBlocks \in Int /\ 0 * BufBlocks = 0
  BY SizesAssumption
<1>3. j <= k => j * BufBlocks <= k * BufBlocks
  BY Times
<1>4. k * BufBlocks >= 0
  <2>1. 0 <= k => 0 * BufBlocks <= k * BufBlocks
    BY Times
  <2> QED BY <1>2, <2>1
<1>5. Len(bs) <= Buffers(Len(bs)) * BufBlocks /\ Buffers(Len(bs)) * BufBlocks \in Int
  BY <1>1, BuffersIs, SizesAssumption
<1> QED BY <1>1, <1>2, <1>3, <1>4, <1>5 DEF NewerBlocks

\* Buffer k holds the blocks from (k - 1) * BufBlocks + 1 on.
LEMMA PartIs ==
  ASSUME NEW bs \in Copies, NEW k \in 1..Buffers(Len(bs))
  PROVE  /\ BufferPart(bs, k) \in Copies
         /\ Len(BufferPart(bs, k)) = NewerBlocks(bs, k - 1) - NewerBlocks(bs, k)
         /\ Len(BufferPart(bs, k)) \in 1..BufBlocks
         /\ (k - 1) * BufBlocks \in Nat
         /\ (k - 1) * BufBlocks + Len(BufferPart(bs, k)) <= Len(bs)
         /\ \A i \in 1..Len(BufferPart(bs, k)) :
              BufferPart(bs, k)[i] = bs[(k - 1) * BufBlocks + i]
<1> DEFINE n == Len(bs)
           lo == (k - 1) * BufBlocks
           hi == k * BufBlocks
           m  == IF hi > n THEN n ELSE hi
<1>1. n \in Nat /\ Buffers(n) \in Nat
  BY BuffersIs DEF Copies
<1>2. lo \in Int /\ hi \in Int /\ hi = lo + BufBlocks /\ BufBlocks \in Nat \ {0}
  BY <1>1, Times, SizesAssumption
<1>3. lo >= 0
  <2>1. 0 <= k - 1 => 0 * BufBlocks <= (k - 1) * BufBlocks
    BY <1>1, Times
  <2>2. 0 * BufBlocks = 0
    BY SizesAssumption
  <2> QED BY <1>1, <2>1, <2>2
<1>4. lo < n
  <2>1. n > 0 => (Buffers(n) - 1) * BufBlocks < n
    BY <1>1, BuffersIs
  <2>2. n > 0
    BY <1>1, BuffersIs
  <2>3. k - 1 <= Buffers(n) - 1 => (k - 1) * BufBlocks <= (Buffers(n) - 1) * BufBlocks
    BY <1>1, Times
  <2>4. (Buffers(n) - 1) * BufBlocks \in Int
    BY <1>1, SizesAssumption
  <2> QED BY <1>1, <1>2, <2>1, <2>2, <2>3, <2>4
<1>5. NewerBlocks(bs, k - 1) = n - lo
  BY <1>1, <1>2, <1>4 DEF NewerBlocks
<1>6. NewerBlocks(bs, k) = n - m
  <2>1. NewerBlocks(bs, k) = IF hi < n THEN n - hi ELSE 0
    BY DEF NewerBlocks
  <2> HIDE DEF hi, n
  <2> QED BY <1>1, <1>2, <2>1
<1>7. BufferPart(bs, k) = SubSeq(bs, lo + 1, m)
  BY DEF BufferPart
<1> HIDE DEF lo, hi, n
<1>8. m \in Nat /\ lo + 1 \in 1..(n + 1) /\ m \in (lo + 1)..n /\ m - lo \in 1..BufBlocks
  BY <1>1, <1>2, <1>3, <1>4
<1> HIDE DEF m
<1>9. /\ SubSeq(bs, lo + 1, m) \in Copies
      /\ Len(SubSeq(bs, lo + 1, m)) = m - lo
      /\ \A i \in 1..(m - lo) : SubSeq(bs, lo + 1, m)[i] = bs[lo + i]
  <2>1. \A i \in (lo + 1)..m : bs[i] \in [blk : Block, val : Nat]
    <3> TAKE i \in (lo + 1)..m
    <3>1. i \in 1..Len(bs)
      BY <1>8, <1>1, <1>2, <1>3 DEF n
    <3> QED BY <3>1, CopyIn
  <2>2. Len(SubSeq(bs, lo + 1, m)) = m - lo
    BY <1>8, <1>1, <1>3, <1>2 DEF Copies, n
  <2>3. \A i \in 1..(m - lo) : SubSeq(bs, lo + 1, m)[i] = bs[lo + i]
    BY <1>8, <1>1, <1>3, <1>2 DEF Copies, n
  <2>4. SubSeq(bs, lo + 1, m) \in Copies
    BY <2>1, <1>8, <1>1, <1>3, <1>2 DEF Copies, n
  <2> QED BY <2>2, <2>3, <2>4
<1>10. Len(BufferPart(bs, k)) = m - lo
  BY <1>7, <1>9
<1>11. NewerBlocks(bs, k - 1) - NewerBlocks(bs, k) = m - lo
  BY <1>1, <1>2, <1>5, <1>6, <1>8
<1>12. lo \in Nat /\ lo + (m - lo) <= n
  BY <1>1, <1>2, <1>3, <1>8
<1>13. \A i \in 1..(m - lo) : BufferPart(bs, k)[i] = bs[lo + i]
  BY <1>7, <1>9
<1> QED BY <1>7, <1>8, <1>9, <1>10, <1>11, <1>12, <1>13 DEF lo, n

\* Among numbers that fall from n to 0, p lies between one pair of neighbours.
LEMMA Between ==
  ASSUME NEW N \in Nat, NEW f \in [0..N -> Nat], f[N] = 0,
         NEW p \in 1..f[0]
  PROVE  \E k \in 1..N : f[k] < p /\ p <= f[k - 1]
<1> DEFINE Q == {k \in 0..N : f[k] < p}
<1>1. Q \in SUBSET Nat /\ N \in Q
  OBVIOUS
<1>2. PICK k \in Q : \A l \in Q : k <= l
  BY <1>1, Least
<1>3. k # 0 /\ k \in 1..N
  BY <1>2
<1>4. k - 1 \notin Q
  BY <1>2, <1>3
<1>5. f[k - 1] \in Nat /\ ~(f[k - 1] < p)
  BY <1>3, <1>4
<1> QED BY <1>2, <1>3, <1>5

\* Every block handed over is in some buffer ...
LEMMA BufferAt ==
  ASSUME NEW bs \in Copies, NEW p \in 1..Len(bs)
  PROVE  \E k \in 1..Buffers(Len(bs)) : NewerBlocks(bs, k) < p /\ p <= NewerBlocks(bs, k - 1)
<1> DEFINE N == Buffers(Len(bs))
           f == [k \in 0..N |-> NewerBlocks(bs, k)]
<1>1. Len(bs) \in Nat /\ N \in Nat
  BY BuffersIs DEF Copies
<1>2. f \in [0..N -> Nat] /\ f[N] = 0 /\ f[0] = Len(bs)
  BY <1>1, NewerIs
<1>3. \E k \in 1..N : f[k] < p /\ p <= f[k - 1]
  <2> HIDE DEF f, N
  <2> QED BY <1>1, <1>2, Between
<1> QED BY <1>1, <1>3

\* ... and in only one.
LEMMA BufferOne ==
  ASSUME NEW bs \in Copies, NEW p \in Nat,
         NEW k \in 1..Buffers(Len(bs)), NewerBlocks(bs, k) < p, p <= NewerBlocks(bs, k - 1),
         NEW l \in 1..Buffers(Len(bs)), NewerBlocks(bs, l) < p, p <= NewerBlocks(bs, l - 1)
  PROVE  k = l
<1>1. Buffers(Len(bs)) \in Nat
  BY BuffersIs DEF Copies
<1>2. k <= l - 1 => NewerBlocks(bs, l - 1) <= NewerBlocks(bs, k)
  BY <1>1, NewerIs
<1>3. l <= k - 1 => NewerBlocks(bs, k - 1) <= NewerBlocks(bs, l)
  BY <1>1, NewerIs
<1>4. /\ NewerBlocks(bs, k) \in Nat /\ NewerBlocks(bs, l) \in Nat
      /\ NewerBlocks(bs, k - 1) \in Nat /\ NewerBlocks(bs, l - 1) \in Nat
  BY <1>1, NewerIs
<1> QED BY <1>1, <1>2, <1>3, <1>4

\* Where the order by buffers takes its blocks from.
LEMMA OrderAt ==
  ASSUME NEW bs \in Copies, NEW p \in 1..Len(bs),
         NEW k \in 1..Buffers(Len(bs)), NewerBlocks(bs, k) < p, p <= NewerBlocks(bs, k - 1)
  PROVE  /\ (k - 1) * BufBlocks + (p - NewerBlocks(bs, k)) \in 1..Len(bs)
         /\ BufferOrder(bs)[p] = bs[(k - 1) * BufBlocks + (p - NewerBlocks(bs, k))]
         /\ (k - 1) * BufBlocks \in Nat
         /\ p - NewerBlocks(bs, k) \in 1..BufBlocks
<1> DEFINE c == CHOOSE l \in 1..Buffers(Len(bs)) :
                  NewerBlocks(bs, l) < p /\ p <= NewerBlocks(bs, l - 1)
<1>0. Len(bs) \in Nat
  BY DEF Copies
<1>1. c \in 1..Buffers(Len(bs)) /\ NewerBlocks(bs, c) < p /\ p <= NewerBlocks(bs, c - 1)
  OBVIOUS
<1>2. c = k
  <2> HIDE DEF c
  <2> QED BY <1>0, <1>1, BufferOne
<1>3. BufferOrder(bs)[p] = BufferPart(bs, c)[p - NewerBlocks(bs, c)]
  BY DEF BufferOrder
<1>4. NewerBlocks(bs, k) \in Nat /\ NewerBlocks(bs, k - 1) \in Nat
  BY <1>0, BuffersIs, NewerIs
<1>5. p - NewerBlocks(bs, k) \in 1..Len(BufferPart(bs, k))
  BY <1>0, <1>4, PartIs
<1> HIDE DEF c
<1>6. BufferOrder(bs)[p] = bs[(k - 1) * BufBlocks + (p - NewerBlocks(bs, k))]
  BY <1>2, <1>3, <1>5, PartIs
<1>7. /\ (k - 1) * BufBlocks \in Nat /\ Len(BufferPart(bs, k)) \in 1..BufBlocks
      /\ (k - 1) * BufBlocks + Len(BufferPart(bs, k)) <= Len(bs)
  BY PartIs
<1> QED BY <1>0, <1>4, <1>5, <1>6, <1>7, SizesAssumption

\* What is handed over to the cache is a block of the transaction ...
LEMMA OrderIn ==
  ASSUME NEW bs \in Copies, NEW p \in 1..Len(bs)
  PROVE  /\ BufferOrder(bs)[p] \in [blk : Block, val : Nat]
         /\ \E s \in 1..Len(bs) : BufferOrder(bs)[p] = bs[s]
<1>1. PICK k \in 1..Buffers(Len(bs)) : NewerBlocks(bs, k) < p /\ p <= NewerBlocks(bs, k - 1)
  BY BufferAt
<1> DEFINE s == (k - 1) * BufBlocks + (p - NewerBlocks(bs, k))
<1>2. s \in 1..Len(bs) /\ BufferOrder(bs)[p] = bs[s]
  BY <1>1, OrderAt
<1> HIDE DEF s
<1>3. bs[s] \in [blk : Block, val : Nat]
  BY <1>2, CopyIn
<1> QED BY <1>2, <1>3

\* ... and every block of it is handed over.
LEMMA OrderOnto ==
  ASSUME NEW bs \in Copies, NEW s \in 1..Len(bs)
  PROVE  \E p \in 1..Len(bs) : BufferOrder(bs)[p] = bs[s]
<1> DEFINE k == Buffers(s)
           lo == (k - 1) * BufBlocks
           x == NewerBlocks(bs, k)
           y == NewerBlocks(bs, k - 1)
           p == s - lo + x
<1>0. Len(bs) \in Nat /\ s \in Nat \ {0}
  BY DEF Copies
<1>1. k \in Nat \ {0} /\ s <= k * BufBlocks /\ lo < s
  BY <1>0, BuffersIs
<1>2. k <= Buffers(Len(bs))
  <2>1. Buffers(Len(bs)) \in Nat /\ Len(bs) <= Buffers(Len(bs)) * BufBlocks
    BY <1>0, BuffersIs
  <2>2. SUFFICES ASSUME Buffers(Len(bs)) <= k - 1 PROVE FALSE
    BY <1>1, <2>1
  <2>3. Buffers(Len(bs)) * BufBlocks <= lo
    <3>1. k - 1 \in Int
      BY <1>1
    <3> HIDE DEF k
    <3>2. Buffers(Len(bs)) <= k - 1 => Buffers(Len(bs)) * BufBlocks <= (k - 1) * BufBlocks
      BY <2>1, <3>1, Times
    <3> QED BY <2>2, <3>2
  <2>4. lo \in Int /\ Buffers(Len(bs)) * BufBlocks \in Int
    BY <1>1, <2>1, SizesAssumption
  <2> HIDE DEF lo, k
  <2> QED BY <1>0, <1>1, <2>1, <2>3, <2>4
<1>3. k \in 1..Buffers(Len(bs)) /\ Buffers(Len(bs)) \in Nat
  BY <1>0, <1>1, <1>2, BuffersIs
<1>4. lo \in Int /\ k * BufBlocks = lo + BufBlocks /\ BufBlocks \in Nat \ {0}
  BY <1>1, Times, SizesAssumption
<1>5. y = Len(bs) - lo
  BY <1>0, <1>1, <1>4 DEF NewerBlocks
<1>6. x = IF lo + BufBlocks < Len(bs) THEN Len(bs) - (lo + BufBlocks) ELSE 0
  BY <1>4 DEF NewerBlocks
<1>7. s <= lo + BufBlocks /\ lo < s
  BY <1>1, <1>4
<1>8. lo >= 0
  <2>1. k \in 1..Buffers(Len(bs))
    BY <1>3
  <2> HIDE DEF k
  <2> QED BY <2>1, PartIs
<1> HIDE DEF k, lo, x, y
<1>9. x < p /\ p <= y /\ p \in 1..Len(bs) /\ lo + (p - x) = s
  BY <1>0, <1>3, <1>4, <1>5, <1>6, <1>7, <1>8
<1> HIDE DEF p
<1>10. BufferOrder(bs)[p] = bs[lo + (p - x)]
  <2>1. NewerBlocks(bs, k) < p /\ p <= NewerBlocks(bs, k - 1)
    BY <1>9 DEF x, y
  <2>2. BufferOrder(bs)[p] = bs[(k - 1) * BufBlocks + (p - NewerBlocks(bs, k))]
    BY <1>3, <1>9, <2>1, OrderAt
  <2> QED BY <2>2 DEF lo, x
<1> QED BY <1>9, <1>10

\* Blocks that are there once are handed over once.
LEMMA OrderOnce ==
  ASSUME NEW bs \in Copies,
         \A i, j \in 1..Len(bs) : bs[i].blk = bs[j].blk => i = j,
         NEW p \in 1..Len(bs), NEW q \in 1..Len(bs),
         BufferOrder(bs)[p].blk = BufferOrder(bs)[q].blk
  PROVE  p = q
<1>1. PICK k \in 1..Buffers(Len(bs)) : NewerBlocks(bs, k) < p /\ p <= NewerBlocks(bs, k - 1)
  BY BufferAt
<1>2. PICK l \in 1..Buffers(Len(bs)) : NewerBlocks(bs, l) < q /\ q <= NewerBlocks(bs, l - 1)
  BY BufferAt
<1> DEFINE d == p - NewerBlocks(bs, k)
           e == q - NewerBlocks(bs, l)
           x == (k - 1) * BufBlocks
           y == (l - 1) * BufBlocks
<1>3. /\ x + d \in 1..Len(bs) /\ BufferOrder(bs)[p] = bs[x + d]
      /\ x \in Nat /\ d \in 1..BufBlocks
  BY <1>1, OrderAt
<1>4. /\ y + e \in 1..Len(bs) /\ BufferOrder(bs)[q] = bs[y + e]
      /\ y \in Nat /\ e \in 1..BufBlocks
  BY <1>2, OrderAt
<1>5. k \in Nat /\ l \in Nat /\ Buffers(Len(bs)) \in Nat
  BY BuffersIs DEF Copies
<1>6. /\ k - 1 < l - 1 => x + BufBlocks <= y
      /\ l - 1 < k - 1 => y + BufBlocks <= x
  <2>1. k - 1 < l - 1 => (k - 1) * BufBlocks + BufBlocks <= (l - 1) * BufBlocks
    BY <1>5, Times
  <2>2. l - 1 < k - 1 => (l - 1) * BufBlocks + BufBlocks <= (k - 1) * BufBlocks
    BY <1>5, Times
  <2> QED BY <2>1, <2>2
<1>7. NewerBlocks(bs, k) \in Nat /\ NewerBlocks(bs, l) \in Nat /\ BufBlocks \in Nat
  BY <1>5, NewerIs, SizesAssumption
<1>8. d = p - NewerBlocks(bs, k) /\ e = q - NewerBlocks(bs, l)
  OBVIOUS
<1> HIDE DEF d, e, x, y
<1>9. x + d = y + e
  BY <1>3, <1>4
<1>10. k = l
  BY <1>3, <1>4, <1>5, <1>6, <1>7, <1>9
<1>11. x = y
  BY <1>10 DEF x, y
<1>12. d = e
  BY <1>3, <1>4, <1>9, <1>11
<1> QED BY <1>7, <1>8, <1>10, <1>12
-----------------------------------------------------------------------------
(* The log of a transaction.                                               *)

DiskBlock == [val : Int, idx : Seq(Block)]

\* Where the record of a buffer starts in the log of its transaction.
LEMMA BeforeIs ==
  ASSUME NEW bs \in Copies, NEW k \in 0..Buffers(Len(bs))
  PROVE  /\ LogBefore(bs, k) \in Nat
         /\ k = 0 => LogBefore(bs, k) = Len(bs) + Buffers(Len(bs))
         /\ k = Buffers(Len(bs)) => LogBefore(bs, k) = 0
         /\ k > 0 => LogBefore(bs, k - 1) = LogBefore(bs, k) + 1 + Len(BufferPart(bs, k))
<1>1. Len(bs) \in Nat /\ Buffers(Len(bs)) \in Nat
  BY BuffersIs DEF Copies
<1>2. NewerBlocks(bs, k) \in Nat /\ NewerBlocks(bs, 0) = Len(bs)
      /\ NewerBlocks(bs, Buffers(Len(bs))) = 0
  BY <1>1, NewerIs
<1>3. k > 0 => /\ NewerBlocks(bs, k - 1) \in Nat
               /\ Len(BufferPart(bs, k)) = NewerBlocks(bs, k - 1) - NewerBlocks(bs, k)
  BY <1>1, NewerIs, PartIs
<1> DEFINE N == Buffers(Len(bs))
           n == Len(bs)
<1>4. LogBefore(bs, k) = NewerBlocks(bs, k) + N - k
      /\ LogBefore(bs, k - 1) = NewerBlocks(bs, k - 1) + N - (k - 1)
  BY DEF LogBefore
<1> HIDE DEF N, n
<1>5. LogBefore(bs, k) \in Nat
  BY <1>1, <1>2, <1>4 DEF N
<1>6. k = 0 => LogBefore(bs, k) = n + N
  BY <1>1, <1>2, <1>4 DEF N, n
<1>7. k = N => LogBefore(bs, k) = 0
  BY <1>1, <1>2, <1>4 DEF N
<1>8. k > 0 => LogBefore(bs, k - 1) = LogBefore(bs, k) + 1 + Len(BufferPart(bs, k))
  BY <1>1, <1>2, <1>3, <1>4 DEF N
<1> QED BY <1>5, <1>6, <1>7, <1>8 DEF N, n

\* The record of an older buffer is further back.
LEMMA BeforeFalls ==
  ASSUME NEW bs \in Copies, NEW k \in 0..Buffers(Len(bs)), NEW j \in 0..k
  PROVE  LogBefore(bs, k) <= LogBefore(bs, j)
<1>1. Len(bs) \in Nat /\ Buffers(Len(bs)) \in Nat
  BY BuffersIs DEF Copies
<1>2. NewerBlocks(bs, k) \in Nat /\ NewerBlocks(bs, j) \in Nat
      /\ NewerBlocks(bs, k) <= NewerBlocks(bs, j)
  BY <1>1, NewerIs
<1> QED BY <1>1, <1>2 DEF LogBefore

\* A block of the log of a transaction is the index block of its buffer or
\* the content the index names there.
LEMMA ImageAt ==
  ASSUME NEW bs \in Copies, NEW p \in 1..(Len(bs) + Buffers(Len(bs))),
         NEW k \in 1..Buffers(Len(bs)), LogBefore(bs, k) < p, p <= LogBefore(bs, k - 1)
  PROVE  /\ LogImage(bs)[p] = IF p = LogBefore(bs, k) + 1 THEN BufferIndex(bs, k)
                              ELSE Data(BufferPart(bs, k)[p - LogBefore(bs, k) - 1].val)
         /\ p - LogBefore(bs, k) - 1 \in 0..Len(BufferPart(bs, k))
<1> DEFINE N == Buffers(Len(bs))
           c == CHOOSE l \in 1..N : LogBefore(bs, l) < p /\ p <= LogBefore(bs, l - 1)
<1>0. Len(bs) \in Nat /\ N \in Nat
  BY BuffersIs DEF Copies
<1>1. c \in 1..N /\ LogBefore(bs, c) < p /\ p <= LogBefore(bs, c - 1)
  OBVIOUS
<1>2. LogImage(bs)[p] = IF p = LogBefore(bs, c) + 1 THEN BufferIndex(bs, c)
                        ELSE Data(BufferPart(bs, c)[p - LogBefore(bs, c) - 1].val)
  BY DEF LogImage
<1> HIDE DEF c
<1>3. c = k
  <2>1. c <= k - 1 => LogBefore(bs, k - 1) <= LogBefore(bs, c)
    BY <1>0, <1>1, BeforeFalls
  <2>2. k <= c - 1 => LogBefore(bs, c - 1) <= LogBefore(bs, k)
    BY <1>0, <1>1, BeforeFalls
  <2>3. /\ LogBefore(bs, k) \in Nat /\ LogBefore(bs, k - 1) \in Nat
        /\ LogBefore(bs, c) \in Nat /\ LogBefore(bs, c - 1) \in Nat
    BY <1>0, <1>1, BeforeIs
  <2> HIDE DEF N
  <2> QED BY <1>0, <1>1, <2>1, <2>2, <2>3
<1>4. /\ LogBefore(bs, k) \in Nat /\ LogBefore(bs, k - 1) \in Nat
      /\ LogBefore(bs, k - 1) = LogBefore(bs, k) + 1 + Len(BufferPart(bs, k))
      /\ Len(BufferPart(bs, k)) \in Nat
  BY <1>0, BeforeIs, PartIs, SizesAssumption
<1> QED BY <1>0, <1>2, <1>3, <1>4

\* Every block of the log of a transaction is in the record of a buffer.
LEMMA ImageHas ==
  ASSUME NEW bs \in Copies, NEW p \in 1..(Len(bs) + Buffers(Len(bs)))
  PROVE  \E k \in 1..Buffers(Len(bs)) : LogBefore(bs, k) < p /\ p <= LogBefore(bs, k - 1)
<1> DEFINE N == Buffers(Len(bs))
           f == [k \in 0..N |-> LogBefore(bs, k)]
<1>1. Len(bs) \in Nat /\ N \in Nat
  BY BuffersIs DEF Copies
<1>2. f \in [0..N -> Nat] /\ f[N] = 0 /\ f[0] = Len(bs) + N
  BY <1>1, BeforeIs
<1>4. p \in 1..f[0]
  BY <1>2
<1>3. \E k \in 1..N : f[k] < p /\ p <= f[k - 1]
  <2> HIDE DEF f, N
  <2> QED BY <1>1, <1>2, <1>4, Between
<1> QED BY <1>1, <1>3

\* An index block names the blocks of its buffer in their order.
LEMMA IndexIs ==
  ASSUME NEW bs \in Copies, NEW k \in 1..Buffers(Len(bs))
  PROVE  /\ BufferIndex(bs, k) \in DiskBlock
         /\ BufferIndex(bs, k).val = 0
         /\ Len(BufferIndex(bs, k).idx) = Len(BufferPart(bs, k))
         /\ \A i \in 1..Len(BufferPart(bs, k)) :
              BufferIndex(bs, k).idx[i] = BufferPart(bs, k)[i].blk
<1> DEFINE part == BufferPart(bs, k)
           s == [i \in 1..Len(part) |-> part[i].blk]
<1>0. part \in Copies
  BY PartIs
<1>1. part \in Copies /\ Len(part) \in Nat
  <2> HIDE DEF part
  <2> QED BY <1>0 DEF Copies
<1>2. \A i \in 1..Len(part) : part[i].blk \in Block
  <2> HIDE DEF part
  <2> QED BY <1>1, CopyIn
<1>3. s \in Seq(Block) /\ Len(s) = Len(part) /\ \A i \in 1..Len(part) : s[i] = part[i].blk
  <2> HIDE DEF part
  <2> QED BY <1>1, <1>2
<1>4. BufferIndex(bs, k) = [val |-> 0, idx |-> s]
  BY DEF BufferIndex, Index
<1> HIDE DEF s
<1> QED BY <1>3, <1>4 DEF DiskBlock

\* The log of a transaction has one index block per buffer and its blocks.
LEMMA ImageIs ==
  ASSUME NEW bs \in Copies
  PROVE  /\ Len(LogImage(bs)) = Len(bs) + Buffers(Len(bs))
         /\ Len(LogImage(bs)) \in Nat
         /\ DOMAIN LogImage(bs) = 1..Len(LogImage(bs))
         /\ \A p \in 1..Len(LogImage(bs)) : LogImage(bs)[p] \in DiskBlock
<1> DEFINE m == Len(bs) + Buffers(Len(bs))
<1>1. m \in Nat
  BY BuffersIs DEF Copies
<1>2. DOMAIN LogImage(bs) = 1..m /\ Len(LogImage(bs)) = m
  <2> DEFINE g(p) == LET k == CHOOSE k \in 1..Buffers(Len(bs)) :
                                LogBefore(bs, k) < p /\ p <= LogBefore(bs, k - 1)
                     IN  IF p = LogBefore(bs, k) + 1 THEN BufferIndex(bs, k)
                         ELSE Data(BufferPart(bs, k)[p - LogBefore(bs, k) - 1].val)
  <2>1. LogImage(bs) = [p \in 1..m |-> g(p)]
    BY DEF LogImage
  <2> HIDE DEF g, m
  <2> QED BY <1>1, <2>1
<1>3. \A p \in 1..m : LogImage(bs)[p] \in DiskBlock
  <2> TAKE p \in 1..m
  <2>1. PICK k \in 1..Buffers(Len(bs)) : LogBefore(bs, k) < p /\ p <= LogBefore(bs, k - 1)
    BY ImageHas
  <2> DEFINE d == p - LogBefore(bs, k) - 1
  <2>2. /\ LogImage(bs)[p] = IF p = LogBefore(bs, k) + 1 THEN BufferIndex(bs, k)
                             ELSE Data(BufferPart(bs, k)[d].val)
        /\ d \in 0..Len(BufferPart(bs, k))
    BY <2>1, ImageAt
  <2>3. CASE p = LogBefore(bs, k) + 1
    BY <2>2, <2>3, IndexIs
  <2>4. CASE p # LogBefore(bs, k) + 1
    <3>0. LogBefore(bs, k) \in Nat /\ Buffers(Len(bs)) \in Nat
      <4>1. Buffers(Len(bs)) \in Nat
        BY BuffersIs DEF Copies
      <4> QED BY <4>1, BeforeIs
    <3>1. d \in 1..Len(BufferPart(bs, k))
      BY <1>1, <2>2, <2>4, <3>0
    <3>2. BufferPart(bs, k)[d].val \in Nat
      <4> HIDE DEF d
      <4>1. BufferPart(bs, k) \in Copies
        BY PartIs
      <4> QED BY <3>1, <4>1, CopyIn
    <3>3. LogImage(bs)[p] = Data(BufferPart(bs, k)[d].val)
      BY <2>2, <2>4
    <3> HIDE DEF d
    <3> QED BY <3>2, <3>3 DEF Data, DiskBlock
  <2> QED BY <2>3, <2>4
<1> QED BY <1>1, <1>2, <1>3
-----------------------------------------------------------------------------
(* The list of transactions.                                               *)

\* A sequence is empty when it has no elements.
LEMMA EmptyIs ==
  ASSUME NEW S, NEW T \in Seq(S)
  PROVE  Len(T) \in Nat /\ (T = <<>> <=> Len(T) = 0)
OBVIOUS

\* The first and the last transaction of the list, and when one is open.
LEMMA ListIs ==
  ASSUME TypeOK
  PROVE  /\ trans \in Seq(Transaction) /\ Len(trans) \in Nat
         /\ Current = trans[Len(trans)] /\ Oldest = trans[1]
         /\ trans # <<>> => Len(trans) \in 1..Len(trans) /\ 1 \in 1..Len(trans)
         /\ HasOpen <=> Len(trans) > 0 /\ ~trans[Len(trans)].logged
         /\ trans = <<>> <=> Len(trans) = 0
<1>1. trans \in Seq(Transaction)
  BY DEF TypeOK
<1>2. Len(trans) \in Nat /\ (trans = <<>> <=> Len(trans) = 0)
  BY <1>1
<1> QED BY <1>1, <1>2 DEF Current, Oldest, HasOpen, Last

\* The fields of a transaction of the volume, with their types.
LEMMA TransIs ==
  ASSUME TypeOK, NEW i \in 1..Len(trans)
  PROVE  /\ trans[i] \in Transaction
         /\ trans[i].count \in Nat /\ trans[i].start \in Nat /\ trans[i].id \in Nat
         /\ trans[i].written \in Nat /\ trans[i].pending \in Int
         /\ trans[i].logged \in BOOLEAN /\ trans[i].ondisk \in BOOLEAN
         /\ trans[i].blocks \in Copies
         /\ Len(trans[i].blocks) \in Nat
BY ListIs, TransFields DEF Copies

\* One field of one transaction.
LEMMA SetLogged ==
  ASSUME NEW t \in Transaction, NEW v \in BOOLEAN
  PROVE  [t EXCEPT !.logged = v] \in Transaction
BY Zenon DEF Transaction

\* Setting a flag of a transaction leaves a transaction ...
LEMMA SetOnDisk ==
  ASSUME NEW t \in Transaction, NEW v \in BOOLEAN
  PROVE  [t EXCEPT !.ondisk = v] \in Transaction
BY Zenon DEF Transaction

\* ... and so does setting its count of callbacks.
LEMMA SetPending ==
  ASSUME NEW t \in Transaction, NEW v \in Int
  PROVE  [t EXCEPT !.pending = v] \in Transaction
BY Zenon DEF Transaction

\* A transaction more: its sum is the old total.
LEMMA SumsAppend ==
  ASSUME NEW T \in Seq(Transaction), NEW t \in Transaction
  PROVE  /\ Append(T, t) \in Seq(Transaction) /\ Len(Append(T, t)) = Len(T) + 1
         /\ \A i \in 1..Len(T) : Append(T, t)[i] = T[i]
         /\ Append(T, t)[Len(T) + 1] = t
         /\ \A i \in 1..(Len(T) + 1) : LogSums(Append(T, t))[i] = LogSums(T)[i]
         /\ LogSums(Append(T, t))[Len(T) + 2] = LogSums(T)[Len(T) + 1] + t.count
<1> DEFINE U == Append(T, t)
<1>0. Len(T) \in Nat
  OBVIOUS
<1>1. U \in Seq(Transaction) /\ Len(U) = Len(T) + 1 /\ U[Len(T) + 1] = t
      /\ \A i \in 1..Len(T) : U[i] = T[i]
  OBVIOUS
<1>2. \A i \in 1..(Len(T) + 1) : LogSums(U)[i] = LogSums(T)[i]
  <2> HIDE DEF U
  <2>1. Len(T) <= Len(T) /\ Len(T) <= Len(U) /\ \A i \in 1..Len(T) : T[i].count = U[i].count
    BY <1>0, <1>1
  <2> QED BY <1>0, <1>1, <2>1, SumsSame
<1>3. LogSums(U)[(Len(T) + 1) + 1] = LogSums(U)[Len(T) + 1] + U[Len(T) + 1].count
  <2> HIDE DEF U
  <2>1. Len(T) + 1 \in 1..Len(U)
    BY <1>0, <1>1
  <2> QED BY <1>1, <2>1, SumsStep
<1> HIDE DEF U
<1>4. LogSums(U)[Len(T) + 2] = LogSums(T)[Len(T) + 1] + t.count
  BY <1>0, <1>1, <1>2, <1>3
<1> QED BY <1>1, <1>2, <1>4 DEF U

\* All sizes the same: all sums the same.
LEMMA SumsEqual ==
  ASSUME NEW T \in Seq(Transaction), NEW U \in Seq(Transaction), Len(T) = Len(U),
         \A i \in 1..Len(T) : T[i].count = U[i].count
  PROVE  \A i \in 1..(Len(T) + 1) : LogSums(T)[i] = LogSums(U)[i]
<1>1. Len(T) \in Nat /\ Len(T) <= Len(T) /\ Len(T) <= Len(U)
  OBVIOUS
<1> QED BY <1>1, SumsSame

\* The last transaction grows.
LEMMA SumsLast ==
  ASSUME NEW T \in Seq(Transaction), NEW U \in Seq(Transaction), Len(T) = Len(U), Len(T) > 0,
         \A i \in 1..(Len(T) - 1) : T[i].count = U[i].count
  PROVE  /\ \A i \in 1..Len(T) : LogSums(U)[i] = LogSums(T)[i]
         /\ LogSums(U)[Len(T) + 1] - U[Len(T)].count = LogSums(T)[Len(T) + 1] - T[Len(T)].count
<1>1. Len(T) \in Nat \ {0} /\ Len(T) - 1 \in Nat /\ Len(T) - 1 <= Len(T) /\ Len(T) - 1 <= Len(U)
      /\ (Len(T) - 1) + 1 = Len(T)
  OBVIOUS
<1>2. \A i \in 1..((Len(T) - 1) + 1) : LogSums(T)[i] = LogSums(U)[i]
  BY <1>1, SumsSame
<1>3. LogSums(T)[Len(T) + 1] = LogSums(T)[Len(T)] + T[Len(T)].count
      /\ LogSums(U)[Len(U) + 1] = LogSums(U)[Len(U)] + U[Len(U)].count
  BY <1>1, SumsStep
<1>4. LogSums(T)[Len(T)] \in Nat /\ T[Len(T)].count \in Nat /\ U[Len(T)].count \in Nat
      /\ LogSums(T)[Len(T)] = LogSums(U)[Len(T)]
  BY <1>1, <1>2, SumsStep, TransFields
<1> QED BY <1>1, <1>2, <1>3, <1>4
-----------------------------------------------------------------------------
(* What a step that leaves a part of the state alone does not disturb.     *)

Kept == /\ Len(trans') = Len(trans)
        /\ \A i \in 1..Len(trans) :
             /\ trans'[i].id = trans[i].id /\ trans'[i].start = trans[i].start
             /\ trans'[i].count = trans[i].count /\ trans'[i].blocks = trans[i].blocks

LoggedKept == \A i \in 1..Len(trans) : trans'[i].logged = trans[i].logged

\* Whether a transaction is open depends on the flags only.
LEMMA OpenKept ==
  ASSUME TypeOK, TypeOK', Kept, LoggedKept
  PROVE  HasOpen' <=> HasOpen
<1>1. HasOpen <=> Len(trans) > 0 /\ ~trans[Len(trans)].logged
  BY ListIs
<1>2. HasOpen' <=> trans' # <<>> /\ ~trans'[Len(trans')].logged
  BY DEF HasOpen, Current, Last
<1>0. trans \in Seq(Transaction) /\ trans' \in Seq(Transaction)
  BY DEF TypeOK
<1>3. Len(trans) \in Nat /\ (trans' # <<>> <=> Len(trans') > 0)
  <2>1. Len(trans) \in Nat /\ Len(trans') \in Nat /\ (trans' = <<>> <=> Len(trans') = 0)
    BY <1>0, EmptyIs
  <2> QED BY <2>1
<1>4. Len(trans') = Len(trans)
  BY DEF Kept
<1>5. CASE Len(trans) > 0
  BY <1>1, <1>2, <1>3, <1>4, <1>5 DEF LoggedKept
<1>6. CASE ~(Len(trans) > 0)
  BY <1>1, <1>2, <1>3, <1>4, <1>6
<1> QED BY <1>5, <1>6

\* CountsAgree does not depend on what was handed to the cache.
LEMMA CountsKept ==
  ASSUME TypeOK, TypeOK', CountsAgree, Kept, LoggedKept, UNCHANGED <<nOldBlockCount, nPendingLog>>
  PROVE  CountsAgree'
<1>1. HasOpen' <=> HasOpen
  BY OpenKept
<1>2. Len(trans') = Len(trans) /\ Len(trans) \in Nat
  BY ListIs DEF Kept
<1>3. \A i \in 1..Len(trans') : trans'[i].count = Len(LogImage(trans'[i].blocks))
  BY <1>2 DEF Kept, CountsAgree
<1>4. nOldBlockCount' = IF HasOpen' THEN Current'.count ELSE 0
  <2>1. HasOpen => Current'.count = Current.count
    <3>1. HasOpen => Len(trans) \in 1..Len(trans)
      BY ListIs
    <3>2. Current = trans[Len(trans)] /\ Current' = trans'[Len(trans')]
      BY DEF Current, Last
    <3> QED BY <1>2, <3>1, <3>2 DEF Kept
  <2> QED BY <1>1, <2>1 DEF CountsAgree
<1>5. nPendingLog' = LogSums(trans')[Len(trans') + 1]
  <2>1. trans \in Seq(Transaction) /\ trans' \in Seq(Transaction)
    BY DEF TypeOK
  <2>2. \A i \in 1..Len(trans) : trans[i].count = trans'[i].count
    BY DEF Kept
  <2>3. \A i \in 1..(Len(trans) + 1) : LogSums(trans)[i] = LogSums(trans')[i]
    BY <1>2, <2>1, <2>2, SumsEqual
  <2> QED BY <1>2, <2>3 DEF CountsAgree
<1> QED BY <1>3, <1>4, <1>5 DEF CountsAgree

\* OneCopyPerBlock depends on the blocks only.
LEMMA OnceKept ==
  ASSUME OneCopyPerBlock, Kept
  PROVE  OneCopyPerBlock'
BY DEF OneCopyPerBlock, Kept

\* HashFollows does not depend on the progress of the transactions.
LEMMA HashKept ==
  ASSUME HashFollows, Kept, UNCHANGED <<hash, newBlocks>>, nextId' \in Nat, nextId \in Nat,
         nextId <= nextId', TypeOK,
         \A i \in 1..Len(trans) : trans[i].ondisk => trans'[i].ondisk
  PROVE  HashFollows'
<1>1. \A b, i : i \in 1..Len(trans) => (Holds(i, b)' <=> Holds(i, b))
  BY DEF Holds, Kept
<1>2. \A b, i : i \in 1..Len(trans) => (Newest(i, b)' <=> Newest(i, b))
  BY <1>1, ListIs DEF Newest, Kept
<1>3. /\ \A i, j \in 1..Len(newBlocks') : newBlocks'[i] = newBlocks'[j] => i = j
      /\ \A b \in Block :
         /\ hash'[b].new # 0 <=> \E i \in 1..Len(newBlocks') : newBlocks'[i] = b
         /\ ~hash'[b].present => hash'[b] = NoEntry
         /\ hash'[b].present => hash'[b].new # 0 \/ hash'[b].buffer # NoBuffer
         /\ hash'[b].buffer # NoBuffer /\ hash'[b].trans # 0 => hash'[b].buffer[1] = hash'[b].trans
  BY DEF HashFollows
<1>4. ASSUME NEW b \in Block
      PROVE  /\ hash'[b].buffer # NoBuffer => hash'[b].buffer[1] \in 1..(nextId' - 1)
             /\ hash'[b].trans < nextId'
  <2>1. hash[b].trans \in Nat
    BY DEF TypeOK, Entry
  <2>2. hash[b].buffer # NoBuffer => hash[b].buffer[1] \in 1..(nextId - 1)
    BY DEF HashFollows
  <2>3. hash[b].trans < nextId
    BY DEF HashFollows
  <2> QED BY <2>1, <2>2, <2>3
<1>5. ASSUME NEW b \in Block, NEW i \in 1..Len(trans)
      PROVE  /\ hash[b].buffer[1] = trans'[i].id =>
                  /\ hash[b].buffer[2] \in 1..Len(trans'[i].blocks)
                  /\ trans'[i].blocks[hash[b].buffer[2]].blk = b
                  /\ Newest(i, b)'
             /\ Holds(i, b)' /\ Newest(i, b)' /\ ~trans'[i].ondisk =>
                  hash[b].trans = trans'[i].id /\ hash[b].buffer[1] = trans'[i].id
  <2>1. /\ hash[b].buffer[1] = trans[i].id =>
             /\ hash[b].buffer[2] \in 1..Len(trans[i].blocks)
             /\ trans[i].blocks[hash[b].buffer[2]].blk = b
             /\ Newest(i, b)
        /\ Holds(i, b) /\ Newest(i, b) /\ ~trans[i].ondisk =>
             hash[b].trans = trans[i].id /\ hash[b].buffer[1] = trans[i].id
    BY DEF HashFollows
  <2>2. trans'[i].id = trans[i].id /\ trans'[i].blocks = trans[i].blocks
    BY DEF Kept
  <2>3. trans[i].ondisk => trans'[i].ondisk
    OBVIOUS
  <2>4. (Holds(i, b)' <=> Holds(i, b)) /\ (Newest(i, b)' <=> Newest(i, b))
    BY <1>1, <1>2
  <2> QED BY <2>1, <2>2, <2>3, <2>4
<1>6. Len(trans') = Len(trans)
  BY DEF Kept
<1> QED BY <1>3, <1>4, <1>5, <1>6 DEF HashFollows

\* LogInPlace holds on while the log area is not written.
LEMMA LogKept ==
  ASSUME TypeOK, TypeOK', LogInPlace, InMemoryState, nLoggStart = 1, nLoggStart' = 1,
         ListInOrder, CountsAgree, Kept, LoggedKept, UNCHANGED <<superblock, sb>>,
         \A a \in 1..LogSize : disk'[a] = disk[a],
         At("super")' => At("super"),
         At("super") => HasOpen
  PROVE  LogInPlace'
<1>1. HasOpen' <=> HasOpen
  BY OpenKept
<1>0. trans \in Seq(Transaction) /\ trans' \in Seq(Transaction) /\ Len(trans') = Len(trans)
  BY DEF Kept, TypeOK
<1>2. Len(trans') = Len(trans) /\ Len(trans) \in Nat /\ trans \in Seq(Transaction)
      /\ trans' \in Seq(Transaction) /\ (trans = <<>> <=> trans' = <<>>)
  BY <1>0, EmptyIs
<1>3. \A i \in 1..(Len(trans) + 1) : LogSums(trans)[i] = LogSums(trans')[i]
  <2>1. \A i \in 1..Len(trans) : trans[i].count = trans'[i].count
    BY DEF Kept
  <2> QED BY <1>2, <2>1, SumsEqual
<1>4. \A i \in 1..Len(trans) : InLog(trans[i]) => InLog(trans[i])'
  <2> TAKE i \in 1..Len(trans)
  <2> HAVE InLog(trans[i])
  <2>1. trans'[i].blocks = trans[i].blocks /\ trans'[i].start = trans[i].start
    BY DEF Kept
  <2>2. trans[i].start \in 1..LogSize
    BY PosHere DEF ListInOrder
  <2>3. Len(LogImage(trans[i].blocks)) \in Nat /\ Len(LogImage(trans[i].blocks)) <= LogSize
    <3>1. Len(LogImage(trans[i].blocks)) = trans[i].count /\ trans[i].count \in Nat
      BY TransIs DEF CountsAgree
    <3>2. LogSums(trans)[i + 1] = LogSums(trans)[i] + trans[i].count /\ LogSums(trans)[i] \in Nat
          /\ LogSums(trans)[i + 1] \in Nat
      BY <1>2, SumsStep
    <3>3. LogSums(trans)[i + 1] <= nPendingLog /\ nPendingLog <= LogSize /\ nPendingLog \in Nat
      <4>1. i + 1 \in 1..(Len(trans) + 1) /\ Len(trans) + 1 \in 1..(Len(trans) + 1)
        BY <1>2
      <4>2. LogSums(trans)[i + 1] <= LogSums(trans)[Len(trans) + 1]
        BY <1>2, <4>1, SumsGrow
      <4> QED BY <4>2 DEF CountsAgree, TypeOK
    <3> QED BY <3>1, <3>2, <3>3, SizesAssumption
  <2>4. \A p \in 1..Len(LogImage(trans[i].blocks)) : Pos(trans[i].start, p - 1) \in 1..LogSize
    <3> TAKE p \in 1..Len(LogImage(trans[i].blocks))
    <3>1. p - 1 \in 0..LogSize
      BY <2>3, SizesAssumption
    <3> QED BY <2>2, <3>1, PosIn
  <2>5. \A p \in 1..Len(LogImage(trans[i].blocks)) :
           disk[Pos(trans[i].start, p - 1)] = LogImage(trans[i].blocks)[p]
    BY PosHere DEF InLog
  <2>6. \A p \in 1..Len(LogImage(trans[i].blocks)) :
           disk'[Pos(trans'[i].start, p - 1)] = LogImage(trans'[i].blocks)[p]
    BY <2>1, <2>4, <2>5
  <2>7. \A s, p : LogPos(s, nLoggStart', nLoggEnd', p) = Pos(s, p)
    BY SizesAssumption DEF nLoggEnd, Pos
  <2> QED BY <2>1, <2>6, <2>7 DEF InLog
<1>5. superblock'.valid = LogSums(trans')[Len(trans') + (IF HasOpen' THEN 0 ELSE 1)]
  <2>1. superblock.valid = LogSums(trans)[Len(trans) + (IF HasOpen THEN 0 ELSE 1)]
    BY DEF LogInPlace
  <2>2. HasOpen => Len(trans) > 0
    BY ListIs
  <2> QED BY <1>1, <1>2, <1>3, <2>1, <2>2
<1>6. superblock'.start = IF trans' = <<>> THEN nLoggStart' ELSE Oldest'.start
  <2>1. Oldest' = trans'[1] /\ Oldest = trans[1]
    BY DEF Oldest
  <2>2. trans # <<>> => trans'[1].start = trans[1].start
    BY ListIs DEF Kept
  <2> QED BY <1>2, <2>1, <2>2 DEF LogInPlace
<1>7. \A i \in 1..Len(trans') : trans'[i].logged => InLog(trans[i])'
  BY <1>2, <1>4 DEF LogInPlace, LoggedKept
<1>8. At("super")' => InLog(Current)'
  <2> HAVE At("super")'
  <2>1. Len(trans) \in 1..Len(trans) /\ Current = trans[Len(trans)] /\ Current' = trans'[Len(trans)]
    BY <1>2, ListIs DEF Current, Last
  <2>2. InLog(Current)
    BY DEF LogInPlace
  <2>3. InLog(trans[Len(trans)])'
    BY <1>2, <1>4, <2>1, <2>2
  <2> QED BY <1>2, <2>1, <2>3 DEF InLog
<1> QED BY <1>5, <1>6, <1>7, <1>8 DEF LogInPlace

\* ListInOrder holds on while ids, starts and progress stay.
LEMMA OrderKept ==
  ASSUME ListInOrder, Kept, LoggedKept, nLoggStart' = nLoggStart,
         nextId \in Nat, nextId' \in Nat, nextId <= nextId',
         \A i \in 1..Len(trans) : trans'[i].written = trans[i].written
                                  /\ trans'[i].ondisk = trans[i].ondisk,
         Len(trans) \in Nat
  PROVE  ListInOrder'
<1>1. nLoggEnd' = nLoggEnd /\ Len(trans') = Len(trans)
  BY DEF nLoggEnd, Kept
<1>2. ASSUME NEW i \in 1..Len(trans)
      PROVE  /\ trans'[i].id \in 1..(nextId' - 1)
             /\ trans'[i].start \in nLoggStart'..nLoggEnd'
             /\ trans'[i].written <= Len(trans'[i].blocks)
             /\ trans'[i].written > 0 \/ trans'[i].ondisk => i = 1 /\ trans'[i].logged
             /\ trans'[i].ondisk => trans'[i].written = Len(trans'[i].blocks)
  <2>1. /\ trans[i].id \in 1..(nextId - 1)
        /\ trans[i].start \in nLoggStart..nLoggEnd
        /\ trans[i].written <= Len(trans[i].blocks)
        /\ trans[i].written > 0 \/ trans[i].ondisk => i = 1 /\ trans[i].logged
        /\ trans[i].ondisk => trans[i].written = Len(trans[i].blocks)
    BY DEF ListInOrder
  <2>2. /\ trans'[i].id = trans[i].id /\ trans'[i].start = trans[i].start
        /\ trans'[i].blocks = trans[i].blocks /\ trans'[i].logged = trans[i].logged
        /\ trans'[i].written = trans[i].written /\ trans'[i].ondisk = trans[i].ondisk
    BY DEF Kept, LoggedKept
  <2> QED BY <1>1, <2>1, <2>2
<1>3. ASSUME NEW i \in 2..Len(trans)
      PROVE  /\ trans'[i - 1].logged
             /\ trans'[i - 1].id < trans'[i].id
             /\ trans'[i].start = LogPos(trans'[i - 1].start, nLoggStart', nLoggEnd', trans'[i - 1].count)
  <2>1. i \in 1..Len(trans) /\ i - 1 \in 1..Len(trans)
    OBVIOUS
  <2>2. /\ trans[i - 1].logged
        /\ trans[i - 1].id < trans[i].id
        /\ trans[i].start = LogPos(trans[i - 1].start, nLoggStart, nLoggEnd, trans[i - 1].count)
    BY DEF ListInOrder
  <2>3. /\ trans'[i].id = trans[i].id /\ trans'[i].start = trans[i].start
        /\ trans'[i - 1].id = trans[i - 1].id /\ trans'[i - 1].start = trans[i - 1].start
        /\ trans'[i - 1].logged = trans[i - 1].logged
        /\ trans'[i - 1].count = trans[i - 1].count
    BY <2>1 DEF Kept, LoggedKept
  <2> QED BY <1>1, <2>2, <2>3
<1> QED BY <1>1, <1>2, <1>3 DEF ListInOrder

\* The blocks of the cache with the callback of transaction id.
FuncSet(c, id) == {b \in Block : c[b].func = id}

\* The next step of a list of steps.
Next1(s, name) == Len(s) > 0 /\ s[1] = name

\* The first of a sequence of steps and the rest.
LEMMA AtIs ==
  ASSUME NEW s \in Seq(StepNames)
  PROVE  /\ Len(s) \in Nat
         /\ s = <<>> <=> Len(s) = 0
         /\ s # <<>> => /\ Head(s) = s[1] /\ s[1] \in StepNames
                        /\ Tail(s) \in Seq(StepNames) /\ Len(Tail(s)) = Len(s) - 1
                        /\ \A i \in 1..(Len(s) - 1) : Tail(s)[i] = s[i + 1]
         /\ \A name : s # <<>> /\ Head(s) = name <=> Next1(s, name)
BY DEF Next1

\* The same for the steps of the running call.
LEMMA TodoIs ==
  ASSUME TypeOK
  PROVE  /\ todo \in Seq(StepNames)
         /\ Len(todo) \in Nat
         /\ todo = <<>> <=> Len(todo) = 0
         /\ todo # <<>> => /\ todo[1] \in StepNames
                           /\ Tail(todo) \in Seq(StepNames) /\ Len(Tail(todo)) = Len(todo) - 1
                           /\ \A i \in 1..(Len(todo) - 1) : Tail(todo)[i] = todo[i + 1]
         /\ \A name : At(name) <=> Next1(todo, name)
         /\ \A name : Step(name) <=> mode = "mounted" /\ Next1(todo, name)
<1>1. todo \in Seq(StepNames)
  BY DEF TypeOK
<1> QED BY <1>1, AtIs DEF At, Step

ShapeOK(s, st) ==
    /\ \A i \in 2..Len(s) :
         /\ s[i] \notin {"count", "super"}
         /\ s[i] = "merge" => s[i - 1] = "space"
         /\ s[i] = "flush" => s[i - 1] = "drain"
    /\ \A i \in 1..Len(s) :
         /\ s[i] \in {"end", "unmount", "leave"} => i = Len(s)
         /\ s[i] \in {"create", "space", "merge", "revert", "leave", "end"} => st
         /\ st /\ s[i] \in {"log", "super"} => \E j \in i..Len(s) : s[j] = "create"
         /\ s[i] = "create" =>
              \A j \in 1..(i - 1) : \/ s[j] \in {"todisk", "count"}
                                    \/ j = 1 /\ s[j] \in {"log", "super"}

\* CallShape as a property of the sequence of steps.
LEMMA ShapeIs ==
  CallShape <=> ShapeOK(todo, started) /\ (Ahead("leave") => leave.blk # 0)
BY DEF CallShape, ShapeOK

\* The calls and the rounds change the list of steps only.
LEMMA OnlyTodo ==
  ASSUME Inv, mode = "mounted", TypeOK', CallShape', StepsReady',
         nLoggStart = 1,
         At("count")' <=> At("count"), At("super")' => At("super"),
         UNCHANGED <<disk, superblock, mode, nLoggStart, sb, trans, nOldBlockCount,
                     nPendingLog, newBlocks, hash, replay, cache, nextId>>
  PROVE  Inv'
<1>1. Kept /\ LoggedKept
  BY DEF Kept, LoggedKept
<1>2. nextId \in Nat /\ Len(trans) \in Nat
  BY ListIs DEF Inv, TypeOK
<1>3. CountsAgree'
  BY <1>1, CountsKept DEF Inv
<1>4. ListInOrder'
  BY <1>1, <1>2, OrderKept DEF Inv
<1>5. OneCopyPerBlock'
  BY <1>1, OnceKept DEF Inv
<1>6. HashFollows'
  BY <1>1, <1>2, HashKept DEF Inv
<1>7. LogInPlace'
  <2>1. InMemoryState
    BY DEF InMemoryState
  <2>2. At("super") => HasOpen
    BY DEF Inv, StepsReady
  <2> QED BY <1>1, <2>1, <2>2, LogKept DEF Inv
<1>8. CacheFollows'
  <2>1. Handed' = Handed
    BY DEF Handed, Oldest
  <2>2. \A b : CachedRead(b)' = CachedRead(b)
    BY DEF CachedRead
  <2>3. CacheFollows
    BY DEF Inv
  <2> QED BY <2>1, <2>2, <2>3 DEF CacheFollows, Oldest
<1>9. NothingInMemory'
  BY DEF NothingInMemory, InMemoryState
<1> QED BY <1>3, <1>4, <1>5, <1>6, <1>7, <1>8, <1>9 DEF Inv

\* A next step that relies on nothing is ready.
LEMMA ReadyFor ==
  ASSUME todo' \in Seq(StepNames), Len(todo') > 0,
         todo'[1] \notin {"super", "count", "merge", "flush"},
         Ahead("create")' => (HasOpen' <=> todo'[1] = "log"),
         started' /\ ~Ahead("create")' => HasOpen'
  PROVE  StepsReady' /\ ~At("count")' /\ ~At("super")'
<1>1. \A name : At(name)' <=> Len(todo') > 0 /\ todo'[1] = name
  BY AtIs DEF At, Next1
<1> QED BY <1>1 DEF StepsReady
-----------------------------------------------------------------------------
(* Calls of the file system that only set their steps.                     *)

\* The type of the state after a call or a round.
LEMMA TypeTodo ==
  ASSUME TypeOK, todo' \in Seq(StepNames),
         leave' \in [blk : {0} \cup Block, run : 0..3, got : SUBSET Block],
         fileBlocks' \subseteq Block, nCalls' \in Nat,
         UNCHANGED <<disk, superblock, mode, nLoggStart, sb, trans, nOldBlockCount,
                     nPendingLog, newBlocks, hash, started, replay, cache, nextId, nCrash>>
  PROVE  TypeOK'
BY DEF TypeOK

\* The sizes are positive.
LEMMA SizesIs ==
  /\ LogSize \in Nat \ {0} /\ BufBlocks \in Nat \ {0} /\ NumBlocks \in Nat \ {0}
  /\ Reserve \in Nat
<1>1. LogSize \in Nat \ {0} /\ BufBlocks \in Nat \ {0} /\ NumBlocks \in Nat \ {0}
  BY SizesAssumption
<1>2. LogSize \div BufBlocks \in Nat
  BY <1>1
<1> QED BY <1>1, <1>2 DEF Reserve

\* The types of the list of new blocks and of the counters.
LEMMA NewIs ==
  ASSUME TypeOK
  PROVE  /\ newBlocks \in Seq(Block) /\ Len(newBlocks) \in Nat
         /\ \A i \in 1..Len(newBlocks) : newBlocks[i] \in Block
         /\ nPendingLog \in Nat /\ nOldBlockCount \in Nat
<1>1. newBlocks \in Seq(Block) /\ nPendingLog \in Nat /\ nOldBlockCount \in Nat
  BY DEF TypeOK
<1>2. Len(newBlocks) \in Nat
  BY <1>1, EmptyIs
<1> QED BY <1>1, <1>2, ElementOfSeq

\* The types of what the calls keep between their steps.
LEMMA LeaveIs ==
  ASSUME TypeOK
  PROVE  /\ leave \in [blk : {0} \cup Block, run : 0..3, got : SUBSET Block]
         /\ leave.blk \in {0} \cup Block /\ leave.run \in 0..3 /\ leave.got \subseteq Block
         /\ fileBlocks \subseteq Block /\ nCalls \in Nat /\ nCrash \in Nat /\ nextId \in Nat \ {0}
         /\ started \in BOOLEAN
BY DEF TypeOK

\* A call that starts has no step left from another one.
LEMMA IdleIs ==
  ASSUME Inv, Idle
  PROVE  /\ mode = "mounted" /\ Len(todo) = 0
         /\ \A name : ~At(name) /\ ~Ahead(name)
         /\ started => HasOpen
<1>1. mode = "mounted" /\ todo = <<>>
  BY DEF Idle
<1>2. Len(todo) = 0
  BY <1>1
<1>3. \A name : ~At(name) /\ ~Ahead(name)
  BY <1>1, <1>2 DEF At, Ahead
<1> QED BY <1>1, <1>2, <1>3 DEF Inv, StepsReady

\* A call that only sets its steps keeps the invariant if they have the right
\* shape.
LEMMA CallInv ==
  ASSUME Inv, nLoggStart = 1, Idle, todo' \in Seq(StepNames), Len(todo') > 0,
         ShapeOK(todo', started), Ahead("leave")' => leave'.blk # 0,
         todo'[1] \notin {"super", "count", "merge"},
         todo'[1] = "flush" => ~started /\ todo'[2] = "log" /\ Len(todo') > 1,
         todo'[1] = "log" \/ ~Ahead("create")',
         leave' \in [blk : {0} \cup Block, run : 0..3, got : SUBSET Block],
         fileBlocks' \subseteq Block, nCalls' \in Nat,
         UNCHANGED <<disk, superblock, mode, nLoggStart, sb, trans, nOldBlockCount,
                     nPendingLog, newBlocks, hash, started, replay, cache, nextId, nCrash>>
  PROVE  Inv'
<1>1. /\ mode = "mounted" /\ Len(todo) = 0
      /\ \A name : ~At(name) /\ ~Ahead(name)
      /\ started => HasOpen
  BY IdleIs
<1>2. TypeOK'
  BY TypeTodo DEF Inv
<1>3. CallShape'
  BY DEF CallShape, ShapeOK
<1>4. HasOpen' <=> HasOpen
  BY DEF HasOpen, Current
<1>5. \A name : At(name)' <=> todo'[1] = name
  BY AtIs DEF At, Next1
<1>6. StepsReady'
  <2>1. Ahead("create")' => (HasOpen' <=> At("log")' \/ At("super")')
    <3> HAVE Ahead("create")'
    <3>1. started'
      BY DEF Ahead, ShapeOK
    <3> QED BY <1>1, <1>4, <1>5, <3>1
  <2>2. started' /\ ~Ahead("create")' => HasOpen'
    BY <1>1, <1>4
  <2>3. ~At("super")' /\ ~At("count")' /\ ~At("merge")'
    BY <1>5
  <2>4. At("flush")' => Tail(todo') \notin {<<>>, <<"unmount">>}
    <3> HAVE At("flush")'
    <3>1. Len(todo') > 1 /\ todo'[2] = "log" /\ Len(todo') \in Nat
      BY <1>5
    <3>2. Tail(todo')[1] = "log" /\ Tail(todo') # <<>>
      BY <3>1
    <3>3. <<"unmount">>[1] = "unmount"
      OBVIOUS
    <3>4. Tail(todo') = <<"unmount">> => Tail(todo')[1] = "unmount"
      BY <3>3
    <3>5. "log" # "unmount"
      OBVIOUS
    <3> QED BY <3>2, <3>4, <3>5
  <2> QED BY <2>1, <2>2, <2>3, <2>4 DEF StepsReady
<1>7. ~At("count") /\ ~At("count")' /\ ~At("super")'
  BY <1>1, <1>5
<1> QED BY <1>1, <1>2, <1>3, <1>6, <1>7, OnlyTodo

\* afs_end_transaction keeps the invariant.
LEMMA EndInv ==
  ASSUME Inv, nLoggStart = 1, NEW bSubmitChanges \in BOOLEAN, afs_end_transaction(bSubmitChanges)
  PROVE  Inv'
<1> DEFINE first == IF nOldBlockCount + Len(newBlocks) > BufBlocks
                    THEN <<"log", "create">> ELSE <<>>
           mid == IF bSubmitChanges THEN <<"space", "merge">> ELSE <<"revert">>
<1>1. Idle /\ started /\ todo' = first \o mid \o <<"discard", "end">>
  BY DEF afs_end_transaction, Run
<1>2. UNCHANGED <<disk, superblock, mode, nLoggStart, sb, trans, nOldBlockCount,
                  nPendingLog, newBlocks, hash, started, replay, cache, nextId, nCrash,
                  leave, fileBlocks, nCalls>>
  BY DEF afs_end_transaction, Run
<1>3. /\ todo' \in Seq(StepNames) /\ Len(todo') > 0
      /\ todo'[1] \in {"log", "space", "revert"}
      /\ ShapeOK(todo', TRUE)
      /\ \A i \in 1..Len(todo') : todo'[i] # "leave"
      /\ todo'[1] = "log" \/ \A i \in 1..Len(todo') : todo'[i] # "create"
  <2>1. CASE first = <<"log", "create">> /\ mid = <<"space", "merge">>
    <3>1. todo' = <<"log", "create">> \o <<"space", "merge">> \o <<"discard", "end">>
      BY <1>1, <2>1
    <3>2. /\ todo' \in Seq(StepNames) /\ Len(todo') = 6
          /\ todo'[1] = "log" /\ todo'[2] = "create" /\ todo'[3] = "space" /\ todo'[4] = "merge"
          /\ todo'[5] = "discard" /\ todo'[6] = "end"
      BY <3>1 DEF StepNames
    <3> QED BY <3>2 DEF ShapeOK
  <2>2. CASE first = <<"log", "create">> /\ mid = <<"revert">>
    <3>1. todo' = <<"log", "create">> \o <<"revert">> \o <<"discard", "end">>
      BY <1>1, <2>2
    <3>2. /\ todo' \in Seq(StepNames) /\ Len(todo') = 5
          /\ todo'[1] = "log" /\ todo'[2] = "create" /\ todo'[3] = "revert"
          /\ todo'[4] = "discard" /\ todo'[5] = "end"
      BY <3>1 DEF StepNames
    <3> QED BY <3>2 DEF ShapeOK
  <2>3. CASE first = <<>> /\ mid = <<"space", "merge">>
    <3>1. todo' = <<>> \o <<"space", "merge">> \o <<"discard", "end">>
      BY <1>1, <2>3
    <3>2. /\ todo' \in Seq(StepNames) /\ Len(todo') = 4
          /\ todo'[1] = "space" /\ todo'[2] = "merge"
          /\ todo'[3] = "discard" /\ todo'[4] = "end"
      BY <3>1 DEF StepNames
    <3> QED BY <3>2 DEF ShapeOK
  <2>4. CASE first = <<>> /\ mid = <<"revert">>
    <3>1. todo' = <<>> \o <<"revert">> \o <<"discard", "end">>
      BY <1>1, <2>4
    <3>2. /\ todo' \in Seq(StepNames) /\ Len(todo') = 3
          /\ todo'[1] = "revert" /\ todo'[2] = "discard" /\ todo'[3] = "end"
      BY <3>1 DEF StepNames
    <3> QED BY <3>2 DEF ShapeOK
  <2> QED BY <2>1, <2>2, <2>3, <2>4
<1> HIDE DEF first, mid
<1>4. ~Ahead("leave")' /\ (todo'[1] = "log" \/ ~Ahead("create")')
  BY <1>3 DEF Ahead
<1>5. started = TRUE
  BY <1>1, LeaveIs DEF Inv
<1> QED BY <1>1, <1>2, <1>3, <1>4, <1>5, LeaveIs, CallInv DEF Inv

\* afs_checkpoint_journal keeps the invariant.
LEMMA CheckpointInv ==
  ASSUME Inv, nLoggStart = 1, afs_checkpoint_journal
  PROVE  Inv'
<1> DEFINE first == IF nOldBlockCount + Len(newBlocks) + Reserve > LogSize
                    THEN <<"log", "create">> ELSE <<>>
<1>1. Idle /\ started /\ nCalls' = nCalls + 1
      /\ todo' = first \o <<"space", "merge", "discard">>
  BY DEF afs_checkpoint_journal, Run, MayCall
<1>2. UNCHANGED <<disk, superblock, mode, nLoggStart, sb, trans, nOldBlockCount,
                  nPendingLog, newBlocks, hash, started, replay, cache, nextId, nCrash,
                  leave, fileBlocks>>
  BY DEF afs_checkpoint_journal, Run
<1>3. /\ todo' \in Seq(StepNames) /\ Len(todo') > 0
      /\ todo'[1] \in {"log", "space"}
      /\ ShapeOK(todo', TRUE)
      /\ \A i \in 1..Len(todo') : todo'[i] # "leave"
      /\ todo'[1] = "log" \/ \A i \in 1..Len(todo') : todo'[i] # "create"
  <2>1. CASE first = <<"log", "create">>
    <3>1. todo' = <<"log", "create">> \o <<"space", "merge", "discard">>
      BY <1>1, <2>1
    <3>2. /\ todo' \in Seq(StepNames) /\ Len(todo') = 5
          /\ todo'[1] = "log" /\ todo'[2] = "create" /\ todo'[3] = "space" /\ todo'[4] = "merge"
          /\ todo'[5] = "discard"
      BY <3>1 DEF StepNames
    <3> QED BY <3>2 DEF ShapeOK
  <2>2. CASE first = <<>>
    <3>1. todo' = <<>> \o <<"space", "merge", "discard">>
      BY <1>1, <2>2
    <3>2. /\ todo' \in Seq(StepNames) /\ Len(todo') = 3
          /\ todo'[1] = "space" /\ todo'[2] = "merge" /\ todo'[3] = "discard"
      BY <3>1 DEF StepNames
    <3> QED BY <3>2 DEF ShapeOK
  <2> QED BY <2>1, <2>2
<1> HIDE DEF first
<1>4. ~Ahead("leave")' /\ (todo'[1] = "log" \/ ~Ahead("create")')
  BY <1>3 DEF Ahead
<1>5. started = TRUE
  BY <1>1, LeaveIs DEF Inv
<1> QED BY <1>1, <1>2, <1>3, <1>4, <1>5, LeaveIs, CallInv DEF Inv

\* afs_wait_for_block_to_leave_log keeps the invariant.
LEMMA WaitLeaveInv ==
  ASSUME Inv, nLoggStart = 1, NEW b \in Block, afs_wait_for_block_to_leave_log(b)
  PROVE  Inv'
<1>1. Idle /\ started /\ nCalls' = nCalls + 1 /\ todo' = <<"leave">>
      /\ leave' = [leave EXCEPT !.blk = b, !.run = 0]
  BY DEF afs_wait_for_block_to_leave_log, Run, MayCall
<1>2. UNCHANGED <<disk, superblock, mode, nLoggStart, sb, trans, nOldBlockCount,
                  nPendingLog, newBlocks, hash, started, replay, cache, nextId, nCrash,
                  fileBlocks>>
  BY DEF afs_wait_for_block_to_leave_log, Run
<1>3. /\ todo' \in Seq(StepNames) /\ Len(todo') = 1 /\ todo'[1] = "leave"
      /\ ShapeOK(todo', TRUE)
  BY <1>1 DEF StepNames, ShapeOK
<1>4. leave' \in [blk : {0} \cup Block, run : 0..3, got : SUBSET Block] /\ leave'.blk = b
  <2>1. leave' = [blk |-> b, run |-> 0, got |-> leave.got]
    BY <1>1, LeaveIs DEF Inv
  <2>2. leave.got \subseteq Block /\ 0 \in 0..3
    BY LeaveIs DEF Inv
  <2> QED BY <2>1, <2>2
<1>5. b # 0
  BY SizesAssumption DEF Block
<1>6. ~Ahead("create")'
  BY <1>3 DEF Ahead
<1>7. started = TRUE
  BY <1>1, LeaveIs DEF Inv
<1> QED BY <1>1, <1>2, <1>3, <1>4, <1>5, <1>6, <1>7, LeaveIs, CallInv DEF Inv

\* The journal flusher keeps the invariant.
LEMMA FlusherInv ==
  ASSUME Inv, nLoggStart = 1, afs_journal_flusher
  PROVE  Inv'
<1>1. Idle /\ ~started /\ todo' = <<"log", "discard">>
  BY DEF afs_journal_flusher, Run
<1>2. UNCHANGED <<disk, superblock, mode, nLoggStart, sb, trans, nOldBlockCount,
                  nPendingLog, newBlocks, hash, started, replay, cache, nextId, nCrash,
                  leave, fileBlocks, nCalls>>
  BY DEF afs_journal_flusher, Run
<1>3. /\ todo' \in Seq(StepNames) /\ Len(todo') = 2 /\ todo'[1] = "log" /\ todo'[2] = "discard"
      /\ ShapeOK(todo', started)
  <2>1. todo' \in Seq(StepNames) /\ Len(todo') = 2 /\ todo'[1] = "log" /\ todo'[2] = "discard"
    BY <1>1 DEF StepNames
  <2> QED BY <1>1, <2>1 DEF ShapeOK
<1>4. ~Ahead("leave")'
  BY <1>3 DEF Ahead
<1>6. ShapeOK(todo', started) /\ Len(todo') > 0 /\ nCalls' \in Nat /\ fileBlocks' \subseteq Block
      /\ leave' \in [blk : {0} \cup Block, run : 0..3, got : SUBSET Block]
  BY <1>2, <1>3, LeaveIs DEF Inv
<1> QED BY <1>1, <1>2, <1>3, <1>4, <1>6, CallInv

\* afs_sync and afs_unmount keep the invariant.
LEMMA SyncInv ==
  ASSUME Inv, nLoggStart = 1, afs_sync \/ afs_unmount
  PROVE  Inv'
<1>1. /\ Idle /\ ~started /\ nCalls' = nCalls + 1
      /\ \/ todo' = <<"flush", "log", "drain", "flush">>
         \/ todo' = <<"flush", "log", "drain", "flush", "unmount">>
  BY DEF afs_sync, afs_unmount, Run, MayCall
<1>2. UNCHANGED <<disk, superblock, mode, nLoggStart, sb, trans, nOldBlockCount,
                  nPendingLog, newBlocks, hash, started, replay, cache, nextId, nCrash,
                  leave, fileBlocks>>
  BY DEF afs_sync, afs_unmount, Run
<1>3. /\ todo' \in Seq(StepNames) /\ Len(todo') > 1 /\ todo'[1] = "flush" /\ todo'[2] = "log"
      /\ ShapeOK(todo', started)
      /\ \A i \in 1..Len(todo') : todo'[i] # "leave" /\ todo'[i] # "create"
  <2>1. CASE todo' = <<"flush", "log", "drain", "flush">>
    BY <1>1, <2>1 DEF StepNames, ShapeOK
  <2>2. CASE todo' = <<"flush", "log", "drain", "flush", "unmount">>
    BY <1>1, <2>2 DEF StepNames, ShapeOK
  <2> QED BY <1>1, <2>1, <2>2
<1>4. ~Ahead("leave")' /\ ~Ahead("create")'
  BY <1>3 DEF Ahead
<1>6. ShapeOK(todo', started) /\ Len(todo') > 0 /\ nCalls' \in Nat /\ fileBlocks' \subseteq Block
      /\ leave' \in [blk : {0} \cup Block, run : 0..3, got : SUBSET Block]
  <2>1. Len(todo') \in Nat
    BY <1>3
  <2> QED BY <1>1, <1>2, <1>3, <2>1, LeaveIs DEF Inv
<1> QED BY <1>1, <1>2, <1>3, <1>4, <1>6, CallInv
-----------------------------------------------------------------------------
(* Steps that only change the list of steps.                               *)

\* Without its first step a sequence keeps its shape.
LEMMA ShapeTail ==
  ASSUME NEW s \in Seq(StepNames), s # <<>>, NEW st, ShapeOK(s, st)
  PROVE  ShapeOK(Tail(s), st)
<1> DEFINE r == Tail(s)
<1>1. Len(s) \in Nat \ {0} /\ Len(r) = Len(s) - 1 /\ \A i \in 1..(Len(s) - 1) : r[i] = s[i + 1]
  BY AtIs
<1> HIDE DEF r
<1>2. \A i \in 2..Len(r) :
         /\ r[i] \notin {"count", "super"}
         /\ r[i] = "merge" => r[i - 1] = "space"
         /\ r[i] = "flush" => r[i - 1] = "drain"
  <2> TAKE i \in 2..Len(r)
  <2>1. r[i] = s[i + 1] /\ r[i - 1] = s[i] /\ i + 1 \in 2..Len(s) /\ (i + 1) - 1 = i
    BY <1>1
  <2> QED BY <2>1 DEF ShapeOK
<1>3. \A i \in 1..Len(r) :
         /\ r[i] \in {"end", "unmount", "leave"} => i = Len(r)
         /\ r[i] \in {"create", "space", "merge", "revert", "leave", "end"} => st
         /\ st /\ r[i] \in {"log", "super"} => \E j \in i..Len(r) : r[j] = "create"
         /\ r[i] = "create" =>
              \A j \in 1..(i - 1) : \/ r[j] \in {"todisk", "count"}
                                    \/ j = 1 /\ r[j] \in {"log", "super"}
  <2> TAKE i \in 1..Len(r)
  <2>1. r[i] = s[i + 1] /\ i + 1 \in 1..Len(s)
    BY <1>1
  <2>2. r[i] \in {"end", "unmount", "leave"} => i = Len(r)
    BY <1>1, <2>1 DEF ShapeOK
  <2>3. r[i] \in {"create", "space", "merge", "revert", "leave", "end"} => st
    BY <2>1 DEF ShapeOK
  <2>4. st /\ r[i] \in {"log", "super"} => \E j \in i..Len(r) : r[j] = "create"
    <3> HAVE st /\ r[i] \in {"log", "super"}
    <3>1. PICK j \in (i + 1)..Len(s) : s[j] = "create"
      BY <2>1 DEF ShapeOK
    <3>2. j - 1 \in i..Len(r) /\ r[j - 1] = s[(j - 1) + 1] /\ (j - 1) + 1 = j
      BY <1>1
    <3> QED BY <3>1, <3>2
  <2>5. r[i] = "create" =>
              \A j \in 1..(i - 1) : \/ r[j] \in {"todisk", "count"}
                                    \/ j = 1 /\ r[j] \in {"log", "super"}
    <3> HAVE r[i] = "create"
    <3> TAKE j \in 1..(i - 1)
    <3>1. r[j] = s[j + 1] /\ j + 1 \in 1..((i + 1) - 1) /\ j + 1 # 1
      BY <1>1
    <3> QED BY <2>1, <3>1 DEF ShapeOK
  <2> QED BY <2>2, <2>3, <2>4, <2>5
<1> QED BY <1>2, <1>3 DEF ShapeOK, r

\* A call that waits puts a round in front of its steps.
LEMMA ShapeRound ==
  ASSUME NEW s \in Seq(StepNames), NEW st, ShapeOK(s, st), Len(s) > 0,
         s[1] \in {"space", "drain", "leave"}
  PROVE  /\ \A i \in 1..Len(s) : s[i] # "create"
         /\ OneRound \o s \in Seq(StepNames) /\ Len(OneRound \o s) = Len(s) + 3
         /\ (OneRound \o s)[1] = "force" /\ (OneRound \o s)[2] = "todisk"
         /\ (OneRound \o s)[3] = "discard"
         /\ \A i \in 1..Len(s) : (OneRound \o s)[i + 3] = s[i]
         /\ ShapeOK(OneRound \o s, st)
<1> DEFINE r == OneRound \o s
<1>0. Len(s) \in Nat \ {0}
  OBVIOUS
<1>1. \A i \in 1..Len(s) : s[i] # "create"
  <2> SUFFICES ASSUME NEW i \in 1..Len(s), s[i] = "create" PROVE FALSE
    OBVIOUS
  <2>1. i = 1 \/ 1 \in 1..(i - 1)
    BY <1>0
  <2> QED BY <2>1 DEF ShapeOK
<1>2. /\ r \in Seq(StepNames) /\ Len(r) = Len(s) + 3
      /\ r[1] = "force" /\ r[2] = "todisk" /\ r[3] = "discard"
      /\ \A i \in 1..Len(s) : r[i + 3] = s[i]
  BY DEF OneRound, StepNames
<1> HIDE DEF r
<1>3. \A i \in 4..Len(r) : i - 3 \in 1..Len(s) /\ r[i] = s[i - 3]
  <2> TAKE i \in 4..Len(r)
  <2>1. i - 3 \in 1..Len(s) /\ (i - 3) + 3 = i
    BY <1>0, <1>2
  <2> QED BY <1>2, <2>1
<1>4. \A i \in 2..Len(r) :
         /\ r[i] \notin {"count", "super"}
         /\ r[i] = "merge" => r[i - 1] = "space"
         /\ r[i] = "flush" => r[i - 1] = "drain"
  <2> TAKE i \in 2..Len(r)
  <2>1. CASE i \in {2, 3}
    BY <1>2, <2>1
  <2>2. CASE i = 4
    <3>1. r[4] = s[1]
      BY <1>0, <1>2, <1>3
    <3> QED BY <2>2, <3>1
  <2>3. CASE i \in 5..Len(r)
    <3>1. i - 3 \in 2..Len(s) /\ r[i] = s[i - 3] /\ r[i - 1] = s[(i - 3) - 1]
      <4>1. i \in 4..Len(r) /\ i - 1 \in 4..Len(r) /\ (i - 1) - 3 = (i - 3) - 1 /\ i - 3 \in 2..Len(s)
        BY <1>0, <1>2, <2>3
      <4>2. r[i - 1] = s[(i - 1) - 3]
        BY <1>3, <4>1
      <4> QED BY <1>3, <4>1, <4>2
    <3> QED BY <3>1 DEF ShapeOK
  <2> QED BY <1>0, <1>2, <2>1, <2>2, <2>3
<1>5. \A i \in 1..Len(r) :
         /\ r[i] \in {"end", "unmount", "leave"} => i = Len(r)
         /\ r[i] \in {"create", "space", "merge", "revert", "leave", "end"} => st
         /\ st /\ r[i] \in {"log", "super"} => \E j \in i..Len(r) : r[j] = "create"
         /\ r[i] # "create"
  <2> TAKE i \in 1..Len(r)
  <2>1. CASE i \in {1, 2, 3}
    BY <1>2, <2>1
  <2>2. CASE i \in 4..Len(r)
    <3> DEFINE k == i - 3
    <3>1. k \in 1..Len(s) /\ r[i] = s[k] /\ (i = Len(r) <=> k = Len(s))
      BY <1>0, <1>2, <1>3, <2>2
    <3> HIDE DEF k
    <3>2. ~(st /\ s[k] \in {"log", "super"})
      <4>1. st /\ s[k] \in {"log", "super"} => \E j \in k..Len(s) : s[j] = "create"
        BY <3>1 DEF ShapeOK
      <4>2. \A j \in k..Len(s) : j \in 1..Len(s)
        BY <1>0, <3>1
      <4> QED BY <1>1, <4>1, <4>2
    <3> QED BY <1>1, <3>1, <3>2 DEF ShapeOK
  <2> QED BY <1>0, <1>2, <2>1, <2>2
<1>6. ShapeOK(r, st)
  BY <1>4, <1>5 DEF ShapeOK
<1> QED BY <1>1, <1>2, <1>6 DEF r

\* A step that is done is taken from the list.
LEMMA Popped ==
  ASSUME Inv, todo # <<>>, todo' = Tail(todo), started' = started,
         leave'.blk = leave.blk \/ todo[1] = "leave",
         HasOpen' <=> HasOpen, todo[1] \notin {"create", "super"}, todo[1] = "log" => ~HasOpen,
         todo[1] = "space" => nPendingLog' + Len(newBlocks') + Reserve <= LogSize,
         todo[1] = "drain" => nPendingLog' = 0
  PROVE  /\ todo' \in Seq(StepNames)
         /\ CallShape' /\ StepsReady' /\ ~At("count")' /\ ~At("super")'
         /\ Ahead("create")' <=> Ahead("create")
<1> DEFINE s == todo
<1>1. /\ s \in Seq(StepNames) /\ Len(s) \in Nat \ {0}
      /\ todo' \in Seq(StepNames) /\ Len(todo') = Len(s) - 1
      /\ \A i \in 1..(Len(s) - 1) : todo'[i] = s[i + 1]
  BY TodoIs DEF Inv
<1>2. ShapeOK(todo, started) /\ (Ahead("leave") => leave.blk # 0)
  BY ShapeIs DEF Inv
<1>3. ShapeOK(todo', started')
  BY <1>1, <1>2, ShapeTail
<1>4. \A name : Ahead(name)' => Ahead(name)
  BY <1>1 DEF Ahead
<1>5. Ahead("create") => Ahead("create")'
  <2> HAVE Ahead("create")
  <2>1. PICK i \in 1..Len(todo) : todo[i] = "create"
    BY DEF Ahead
  <2>2. i # 1
    BY <2>1
  <2>3. i - 1 \in 1..Len(todo') /\ todo'[i - 1] = "create"
    <3>1. i - 1 \in 1..(Len(s) - 1) /\ (i - 1) + 1 = i
      BY <1>1, <2>2
    <3> QED BY <1>1, <2>1, <3>1
  <2> QED BY <2>3 DEF Ahead
<1>6. Ahead("leave")' => leave'.blk # 0
  <2> HAVE Ahead("leave")'
  <2>1. PICK i \in 1..Len(todo') : todo'[i] = "leave"
    BY DEF Ahead
  <2>2. todo[1] # "leave"
    <3>0. 1 \in 1..Len(todo)
      BY <1>1
    <3>1. todo[1] = "leave" => 1 = Len(todo)
      BY <1>2, <3>0 DEF ShapeOK
    <3> QED BY <1>1, <2>1, <3>1
  <2> QED BY <1>2, <1>4, <2>2
<1>7. CallShape'
  BY <1>3, <1>6 DEF CallShape, ShapeOK
<1>8. \A name : At(name)' <=> Len(s) > 1 /\ s[2] = name
  <2>1. \A name : At(name)' <=> Len(todo') > 0 /\ todo'[1] = name
    BY <1>1, AtIs DEF At, Next1
  <2>2. Len(todo') > 0 => todo'[1] = s[1 + 1] /\ Len(s) > 1
    BY <1>1
  <2>3. Len(s) > 1 => Len(todo') > 0
    BY <1>1
  <2> QED BY <2>1, <2>2, <2>3
<1>9. Len(s) > 1 => /\ s[2] \notin {"count", "super"}
                    /\ s[2] = "merge" => s[1] = "space"
                    /\ s[2] = "flush" => s[1] = "drain"
  <2> HAVE Len(s) > 1
  <2>1. 2 \in 2..Len(s) /\ 2 - 1 = 1
    BY <1>1
  <2> QED BY <1>2, <2>1 DEF ShapeOK
<1>10. Ahead("create") => ~At("log")'
  <2> SUFFICES ASSUME Ahead("create"), At("log")' PROVE FALSE
    OBVIOUS
  <2>1. PICK i \in 1..Len(todo') : todo'[i] = "create"
    BY <1>5 DEF Ahead
  <2>2. i + 1 \in 1..Len(s) /\ s[i + 1] = "create" /\ s[2] = "log"
    BY <1>1, <1>8, <2>1
  <2>3. 2 \in 1..((i + 1) - 1)
    BY <1>1, <2>2, <2>1
  <2> QED BY <1>2, <2>2, <2>3 DEF ShapeOK
<1>11. Ahead("create") => ~HasOpen
  <2>1. Ahead("create") => (HasOpen <=> At("log") \/ At("super"))
    BY DEF Inv, StepsReady
  <2>2. \A name : At(name) <=> todo[1] = name
    BY <1>1, TodoIs DEF Inv, Next1
  <2> QED BY <2>1, <2>2
<1>12. StepsReady'
  <2>1. started' /\ ~Ahead("create")' => HasOpen'
    BY <1>5 DEF Inv, StepsReady
  <2>2. Ahead("create")' => (HasOpen' <=> At("log")' \/ At("super")')
    BY <1>4, <1>8, <1>9, <1>10, <1>11
  <2>3. ~At("super")' /\ ~At("count")'
    BY <1>8, <1>9
  <2>4. At("merge")' => nPendingLog' + Len(newBlocks') + Reserve <= LogSize
    BY <1>8, <1>9
  <2>5. At("flush")' => nPendingLog' = 0
    BY <1>8, <1>9
  <2> QED BY <2>1, <2>2, <2>3, <2>4, <2>5 DEF StepsReady
<1> QED BY <1>1, <1>4, <1>5, <1>7, <1>8, <1>9, <1>12

\* While a call waits, no new transaction is to come.
LEMMA Waiting ==
  ASSUME Inv, mode = "mounted", todo # <<>>, todo[1] \in {"space", "drain", "leave"}
  PROVE  /\ ShapeOK(todo, started) /\ \A i \in 1..Len(todo) : todo[i] # "create"
         /\ ~Ahead("create") /\ (started => HasOpen) /\ ~At("count") /\ ~At("super")
<1>1. ShapeOK(todo, started)
  BY ShapeIs DEF Inv
<1>2. todo \in Seq(StepNames) /\ Len(todo) > 0
  BY TodoIs DEF Inv
<1>3. \A i \in 1..Len(todo) : todo[i] # "create"
  BY <1>1, <1>2, ShapeRound
<1>4. ~Ahead("create")
  BY <1>3 DEF Ahead
<1>5. \A name : At(name) <=> todo[1] = name
  BY <1>2, TodoIs DEF Inv, Next1
<1> QED BY <1>1, <1>3, <1>4, <1>5 DEF Inv, StepsReady

\* A round of the wait for log space keeps the invariant.
LEMMA SpaceInv ==
  ASSUME Inv, nLoggStart = 1, afs_wait_for_log_space
  PROVE  Inv'
<1> DEFINE n == IF Head(todo) = "drain" THEN LogSize ELSE Len(newBlocks) + Reserve
<1>1. /\ mode = "mounted" /\ todo # <<>> /\ Len(todo) > 0 /\ todo[1] \in {"space", "drain"}
      /\ Head(todo) = todo[1]
  BY TodoIs DEF afs_wait_for_log_space, Inv, Step
<1>2. /\ todo' = IF nPendingLog + n > LogSize THEN OneRound \o todo ELSE Tail(todo)
      /\ UNCHANGED <<disk, superblock, mode, nLoggStart, cache, replay, nCalls, nCrash,
                     sb, trans, nOldBlockCount, nPendingLog, newBlocks, hash, started, leave,
                     fileBlocks, nextId>>
  BY DEF afs_wait_for_log_space, InMemory
<1>3. HasOpen' <=> HasOpen
  BY <1>2 DEF HasOpen, Current
<1>4. /\ ShapeOK(todo, started) /\ ~Ahead("create") /\ (started => HasOpen)
      /\ ~At("count") /\ ~At("super") /\ todo \in Seq(StepNames)
  BY <1>1, Waiting, TodoIs DEF Inv
<1>5. nPendingLog \in Nat /\ Len(newBlocks) \in Nat /\ Reserve \in Nat /\ LogSize \in Nat
  BY SizesIs, NewIs DEF Inv
<1>6. /\ todo' \in Seq(StepNames) /\ CallShape' /\ StepsReady' /\ ~At("count")' /\ ~At("super")'
  <2>1. CASE nPendingLog + n > LogSize
    <3>1. todo' = OneRound \o todo
      BY <1>2, <2>1
    <3>2. /\ todo' \in Seq(StepNames) /\ Len(todo') = Len(todo) + 3
          /\ todo'[1] = "force" /\ todo'[2] = "todisk" /\ todo'[3] = "discard"
          /\ \A i \in 1..Len(todo) : todo'[i + 3] = todo[i]
          /\ ShapeOK(todo', started)
          /\ \A i \in 1..Len(todo) : todo[i] # "create"
      BY <1>1, <1>4, <3>1, ShapeRound
    <3>3. \A i \in 1..Len(todo') : i \in {1, 2, 3} \/ (i - 3 \in 1..Len(todo) /\ todo'[i] = todo[i - 3])
      <4> TAKE i \in 1..Len(todo')
      <4>1. i \in {1, 2, 3} \/ (i - 3 \in 1..Len(todo) /\ (i - 3) + 3 = i)
        BY <1>1, <1>4, <3>2
      <4> QED BY <3>2, <4>1
    <3>4. ~Ahead("create")' /\ (Ahead("leave")' => Ahead("leave"))
      BY <3>2, <3>3 DEF Ahead
    <3>5. CallShape'
      <4>1. Ahead("leave")' => leave'.blk # 0
        BY <1>2, <3>4 DEF Inv, CallShape
      <4>2. ShapeOK(todo', started')
        BY <1>2, <3>2
      <4> QED BY <4>1, <4>2 DEF CallShape, ShapeOK
    <3>6. Len(todo') > 0
      BY <1>1, <1>4, <3>2
    <3> QED BY <1>2, <1>3, <1>4, <3>2, <3>4, <3>5, <3>6, ReadyFor
  <2>2. CASE ~(nPendingLog + n > LogSize)
    <3>1. todo' = Tail(todo)
      BY <1>2, <2>2
    <3>2. todo[1] = "space" => nPendingLog' + Len(newBlocks') + Reserve <= LogSize
      BY <1>1, <1>2, <1>5, <2>2
    <3>3. todo[1] = "drain" => nPendingLog' = 0
      BY <1>1, <1>2, <1>5, <2>2
    <3> HIDE DEF n
    <3> QED BY <1>1, <1>2, <1>3, <3>1, <3>2, <3>3, Popped
  <2> QED BY <2>1, <2>2
<1> HIDE DEF n
<1>7. TypeOK'
  BY <1>2, <1>6, LeaveIs, TypeTodo DEF Inv
<1> QED BY <1>1, <1>2, <1>4, <1>6, <1>7, OnlyTodo

\* A round of the wait for a block to leave the log keeps the invariant.
LEMMA LeaveRoundInv ==
  ASSUME Inv, nLoggStart = 1, wait_for_block_to_leave_log_round
  PROVE  Inv'
<1>1. /\ mode = "mounted" /\ todo # <<>> /\ Len(todo) > 0 /\ todo[1] = "leave"
      /\ Next1(todo, "leave") /\ At("leave")
  BY TodoIs DEF wait_for_block_to_leave_log_round, Inv, Step, Next1
<1>2. UNCHANGED <<disk, superblock, mode, nLoggStart, cache, replay, nCalls, nCrash,
                  sb, trans, nOldBlockCount, nPendingLog, newBlocks, hash, started, nextId>>
  BY DEF wait_for_block_to_leave_log_round, InMemory
<1>3. HasOpen' <=> HasOpen
  BY <1>2 DEF HasOpen, Current
<1>4. /\ ShapeOK(todo, started) /\ ~Ahead("create") /\ (started => HasOpen)
      /\ ~At("count") /\ ~At("super") /\ todo \in Seq(StepNames)
      /\ \A i \in 1..Len(todo) : todo[i] # "create"
  BY <1>1, Waiting, TodoIs DEF Inv
<1>5. /\ leave \in [blk : {0} \cup Block, run : 0..3, got : SUBSET Block]
      /\ leave.blk \in {0} \cup Block /\ leave.run \in 0..3 /\ leave.got \subseteq Block
      /\ fileBlocks \subseteq Block
  BY LeaveIs DEF Inv
<1>6. leave.blk # 0 /\ leave.blk \in Block
  <2>1. Ahead("leave")
    <3>1. 1 \in 1..Len(todo)
      BY <1>1, <1>4, AtIs
    <3> QED BY <1>1, <3>1 DEF Ahead
  <2> QED BY <1>5, <2>1 DEF Inv, CallShape
<1>7. CASE hash[leave.blk].present
  <2>1. /\ todo' = (IF leave.run = 2 THEN <<"log", "create">> ELSE <<>>) \o OneRound \o todo
        /\ leave' = [leave EXCEPT !.run = IF @ < 3 THEN @ + 1 ELSE @]
        /\ fileBlocks' = fileBlocks
    BY <1>7 DEF wait_for_block_to_leave_log_round
  <2>2. /\ leave' \in [blk : {0} \cup Block, run : 0..3, got : SUBSET Block]
        /\ leave'.blk = leave.blk
    <3> DEFINE r == IF leave.run < 3 THEN leave.run + 1 ELSE leave.run
    <3>1. leave' = [blk |-> leave.blk, run |-> r, got |-> leave.got]
      BY <1>5, <2>1
    <3>2. r \in 0..3
      BY <1>5
    <3> HIDE DEF r
    <3> QED BY <1>5, <3>1, <3>2
  <2> DEFINE s == OneRound \o todo
  <2>3. /\ s \in Seq(StepNames) /\ Len(s) = Len(todo) + 3
        /\ s[1] = "force" /\ s[2] = "todisk" /\ s[3] = "discard"
        /\ \A i \in 1..Len(todo) : s[i + 3] = todo[i]
        /\ ShapeOK(s, started)
    BY <1>1, <1>4, ShapeRound
  <2>4. \A i \in 1..Len(s) : s[i] # "create"
    <3> HIDE DEF s
    <3> TAKE i \in 1..Len(s)
    <3>1. i \in {1, 2, 3} \/ (i - 3 \in 1..Len(todo) /\ (i - 3) + 3 = i)
      BY <1>1, <1>4, <2>3
    <3> QED BY <1>4, <2>3, <3>1
  <2>5. Len(s) > 0 /\ Len(s) \in Nat
    BY <1>1, <1>4, <2>3
  <2>6. /\ todo' \in Seq(StepNames) /\ Len(todo') > 0 /\ ShapeOK(todo', started)
        /\ todo'[1] \in {"log", "force"}
        /\ (todo'[1] = "force" => \A i \in 1..Len(todo') : todo'[i] # "create")
    <3>1. CASE leave.run = 2
      <4>1. todo' = (<<"log", "create">> \o OneRound) \o todo
        BY <2>1, <3>1
      <4>2. todo' = <<"log", "create">> \o s
        BY <1>4, <4>1 DEF OneRound, StepNames
      <4>3. started
        <5>1. 1 \in 1..Len(todo)
          BY <1>1, <1>4, AtIs
        <5> QED BY <1>1, <1>4, <5>1 DEF ShapeOK
      <4> HIDE DEF s
      <4>4. /\ todo' \in Seq(StepNames) /\ Len(todo') = Len(s) + 2
            /\ todo'[1] = "log" /\ todo'[2] = "create"
            /\ \A i \in 1..Len(s) : todo'[i + 2] = s[i]
        BY <2>3, <4>2 DEF StepNames
      <4>5. \A i \in 3..Len(todo') : i - 2 \in 1..Len(s) /\ todo'[i] = s[i - 2]
        <5> TAKE i \in 3..Len(todo')
        <5>1. i - 2 \in 1..Len(s) /\ (i - 2) + 2 = i
          BY <2>5, <4>4
        <5> QED BY <4>4, <5>1
      <4>6. \A i \in 2..Len(todo') :
               /\ todo'[i] \notin {"count", "super"}
               /\ todo'[i] = "merge" => todo'[i - 1] = "space"
               /\ todo'[i] = "flush" => todo'[i - 1] = "drain"
        <5> TAKE i \in 2..Len(todo')
        <5>1. CASE i = 2
          BY <4>4, <5>1
        <5>2. CASE i = 3
          BY <2>3, <4>5, <5>2
        <5>3. CASE i \in 4..Len(todo')
          <6>1. i \in 3..Len(todo') /\ i - 1 \in 3..Len(todo') /\ (i - 1) - 2 = (i - 2) - 1
                /\ i - 2 \in 2..Len(s)
            BY <2>5, <4>4, <5>3
          <6>2. todo'[i] = s[i - 2] /\ todo'[i - 1] = s[(i - 2) - 1]
            BY <4>5, <6>1
          <6> QED BY <2>3, <6>1, <6>2 DEF ShapeOK
        <5> QED BY <2>5, <4>4, <5>1, <5>2, <5>3
      <4>7. \A i \in 1..Len(todo') :
               /\ todo'[i] \in {"end", "unmount", "leave"} => i = Len(todo')
               /\ todo'[i] \in {"log", "super"} => \E j \in i..Len(todo') : todo'[j] = "create"
               /\ todo'[i] = "create" => i = 2
        <5> TAKE i \in 1..Len(todo')
        <5>1. CASE i \in {1, 2}
          <6>1. 2 \in i..Len(todo')
            BY <2>5, <4>4, <5>1
          <6> QED BY <4>4, <5>1, <6>1
        <5>2. CASE i \in 3..Len(todo')
          <6> DEFINE k == i - 2
          <6>1. k \in 1..Len(s) /\ todo'[i] = s[k] /\ (i = Len(todo') <=> k = Len(s))
            BY <2>5, <4>4, <4>5, <5>2
          <6> HIDE DEF k
          <6>2. s[k] \notin {"log", "super"}
            <7>1. s[k] \in {"log", "super"} => \E j \in k..Len(s) : s[j] = "create"
              BY <2>3, <4>3, <6>1 DEF ShapeOK
            <7>2. \A j \in k..Len(s) : j \in 1..Len(s)
              BY <2>5, <6>1
            <7> QED BY <2>4, <7>1, <7>2
          <6> QED BY <2>3, <2>4, <6>1, <6>2 DEF ShapeOK
        <5> QED BY <2>5, <4>4, <5>1, <5>2
      <4>8. ShapeOK(todo', started)
        <5>1. \A i \in 1..Len(todo') : todo'[i] = "create" =>
                \A j \in 1..(i - 1) : j = 1 /\ todo'[j] \in {"log", "super"}
          BY <2>5, <4>4, <4>7
        <5> QED BY <4>3, <4>6, <4>7, <5>1 DEF ShapeOK
      <4> QED BY <2>5, <4>4, <4>8
    <3>2. CASE leave.run # 2
      <4>1. todo' = (<<>> \o OneRound) \o todo
        BY <2>1, <3>2
      <4>2. <<>> \o OneRound = OneRound
        BY DEF OneRound
      <4>3. todo' = s
        BY <4>1, <4>2
      <4> QED BY <2>3, <2>4, <2>5, <4>3
    <3> QED BY <3>1, <3>2
  <2>7. Ahead("create")' => todo'[1] = "log"
    BY <2>6 DEF Ahead
  <2>8. CallShape'
    <3>1. ShapeOK(todo', started') /\ leave'.blk # 0
      BY <1>2, <1>6, <2>2, <2>6
    <3> QED BY <3>1 DEF CallShape, ShapeOK
  <2>9. HasOpen
    <3>1. 1 \in 1..Len(todo)
      BY <1>1, <1>4, AtIs
    <3> QED BY <1>1, <1>4, <3>1 DEF ShapeOK
  <2>10. StepsReady' /\ ~At("count")' /\ ~At("super")'
    BY <1>3, <2>6, <2>7, <2>9, ReadyFor
  <2>11. TypeOK'
    BY <1>2, <1>5, <2>1, <2>2, <2>6, LeaveIs, TypeTodo DEF Inv
  <2> QED BY <1>1, <1>2, <1>4, <2>8, <2>10, <2>11, OnlyTodo
<1>8. CASE ~hash[leave.blk].present
  <2>1. /\ todo' = Tail(todo)
        /\ leave' = [blk |-> 0, run |-> 0, got |-> leave.got \cup {leave.blk}]
        /\ fileBlocks' = fileBlocks \cup {leave.blk}
    BY <1>8 DEF wait_for_block_to_leave_log_round
  <2>2. leave' \in [blk : {0} \cup Block, run : 0..3, got : SUBSET Block]
        /\ fileBlocks' \subseteq Block
    <3>1. leave.got \cup {leave.blk} \in SUBSET Block /\ 0 \in 0..3
      BY <1>5, <1>6
    <3> QED BY <1>5, <1>6, <2>1, <3>1
  <2>3. /\ todo' \in Seq(StepNames) /\ CallShape' /\ StepsReady' /\ ~At("count")' /\ ~At("super")'
    BY <1>1, <1>2, <1>3, <2>1, Popped
  <2>4. TypeOK'
    BY <1>2, <2>2, <2>3, LeaveIs, TypeTodo DEF Inv
  <2> QED BY <1>1, <1>2, <1>4, <2>3, <2>4, OnlyTodo
<1> QED BY <1>7, <1>8

\* A merge that gets no memory takes back all it did.
LEMMA MergeTakesBack ==
  ASSUME Inv, merge_fails
  PROVE  UNCHANGED <<disk, superblock, mode, nLoggStart, cache, replay, nCalls, nCrash,
                     sb, trans, nOldBlockCount, nPendingLog, newBlocks, hash, started, nextId,
                     leave, fileBlocks>>
<1>1. /\ todo # <<>> /\ Len(todo) > 0 /\ todo[1] = "merge"
  BY TodoIs DEF merge_fails, Inv, Step, Next1
<1>2. Len(todo) \in Nat \ {0} /\ 1 \in 1..Len(todo)
  BY <1>1, TodoIs DEF Inv, Next1
<1>3. ShapeOK(todo, started) /\ started
  <2>1. ShapeOK(todo, started)
    BY ShapeIs DEF Inv
  <2> QED BY <1>1, <1>2, <2>1 DEF ShapeOK
<1>4. \A i \in 1..Len(todo) : todo[i] # "create"
  <2> SUFFICES ASSUME NEW i \in 1..Len(todo), todo[i] = "create" PROVE FALSE
    OBVIOUS
  <2>1. i = 1 \/ 1 \in 1..(i - 1)
    BY <1>2
  <2> QED BY <1>1, <1>3, <2>1 DEF ShapeOK
<1>5. HasOpen
  BY <1>3, <1>4 DEF Inv, StepsReady, Ahead
<1>6. /\ trans \in Seq(Transaction) /\ Len(trans) \in 1..Len(trans) /\ Current = trans[Len(trans)]
      /\ nOldBlockCount \in Nat /\ nPendingLog \in Nat
  <2>1. TypeOK /\ trans # <<>>
    BY <1>5 DEF Inv, HasOpen
  <2>2. nOldBlockCount \in Nat /\ nPendingLog \in Nat
    BY <2>1 DEF TypeOK
  <2> QED BY <2>1, <2>2, ListIs
<1>7. Len(Current.blocks) \in Nat /\ Current \in Transaction /\ Current.count \in Nat
  BY <1>6, TransIs DEF Inv
<1>8. PICK n \in 0..(Len(Fresh) - 1) :
        LET old    == Len(Current.blocks)
            nIndex == Buffers(old + n) - Buffers(old)
        IN  /\ (old + n) % BufBlocks = 0
            /\ trans' = [trans EXCEPT ![Len(trans)].count = @ + nIndex - TakenBack(n)]
            /\ nOldBlockCount' = nOldBlockCount + nIndex - TakenBack(n)
            /\ nPendingLog' = nPendingLog + nIndex - TakenBack(n)
  BY DEF merge_fails
<1>9. n \in Nat
  OBVIOUS
<1> DEFINE nIndex == Buffers(Len(Current.blocks) + n) - Buffers(Len(Current.blocks))
<1>10. nIndex = TakenBack(n) /\ nIndex \in Int
  BY <1>7, <1>8, <1>9, TakenBackIs, BuffersIs
<1>11. nOldBlockCount' = nOldBlockCount /\ nPendingLog' = nPendingLog
  BY <1>6, <1>8, <1>10
<1>12. trans' = trans
  <2>1. trans' = [trans EXCEPT ![Len(trans)].count = trans[Len(trans)].count + nIndex - TakenBack(n)]
    BY <1>8
  <2>2. trans[Len(trans)].count + nIndex - TakenBack(n) = trans[Len(trans)].count
    BY <1>6, <1>7, <1>10
  <2> HIDE DEF nIndex
  <2> QED BY <1>6, <1>7, <2>1, <2>2 DEF Transaction
<1> QED BY <1>11, <1>12 DEF merge_fails, InMemory

\* A merge that gets no memory keeps the invariant.
LEMMA MergeFailsInv ==
  ASSUME Inv, nLoggStart = 1, merge_fails
  PROVE  Inv'
<1>1. /\ mode = "mounted" /\ todo # <<>> /\ Len(todo) > 0 /\ todo[1] = "merge"
  BY TodoIs DEF merge_fails, Inv, Step, Next1
<1>2. /\ UNCHANGED <<disk, superblock, mode, nLoggStart, cache, replay, nCalls, nCrash,
                     sb, trans, nOldBlockCount, nPendingLog, newBlocks, hash, started, nextId,
                     leave, fileBlocks>>
      /\ todo' = IF Last(todo) = "end" THEN <<"revert">> \o Tail(todo) ELSE <<>>
  <2>1. todo' = IF Last(todo) = "end" THEN <<"revert">> \o Tail(todo) ELSE <<>>
    BY DEF merge_fails
  <2> QED BY <2>1, MergeTakesBack
<1>3. HasOpen' <=> HasOpen
  BY <1>2 DEF HasOpen, Current
<1>4. /\ todo \in Seq(StepNames) /\ Tail(todo) \in Seq(StepNames) /\ Len(todo) \in Nat \ {0}
      /\ Len(Tail(todo)) = Len(todo) - 1 /\ 1 \in 1..Len(todo)
      /\ \A i \in 1..(Len(todo) - 1) : Tail(todo)[i] = todo[i + 1]
      /\ \A name : At(name) <=> todo[1] = name
  BY <1>1, TodoIs DEF Inv, Next1
<1>5. ShapeOK(todo, started) /\ started
  <2>1. ShapeOK(todo, started)
    BY ShapeIs DEF Inv
  <2> QED BY <1>1, <1>4, <2>1 DEF ShapeOK
<1>6. \A i \in 1..Len(todo) : todo[i] # "create"
  <2> SUFFICES ASSUME NEW i \in 1..Len(todo), todo[i] = "create" PROVE FALSE
    OBVIOUS
  <2>1. i = 1 \/ 1 \in 1..(i - 1)
    BY <1>4
  <2> QED BY <1>1, <1>5, <2>1 DEF ShapeOK
<1>7. HasOpen
  BY <1>5, <1>6 DEF Inv, StepsReady, Ahead
<1>8. \A i \in 1..Len(todo) : todo[i] \notin {"log", "super"}
  <2> SUFFICES ASSUME NEW i \in 1..Len(todo), todo[i] \in {"log", "super"} PROVE FALSE
    OBVIOUS
  <2>1. PICK j \in i..Len(todo) : todo[j] = "create"
    BY <1>5 DEF ShapeOK
  <2>2. j \in 1..Len(todo)
    BY <1>4
  <2> QED BY <1>6, <2>1, <2>2
<1>9. CASE Last(todo) = "end"
  <2>1. todo' = <<"revert">> \o Tail(todo)
    BY <1>2, <1>9
  <2>2. /\ todo' \in Seq(StepNames) /\ Len(todo') = Len(todo) /\ todo'[1] = "revert"
        /\ \A i \in 1..(Len(todo) - 1) : todo'[i + 1] = Tail(todo)[i]
    BY <1>4, <2>1 DEF StepNames
  <2>3. \A i \in 2..Len(todo) : i - 1 \in 1..(Len(todo) - 1) /\ i \in 1..Len(todo) /\ todo'[i] = todo[i]
    <3> TAKE i \in 2..Len(todo)
    <3>1. i - 1 \in 1..(Len(todo) - 1) /\ (i - 1) + 1 = i /\ i \in 1..Len(todo)
      BY <1>4
    <3>2. todo'[(i - 1) + 1] = Tail(todo)[i - 1] /\ Tail(todo)[i - 1] = todo[(i - 1) + 1]
      BY <1>4, <2>2, <3>1
    <3> QED BY <3>1, <3>2
  <2>4. \A i \in 2..Len(todo') :
           /\ todo'[i] \notin {"count", "super"}
           /\ todo'[i] = "merge" => todo'[i - 1] = "space"
           /\ todo'[i] = "flush" => todo'[i - 1] = "drain"
    <3> TAKE i \in 2..Len(todo')
    <3>1. i \in 2..Len(todo) /\ todo'[i] = todo[i]
      BY <2>2, <2>3
    <3>2. i = 2 => todo[i - 1] = "merge"
      BY <1>1
    <3>3. i # 2 => i - 1 \in 2..Len(todo) /\ todo'[i - 1] = todo[i - 1]
      BY <1>4, <2>3, <3>1
    <3>4. /\ todo[i] \notin {"count", "super"}
          /\ todo[i] = "merge" => todo[i - 1] = "space"
          /\ todo[i] = "flush" => todo[i - 1] = "drain"
      BY <1>5, <3>1 DEF ShapeOK
    <3> QED BY <3>1, <3>2, <3>3, <3>4
  <2>5. \A i \in 1..Len(todo') :
           /\ todo'[i] \in {"end", "unmount", "leave"} => i = Len(todo')
           /\ todo'[i] \notin {"log", "super", "create"}
    <3> TAKE i \in 1..Len(todo')
    <3>1. CASE i = 1
      BY <2>2, <3>1
    <3>2. CASE i \in 2..Len(todo)
      BY <1>5, <1>6, <1>8, <2>2, <2>3, <3>2 DEF ShapeOK
    <3> QED BY <1>4, <2>2, <3>1, <3>2
  <2>6. ShapeOK(todo', started')
    BY <1>2, <1>5, <2>4, <2>5 DEF ShapeOK
  <2>7. Ahead("leave")' => Ahead("leave")
    <3> HAVE Ahead("leave")'
    <3>1. PICK i \in 1..Len(todo') : todo'[i] = "leave"
      BY DEF Ahead
    <3>2. i # 1 /\ i \in 2..Len(todo) /\ i \in 1..Len(todo)
      BY <1>4, <2>2, <3>1
    <3> QED BY <2>3, <3>1, <3>2 DEF Ahead
  <2>8. CallShape'
    <3>1. Ahead("leave")' => leave'.blk # 0
      BY <1>2, <2>7 DEF Inv, CallShape
    <3> QED BY <2>6, <3>1 DEF CallShape, ShapeOK
  <2>9. ~Ahead("create")'
    BY <2>5 DEF Ahead
  <2>10. StepsReady' /\ ~At("count")' /\ ~At("super")'
    BY <1>3, <1>4, <1>7, <2>2, <2>9, ReadyFor
  <2>11. TypeOK'
    BY <1>2, <2>2, LeaveIs, TypeTodo DEF Inv
  <2>12. ~At("count")
    BY <1>1, <1>4
  <2> QED BY <1>1, <1>2, <2>8, <2>10, <2>11, <2>12, OnlyTodo
<1>10. CASE Last(todo) # "end"
  <2>1. todo' = <<>> /\ Len(todo') = 0
    BY <1>2, <1>10
  <2>2. \A name : ~At(name)' /\ ~Ahead(name)'
    BY <2>1 DEF At, Ahead
  <2>3. CallShape'
    BY <2>1, <2>2 DEF CallShape
  <2>4. StepsReady'
    BY <1>3, <1>7, <2>2 DEF StepsReady
  <2>5. TypeOK'
    BY <1>2, <2>1, LeaveIs, TypeTodo DEF Inv
  <2>6. ~At("count")
    BY <1>1, <1>4
  <2> QED BY <1>1, <1>2, <2>2, <2>3, <2>4, <2>5, <2>6, OnlyTodo
<1> QED BY <1>9, <1>10

\* The end of the operation keeps the invariant.
LEMMA EndedInv ==
  ASSUME Inv, nLoggStart = 1, transaction_ended
  PROVE  Inv'
<1>1. /\ mode = "mounted" /\ todo # <<>> /\ todo[1] = "end" /\ Len(todo) \in Nat \ {0}
      /\ \A name : At(name) <=> todo[1] = name
  BY TodoIs DEF transaction_ended, Inv, Step, Next1
<1>2. /\ started' = FALSE /\ todo' = Tail(todo)
      /\ UNCHANGED <<disk, superblock, mode, nLoggStart, cache, replay, nCalls, nCrash,
                     sb, trans, nOldBlockCount, nPendingLog, newBlocks, hash, nextId,
                     leave, fileBlocks>>
  BY DEF transaction_ended, InMemory
<1>3. Len(todo) = 1
  <2>1. ShapeOK(todo, started) /\ 1 \in 1..Len(todo)
    BY <1>1, ShapeIs DEF Inv
  <2> QED BY <1>1, <2>1 DEF ShapeOK
<1>4. todo' \in Seq(StepNames) /\ Len(todo') = 0 /\ todo' = <<>>
  <2>1. Tail(todo) \in Seq(StepNames) /\ Len(Tail(todo)) = 0
    BY <1>1, <1>3, TodoIs DEF Inv
  <2> QED BY <1>2, <2>1, EmptyIs
<1>5. \A name : ~At(name)' /\ ~Ahead(name)'
  BY <1>4 DEF At, Ahead
<1>6. CallShape'
  BY <1>4, <1>5 DEF CallShape
<1>7. StepsReady'
  BY <1>2, <1>5 DEF StepsReady
<1>8. TypeOK'
  BY <1>2, <1>4 DEF Inv, TypeOK
<1> QED BY <1>1, <1>2, <1>5, <1>6, <1>7, <1>8, OnlyTodo
-----------------------------------------------------------------------------
(* A new transaction.                                                      *)

\* A new transaction is empty and starts in the log where the last one ends.
LEMMA NewTransactionIs ==
  ASSUME Inv, nLoggStart = 1
  PROVE  /\ NewTransaction \in Transaction
         /\ NewTransaction.id = nextId /\ NewTransaction.count = 0 /\ NewTransaction.blocks = <<>>
         /\ ~NewTransaction.logged /\ ~NewTransaction.ondisk
         /\ NewTransaction.pending = 0 /\ NewTransaction.written = 0
         /\ NewTransaction.start = IF trans = <<>> THEN nLoggStart
                                   ELSE LogPos(Current.start, nLoggStart, nLoggEnd, Current.count)
         /\ NewTransaction.start \in 1..LogSize
<1> DEFINE s == IF trans = <<>> THEN nLoggStart
                ELSE LogPos(Current.start, nLoggStart, nLoggEnd, Current.count)
<1>1. s \in 1..LogSize
  <2>1. CASE trans = <<>>
    BY <2>1, SizesIs
  <2>2. CASE trans # <<>>
    <3>1. Current = trans[Len(trans)] /\ Len(trans) \in 1..Len(trans) /\ Len(trans) \in Nat
          /\ trans \in Seq(Transaction)
      BY <2>2, ListIs DEF Inv
    <3>2. Current.start \in 1..LogSize
      BY <3>1, PosHere DEF Inv, ListInOrder
    <3>3. Current.count \in 0..LogSize
      <4>1. LogSums(trans)[Len(trans) + 1] = LogSums(trans)[Len(trans)] + trans[Len(trans)].count
            /\ LogSums(trans)[Len(trans)] \in Nat
        BY <3>1, SumsStep
      <4>2. Current.count \in Nat /\ nPendingLog \in Nat
        BY <3>1, TransIs, NewIs DEF Inv
      <4>3. nPendingLog = LogSums(trans)[Len(trans) + 1] /\ nPendingLog <= LogSize
        BY DEF Inv, CountsAgree
      <4> QED BY <3>1, <4>1, <4>2, <4>3, SizesIs
    <3>4. Pos(Current.start, Current.count) \in 1..LogSize
      BY <3>2, <3>3, PosIn
    <3> QED BY <2>2, <3>4, PosHere
  <2> QED BY <2>1, <2>2
<1>2. NewTransaction = [id |-> nextId, count |-> 0, blocks |-> <<>>, logged |-> FALSE,
                        ondisk |-> FALSE, pending |-> 0, written |-> 0, start |-> s]
  BY DEF NewTransaction
<1>3. nextId \in Nat /\ s \in Nat
  BY <1>1, LeaveIs, SizesIs DEF Inv
<1> HIDE DEF s
<1>4. NewTransaction \in Transaction
  BY <1>2, <1>3 DEF Transaction
<1> QED BY <1>1, <1>2, <1>4 DEF s

\* An empty transaction has no log.
LEMMA EmptyImage == <<>> \in Copies /\ Len(LogImage(<<>>)) = 0
<1>1. <<>> \in Copies
  BY DEF Copies
<1>2. Len(LogImage(<<>>)) = Len(<<>>) + Buffers(Len(<<>>))
  BY <1>1, ImageIs
<1>3. Len(<<>>) = 0 /\ Buffers(0) = 0
  BY BuffersIs
<1> QED BY <1>1, <1>2, <1>3

\* A new transaction keeps the invariant when none is open.
LEMMA CreateInv ==
  ASSUME Inv, nLoggStart = 1, mode = "mounted", ~HasOpen, afs_create_transaction,
         UNCHANGED <<disk, superblock, mode, nLoggStart, sb, nOldBlockCount, nPendingLog,
                     newBlocks, hash, replay, cache>>,
         TypeOK', CallShape', StepsReady', ~At("count"), ~At("count")', ~At("super")'
  PROVE  Inv'
<1> PICK n : n = Len(trans)
  OBVIOUS
<1> PICK t : t = NewTransaction
  OBVIOUS
<1>1. /\ trans' = Append(trans, t) /\ nextId' = nextId + 1 /\ nextId \in Nat \ {0}
      /\ trans \in Seq(Transaction) /\ n \in Nat /\ (trans = <<>> <=> n = 0)
      /\ Current = trans[n] /\ Oldest = trans[1]
  BY ListIs, LeaveIs DEF Inv, afs_create_transaction
<1>2. /\ t \in Transaction
      /\ t.id = nextId /\ t.count = 0 /\ t.blocks = <<>> /\ ~t.logged /\ ~t.ondisk
      /\ t.pending = 0 /\ t.written = 0 /\ t.start \in 1..LogSize
      /\ t.start = IF trans = <<>> THEN nLoggStart
                   ELSE LogPos(Current.start, nLoggStart, nLoggEnd, Current.count)
  BY NewTransactionIs
<1>3. /\ trans' \in Seq(Transaction) /\ Len(trans') = n + 1 /\ trans'[n + 1] = t
      /\ \A i \in 1..n : trans'[i] = trans[i]
      /\ \A i \in 1..(n + 1) : LogSums(trans')[i] = LogSums(trans)[i]
      /\ LogSums(trans')[n + 2] = LogSums(trans)[n + 1] + t.count
      /\ LogSums(trans)[n + 1] \in Nat
  <2>1. /\ trans' \in Seq(Transaction) /\ Len(trans') = Len(trans) + 1 /\ trans'[Len(trans) + 1] = t
        /\ \A i \in 1..Len(trans) : trans'[i] = trans[i]
        /\ \A i \in 1..(Len(trans) + 1) : LogSums(trans')[i] = LogSums(trans)[i]
        /\ LogSums(trans')[Len(trans) + 2] = LogSums(trans)[Len(trans) + 1] + t.count
    BY <1>1, <1>2, SumsAppend
  <2>2. LogSums(trans)[n + 1] \in Nat
    BY <1>1, SumsStep
  <2> QED BY <2>1, <2>2
<1>4. /\ Current' = t /\ HasOpen' /\ trans' # <<>> /\ Oldest' = trans'[1]
      /\ Oldest' = IF trans = <<>> THEN t ELSE Oldest
      /\ nLoggEnd' = nLoggEnd /\ nLoggEnd = LogSize
  <2>1. trans' # <<>>
    BY <1>1, <1>3
  <2>2. Current' = t
    BY <1>3 DEF Current, Last
  <2>3. Oldest' = trans'[1]
    BY <2>1 DEF Oldest
  <2> QED BY <1>1, <1>2, <1>3, <2>1, <2>2, <2>3, PosHere DEF HasOpen, nLoggEnd
<1>5. n > 0 => trans[n].logged
  <2>1. n > 0 => trans[n].logged \in BOOLEAN
    BY <1>1, TransIs DEF Inv
  <2> QED BY <1>1, <2>1, ListIs DEF Inv
<1>6. CountsAgree'
  <2>1. ASSUME NEW i \in 1..Len(trans')
        PROVE  trans'[i].count = Len(LogImage(trans'[i].blocks))
    <3>1. CASE i = n + 1
      BY <1>2, <1>3, <3>1, EmptyImage
    <3>2. CASE i \in 1..n
      BY <1>3, <3>2 DEF Inv, CountsAgree
    <3> QED BY <1>1, <1>3, <3>1, <3>2
  <2>2. nOldBlockCount' = IF HasOpen' THEN Current'.count ELSE 0
    BY <1>2, <1>4 DEF Inv, CountsAgree
  <2>3. nPendingLog' = LogSums(trans')[Len(trans') + 1] /\ nPendingLog' <= LogSize
    <3>1. nPendingLog = LogSums(trans)[n + 1] /\ nPendingLog <= LogSize
      BY DEF Inv, CountsAgree
    <3>2. (n + 1) + 1 = n + 2
      BY <1>1
    <3> QED BY <1>2, <1>3, <3>1, <3>2
  <2> QED BY <2>1, <2>2, <2>3 DEF CountsAgree
<1>7. ListInOrder'
  <2>1. ASSUME NEW i \in 1..Len(trans')
        PROVE  /\ trans'[i].id \in 1..(nextId' - 1)
               /\ trans'[i].start \in nLoggStart'..nLoggEnd'
               /\ trans'[i].written <= Len(trans'[i].blocks)
               /\ trans'[i].written > 0 \/ trans'[i].ondisk => i = 1 /\ trans'[i].logged
               /\ trans'[i].ondisk => trans'[i].written = Len(trans'[i].blocks)
    <3>1. CASE i = n + 1
      <4>1. trans'[i] = t /\ Len(<<>>) = 0
        BY <1>3, <3>1
      <4> QED BY <1>1, <1>2, <1>4, <4>1
    <3>2. CASE i \in 1..n
      <4>1. /\ trans[i].id \in 1..(nextId - 1)
            /\ trans[i].start \in nLoggStart..nLoggEnd
            /\ trans[i].written <= Len(trans[i].blocks)
            /\ trans[i].written > 0 \/ trans[i].ondisk => i = 1 /\ trans[i].logged
            /\ trans[i].ondisk => trans[i].written = Len(trans[i].blocks)
        BY <3>2 DEF Inv, ListInOrder
      <4>2. trans'[i] = trans[i]
        BY <1>3, <3>2
      <4> QED BY <1>1, <1>4, <4>1, <4>2
    <3> QED BY <1>1, <1>3, <3>1, <3>2
  <2>2. ASSUME NEW i \in 2..Len(trans')
        PROVE  /\ trans'[i - 1].logged
               /\ trans'[i - 1].id < trans'[i].id
               /\ trans'[i].start = LogPos(trans'[i - 1].start, nLoggStart', nLoggEnd', trans'[i - 1].count)
    <3>1. CASE i = n + 1
      <4>1. trans'[i] = t /\ i - 1 = n /\ n \in 1..n /\ n > 0 /\ trans'[n] = trans[n]
        BY <1>1, <1>3, <3>1
      <4>2. trans[n].id \in 1..(nextId - 1)
        BY <4>1 DEF Inv, ListInOrder
      <4>3. t.start = LogPos(trans[n].start, nLoggStart, nLoggEnd, trans[n].count)
        BY <1>1, <1>2, <4>1
      <4> QED BY <1>1, <1>2, <1>4, <1>5, <4>1, <4>2, <4>3
    <3>2. CASE i \in 2..n
      <4>1. /\ trans[i - 1].logged
            /\ trans[i - 1].id < trans[i].id
            /\ trans[i].start = LogPos(trans[i - 1].start, nLoggStart, nLoggEnd, trans[i - 1].count)
        BY <3>2 DEF Inv, ListInOrder
      <4>2. trans'[i] = trans[i] /\ trans'[i - 1] = trans[i - 1]
        BY <1>1, <1>3, <3>2
      <4> QED BY <1>4, <4>1, <4>2
    <3> QED BY <1>1, <1>3, <3>1, <3>2
  <2> QED BY <2>1, <2>2 DEF ListInOrder
<1>8. CacheFollows'
  <2>1. Handed' = Handed
    BY <1>2, <1>4 DEF Handed
  <2>2. \A b : CachedRead(b)' = CachedRead(b)
    BY DEF CachedRead
  <2>3. CacheFollows
    BY DEF Inv
  <2>4. ASSUME NEW b \in Block, cache[b].func # 0
        PROVE  trans # <<>> /\ cache[b].func = Oldest.id /\ Oldest' = Oldest /\ cache[b].func # nextId
    <3>1. trans # <<>> /\ cache[b].func = Oldest.id
      BY <2>3, <2>4 DEF CacheFollows
    <3>2. Oldest.id \in 1..(nextId - 1)
      BY <1>1, <3>1, ListIs DEF Inv, ListInOrder
    <3> QED BY <1>1, <1>4, <3>1, <3>2
  <2>5. \A b \in Block : cache'[b].dirty => cache'[b].func # 0
    BY <2>3 DEF CacheFollows
  <2>6. \A b \in Block : cache'[b].func # 0 =>
         /\ cache'[b].dirty
         /\ trans' # <<>> /\ cache'[b].func = Oldest'.id
         /\ \E p \in 1..Handed' : BufferOrder(Oldest'.blocks)[p].blk = b
    BY <1>4, <2>1, <2>3, <2>4 DEF CacheFollows
  <2>7. (\A p \in 1..Handed :
           CachedRead(BufferOrder(Oldest.blocks)[p].blk) = BufferOrder(Oldest.blocks)[p].val)'
    <3>1. trans = <<>> => Handed = 0
      BY DEF Handed
    <3>2. trans # <<>> => Oldest' = Oldest
      BY <1>4
    <3>3. \A p \in 1..Handed :
            CachedRead(BufferOrder(Oldest.blocks)[p].blk) = BufferOrder(Oldest.blocks)[p].val
      BY <2>3 DEF CacheFollows
    <3>4. CASE trans = <<>>
      BY <2>1, <3>1, <3>4
    <3>5. CASE trans # <<>>
      BY <2>1, <2>2, <3>2, <3>3, <3>5
    <3> QED BY <3>4, <3>5
  <2>8. ASSUME NEW i \in 1..Len(trans')
        PROVE  trans'[i].pending + (IF i = 1 /\ At("count")' THEN 1 ELSE 0)
                 = Cardinality(FuncSet(cache', trans'[i].id))
    <3>1. CASE i = n + 1
      <4>1. FuncSet(cache', trans'[i].id) = {}
        BY <1>1, <1>2, <1>3, <2>4, <3>1 DEF FuncSet
      <4>2. Cardinality(FuncSet(cache', trans'[i].id)) = 0
        BY <4>1, FS_EmptySet
      <4>3. trans'[i].pending = 0
        BY <1>2, <1>3, <3>1
      <4> QED BY <4>2, <4>3
    <3>2. CASE i \in 1..n
      <4>1. trans[i].pending + (IF i = 1 /\ At("count") THEN 1 ELSE 0)
               = Cardinality(FuncSet(cache, trans[i].id))
        BY <2>3, <3>2 DEF CacheFollows, FuncSet
      <4> QED BY <1>3, <3>2, <4>1
    <3> QED BY <1>1, <1>3, <3>1, <3>2
  <2> QED BY <2>5, <2>6, <2>7, <2>8 DEF CacheFollows, FuncSet
<1>9. OneCopyPerBlock'
  <2> SUFFICES ASSUME NEW i \in 1..Len(trans')
               PROVE  \A j, k \in 1..Len(trans'[i].blocks) :
                        trans'[i].blocks[j].blk = trans'[i].blocks[k].blk => j = k
    BY DEF OneCopyPerBlock
  <2>1. CASE i = n + 1
    <3>1. trans'[i].blocks = <<>> /\ Len(<<>>) = 0
      BY <1>2, <1>3, <2>1
    <3> QED BY <3>1
  <2>2. CASE i \in 1..n
    BY <1>3, <2>2 DEF Inv, OneCopyPerBlock
  <2> QED BY <1>1, <1>3, <2>1, <2>2
<1>10. HashFollows'
  <2>1. ASSUME NEW b PROVE ~Holds(n + 1, b)'
    <3>1. trans'[n + 1].blocks = <<>> /\ Len(<<>>) = 0
      BY <1>2, <1>3
    <3> QED BY <3>1 DEF Holds
  <2>2. \A b : \A i \in 1..n : Holds(i, b)' <=> Holds(i, b)
    BY <1>3 DEF Holds
  <2>3. \A b : \A i \in 1..n : Newest(i, b)' <=> Newest(i, b)
    <3> TAKE b
    <3> TAKE i \in 1..n
    <3>1. \A k \in (i + 1)..(n + 1) : k = n + 1 \/ k \in 1..n
      BY <1>1
    <3>2. \A k \in (i + 1)..n : k \in (i + 1)..(n + 1) /\ k \in 1..n
      BY <1>1
    <3> QED BY <1>1, <1>3, <2>1, <2>2, <3>1, <3>2 DEF Newest
  <2>4. HashFollows
    BY DEF Inv
  <2>5. /\ \A i, j \in 1..Len(newBlocks') : newBlocks'[i] = newBlocks'[j] => i = j
        /\ \A b \in Block :
           /\ hash'[b].new # 0 <=> \E i \in 1..Len(newBlocks') : newBlocks'[i] = b
           /\ ~hash'[b].present => hash'[b] = NoEntry
           /\ hash'[b].present => hash'[b].new # 0 \/ hash'[b].buffer # NoBuffer
           /\ hash'[b].buffer # NoBuffer /\ hash'[b].trans # 0 => hash'[b].buffer[1] = hash'[b].trans
    BY <2>4 DEF HashFollows
  <2>6. ASSUME NEW b \in Block
        PROVE  /\ hash[b].trans \in Nat /\ hash[b].trans < nextId
               /\ hash[b].buffer # NoBuffer => hash[b].buffer[1] \in 1..(nextId - 1)
               /\ hash[b].buffer[1] # nextId
    <3>1. hash[b].trans \in Nat
      BY DEF Inv, TypeOK, Entry
    <3>2. hash[b].trans < nextId /\ (hash[b].buffer # NoBuffer => hash[b].buffer[1] \in 1..(nextId - 1))
      BY <2>4 DEF HashFollows
    <3>3. NoBuffer[1] = 0
      BY DEF NoBuffer
    <3> QED BY <1>1, <3>1, <3>2, <3>3
  <2>7. ASSUME NEW b \in Block, NEW i \in 1..Len(trans')
        PROVE  /\ hash[b].buffer[1] = trans'[i].id =>
                    /\ hash[b].buffer[2] \in 1..Len(trans'[i].blocks)
                    /\ trans'[i].blocks[hash[b].buffer[2]].blk = b
                    /\ Newest(i, b)'
               /\ Holds(i, b)' /\ Newest(i, b)' /\ ~trans'[i].ondisk =>
                    hash[b].trans = trans'[i].id /\ hash[b].buffer[1] = trans'[i].id
    <3>1. CASE i = n + 1
      BY <1>2, <1>3, <2>1, <2>6, <3>1
    <3>2. CASE i \in 1..n
      <4>1. /\ hash[b].buffer[1] = trans[i].id =>
                 /\ hash[b].buffer[2] \in 1..Len(trans[i].blocks)
                 /\ trans[i].blocks[hash[b].buffer[2]].blk = b
                 /\ Newest(i, b)
            /\ Holds(i, b) /\ Newest(i, b) /\ ~trans[i].ondisk =>
                 hash[b].trans = trans[i].id /\ hash[b].buffer[1] = trans[i].id
        BY <2>4, <3>2 DEF HashFollows
      <4>2. trans'[i] = trans[i] /\ (Holds(i, b)' <=> Holds(i, b)) /\ (Newest(i, b)' <=> Newest(i, b))
        BY <1>3, <2>2, <2>3, <3>2
      <4> QED BY <4>1, <4>2
    <3> QED BY <1>1, <1>3, <3>1, <3>2
  <2>8. \A b \in Block :
           /\ hash'[b].buffer # NoBuffer => hash'[b].buffer[1] \in 1..(nextId' - 1)
           /\ hash'[b].trans < nextId'
    BY <1>1, <2>6
  <2> QED BY <2>5, <2>7, <2>8 DEF HashFollows
<1>11. LogInPlace'
  <2>1. /\ superblock = sb /\ superblock.valid = LogSums(trans)[n + 1]
        /\ superblock.start = IF trans = <<>> THEN nLoggStart ELSE Oldest.start
        /\ \A i \in 1..n : trans[i].logged => InLog(trans[i])
    BY DEF Inv, LogInPlace, InMemoryState
  <2>2. superblock'.valid = LogSums(trans')[Len(trans') + (IF HasOpen' THEN 0 ELSE 1)]
    BY <1>1, <1>3, <1>4, <2>1
  <2>3. superblock'.start = IF trans' = <<>> THEN nLoggStart' ELSE Oldest'.start
    BY <1>2, <1>4, <2>1
  <2>4. \A i \in 1..Len(trans') : trans'[i].logged => InLog(trans[i])'
    <3> TAKE i \in 1..Len(trans')
    <3> HAVE trans'[i].logged
    <3>1. i # n + 1 /\ i \in 1..n /\ trans'[i] = trans[i]
      BY <1>1, <1>2, <1>3
    <3>2. InLog(trans[i])
      BY <2>1, <3>1
    <3> QED BY <1>4, <3>1, <3>2 DEF InLog
  <2> QED BY <2>1, <2>2, <2>3, <2>4 DEF LogInPlace
<1>12. NothingInMemory'
  BY DEF NothingInMemory, InMemoryState
<1> QED BY <1>6, <1>7, <1>8, <1>9, <1>10, <1>11, <1>12 DEF Inv

\* afs_begin_transaction keeps the invariant.
LEMMA BeginInv ==
  ASSUME Inv, nLoggStart = 1, afs_begin_transaction
  PROVE  Inv'
<1>1. /\ Idle /\ started' = TRUE /\ nCalls' = nCalls + 1
      /\ leave' = [leave EXCEPT !.got = {}]
      /\ UNCHANGED <<disk, superblock, mode, nLoggStart, sb, nOldBlockCount, nPendingLog,
                     newBlocks, hash, todo, replay, cache, fileBlocks, nCrash>>
      /\ IF HasOpen THEN UNCHANGED <<trans, nextId>> ELSE afs_create_transaction
  BY DEF afs_begin_transaction, MayCall
<1>2. /\ mode = "mounted" /\ Len(todo) = 0 /\ \A name : ~At(name) /\ ~Ahead(name)
      /\ todo \in Seq(StepNames)
  BY <1>1, IdleIs, TodoIs DEF Inv
<1>3. \A name : ~At(name)' /\ ~Ahead(name)'
  <2>1. todo' = <<>> /\ Len(todo') = 0
    BY <1>1, <1>2, AtIs
  <2> QED BY <2>1 DEF At, Ahead
<1>4. CallShape'
  BY <1>1, <1>2, <1>3 DEF CallShape
<1>5. leave' \in [blk : {0} \cup Block, run : 0..3, got : SUBSET Block]
  <2>1. /\ leave \in [blk : {0} \cup Block, run : 0..3, got : SUBSET Block]
        /\ leave.blk \in {0} \cup Block /\ leave.run \in 0..3
    BY LeaveIs DEF Inv
  <2>2. leave' = [blk |-> leave.blk, run |-> leave.run, got |-> {}]
    BY <1>1, <2>1
  <2> QED BY <2>1, <2>2
<1>8. nCalls' \in Nat /\ started' \in BOOLEAN
  BY <1>1, LeaveIs DEF Inv
<1>6. CASE HasOpen
  <2>1. UNCHANGED <<trans, nextId>>
    BY <1>1, <1>6
  <2>2. HasOpen'
    BY <1>6, <2>1 DEF HasOpen, Current
  <2>3. StepsReady'
    BY <1>3, <2>2 DEF StepsReady
  <2>4. TypeOK'
    BY <1>1, <1>5, <1>8, <2>1 DEF Inv, TypeOK
  <2> QED BY <1>1, <1>2, <1>3, <1>4, <2>1, <2>3, <2>4, OnlyTodo
<1>7. CASE ~HasOpen
  <2>1. afs_create_transaction
    BY <1>1, <1>7
  <2>2. /\ trans' \in Seq(Transaction) /\ nextId' \in Nat \ {0} /\ HasOpen'
    <3>1. NewTransaction \in Transaction /\ ~NewTransaction.logged
      BY NewTransactionIs
    <3>2. trans \in Seq(Transaction) /\ nextId \in Nat \ {0} /\ Len(trans) \in Nat
      BY ListIs, LeaveIs DEF Inv
    <3>3. /\ trans' \in Seq(Transaction) /\ Len(trans') = Len(trans) + 1
          /\ trans'[Len(trans) + 1] = NewTransaction
      BY <2>1, <3>1, <3>2, SumsAppend DEF afs_create_transaction
    <3>4. trans' # <<>> /\ Current' = NewTransaction
      BY <3>2, <3>3 DEF Current, Last
    <3> QED BY <2>1, <3>1, <3>2, <3>3, <3>4 DEF afs_create_transaction, HasOpen
  <2>3. StepsReady'
    BY <1>3, <2>2 DEF StepsReady
  <2>4. TypeOK'
    BY <1>1, <1>5, <1>8, <2>2 DEF Inv, TypeOK
  <2> QED BY <1>1, <1>2, <1>3, <1>4, <1>7, <2>1, <2>3, <2>4, CreateInv
<1> QED BY <1>6, <1>7

\* The transaction created in the middle of a call keeps the invariant.
LEMMA CreateNextInv ==
  ASSUME Inv, nLoggStart = 1, create_next_transaction
  PROVE  Inv'
<1>1. /\ mode = "mounted" /\ todo # <<>> /\ todo[1] = "create" /\ Len(todo) \in Nat \ {0}
      /\ todo \in Seq(StepNames)
      /\ \A name : At(name) <=> todo[1] = name
  BY TodoIs DEF create_next_transaction, Inv, Step, Next1
<1>2. /\ afs_create_transaction /\ todo' = Tail(todo)
      /\ UNCHANGED <<disk, superblock, mode, nLoggStart, cache, replay, nCalls, nCrash,
                     sb, nOldBlockCount, nPendingLog, newBlocks, hash, started, leave, fileBlocks>>
  BY DEF create_next_transaction, InMemory
<1>3. /\ todo' \in Seq(StepNames) /\ Len(todo') = Len(todo) - 1 /\ Len(todo') \in Nat
      /\ \A i \in 1..(Len(todo) - 1) : todo'[i] = todo[i + 1]
  BY <1>1, <1>2, AtIs
<1>4. ShapeOK(todo, started) /\ (Ahead("leave") => leave.blk # 0)
  BY ShapeIs DEF Inv
<1>5. ~HasOpen /\ ~At("count")
  <2>1. Ahead("create")
    <3>1. 1 \in 1..Len(todo)
      BY <1>1
    <3> QED BY <1>1, <3>1 DEF Ahead
  <2> QED BY <1>1, <2>1 DEF Inv, StepsReady
<1>6. ShapeOK(todo', started')
  BY <1>1, <1>2, <1>4, ShapeTail
<1>7. \A i \in 1..Len(todo') : i + 1 \in 2..Len(todo) /\ i + 1 \in 1..Len(todo) /\ todo'[i] = todo[i + 1]
  BY <1>1, <1>3
<1>8. ~Ahead("create")'
  <2> SUFFICES ASSUME NEW i \in 1..Len(todo'), todo'[i] = "create" PROVE FALSE
    BY DEF Ahead
  <2>1. i + 1 \in 1..Len(todo) /\ todo[i + 1] = "create" /\ 1 \in 1..((i + 1) - 1)
    BY <1>7
  <2> QED BY <1>1, <1>4, <2>1 DEF ShapeOK
<1>9. CallShape'
  <2>1. Ahead("leave")' => leave'.blk # 0
    BY <1>2, <1>4, <1>7 DEF Ahead
  <2> QED BY <1>6, <2>1 DEF CallShape, ShapeOK
<1>10. ~At("count")' /\ ~At("super")' /\ ~At("merge")' /\ ~At("flush")'
  <2>1. \A name : At(name)' <=> Len(todo') > 0 /\ todo'[1] = name
    BY <1>3, AtIs DEF At, Next1
  <2>2. Len(todo') > 0 => todo'[1] = todo[2] /\ 2 \in 2..Len(todo)
    BY <1>1, <1>3, <1>7
  <2>3. 2 \in 2..Len(todo) => /\ todo[2] \notin {"count", "super"}
                              /\ todo[2] = "merge" => todo[2 - 1] = "space"
                              /\ todo[2] = "flush" => todo[2 - 1] = "drain"
    BY <1>4 DEF ShapeOK
  <2> QED BY <1>1, <2>1, <2>2, <2>3
<1>11. /\ trans' \in Seq(Transaction) /\ nextId' \in Nat \ {0} /\ HasOpen'
  <2>1. NewTransaction \in Transaction /\ ~NewTransaction.logged
    BY NewTransactionIs
  <2>2. trans \in Seq(Transaction) /\ nextId \in Nat \ {0} /\ Len(trans) \in Nat
    BY ListIs, LeaveIs DEF Inv
  <2>3. /\ trans' \in Seq(Transaction) /\ Len(trans') = Len(trans) + 1
        /\ trans'[Len(trans) + 1] = NewTransaction
    BY <1>2, <2>1, <2>2, SumsAppend DEF afs_create_transaction
  <2>4. trans' # <<>> /\ Current' = NewTransaction
    BY <2>2, <2>3 DEF Current, Last
  <2> QED BY <1>2, <2>1, <2>2, <2>3, <2>4 DEF afs_create_transaction, HasOpen
<1>12. StepsReady'
  BY <1>8, <1>10, <1>11 DEF StepsReady
<1>13. TypeOK'
  BY <1>2, <1>3, <1>11 DEF Inv, TypeOK
<1> QED BY <1>1, <1>2, <1>5, <1>9, <1>10, <1>12, <1>13, CreateInv
-----------------------------------------------------------------------------
(* The hash table.                                                         *)

\* The fields of a hash entry, with their types.
LEMMA EntryIs ==
  ASSUME TypeOK, NEW b \in Block
  PROVE  /\ hash[b] \in Entry
         /\ hash[b].present \in BOOLEAN /\ hash[b].trans \in Nat /\ hash[b].new \in Nat
         /\ hash[b].buffer \in Nat \X Nat
<1>1. hash[b] \in Entry
  BY DEF TypeOK
<1>2. hash[b].present \in BOOLEAN
  BY <1>1, Zenon DEF Entry
<1> QED BY <1>1, <1>2 DEF Entry

\* A hash entry from its fields.
LEMMA MakeEntry ==
  ASSUME NEW p \in BOOLEAN, NEW t \in Nat, NEW r \in Nat \X Nat, NEW v \in Nat
  PROVE  [present |-> p, trans |-> t, buffer |-> r, new |-> v] \in Entry
BY DEF Entry

\* The fields of the entry of a block that is not in the table.
LEMMA NoEntryIs ==
  /\ NoEntry \in Entry /\ NoEntry.present = FALSE /\ NoEntry.trans = 0
  /\ NoEntry.buffer = NoBuffer /\ NoEntry.new = 0
  /\ NoBuffer \in Nat \X Nat /\ NoBuffer[1] = 0
BY DEF NoEntry, Entry, NoBuffer

\* What HashFollows says of one entry.
EntryOK(b, e, isnew, id) ==
    /\ e.new # 0 <=> isnew
    /\ ~e.present => e = NoEntry
    /\ e.present => e.new # 0 \/ e.buffer # NoBuffer
    /\ e.buffer # NoBuffer /\ e.trans # 0 => e.buffer[1] = e.trans
    /\ e.buffer # NoBuffer => e.buffer[1] \in 1..(id - 1)
    /\ e.trans < id

PlaceOK(b, e, i) ==
    /\ e.buffer[1] = trans[i].id =>
         /\ e.buffer[2] \in 1..Len(trans[i].blocks)
         /\ trans[i].blocks[e.buffer[2]].blk = b
         /\ Newest(i, b)
    /\ Holds(i, b) /\ Newest(i, b) /\ ~trans[i].ondisk =>
         e.trans = trans[i].id /\ e.buffer[1] = trans[i].id

IsIn(b, s) == \E i \in 1..Len(s) : s[i] = b

\* HashFollows, one entry and one transaction at a time.
LEMMA HashIs ==
  HashFollows <=> /\ \A i, j \in 1..Len(newBlocks) : newBlocks[i] = newBlocks[j] => i = j
                  /\ \A b \in Block : EntryOK(b, hash[b], IsIn(b, newBlocks), nextId)
                  /\ \A b \in Block : \A i \in 1..Len(trans) : PlaceOK(b, hash[b], i)
BY DEF HashFollows, EntryOK, PlaceOK, IsIn

\* Steps that change the hash table and the list of new blocks, and the steps.
LEMMA OnlyHash ==
  ASSUME Inv, mode = "mounted", TypeOK', CallShape', StepsReady', HashFollows',
         nLoggStart = 1,
         At("count")' <=> At("count"), At("super")' => At("super"),
         UNCHANGED <<disk, superblock, mode, nLoggStart, sb, trans, nOldBlockCount,
                     nPendingLog, replay, cache, nextId>>
  PROVE  Inv'
<1>1. Kept /\ LoggedKept
  BY DEF Kept, LoggedKept
<1>2. nextId \in Nat /\ Len(trans) \in Nat
  BY ListIs DEF Inv, TypeOK
<1>3. CountsAgree'
  BY <1>1, CountsKept DEF Inv
<1>4. ListInOrder'
  BY <1>1, <1>2, OrderKept DEF Inv
<1>5. OneCopyPerBlock'
  BY <1>1, OnceKept DEF Inv
<1>7. LogInPlace'
  <2>1. InMemoryState
    BY DEF InMemoryState
  <2>2. At("super") => HasOpen
    BY DEF Inv, StepsReady
  <2> QED BY <1>1, <2>1, <2>2, LogKept DEF Inv
<1>8. CacheFollows'
  <2>1. Handed' = Handed
    BY DEF Handed, Oldest
  <2>2. \A b : CachedRead(b)' = CachedRead(b)
    BY DEF CachedRead
  <2>3. CacheFollows
    BY DEF Inv
  <2> QED BY <2>1, <2>2, <2>3 DEF CacheFollows, Oldest
<1>9. NothingInMemory'
  BY DEF NothingInMemory, InMemoryState
<1> QED BY <1>3, <1>4, <1>5, <1>7, <1>8, <1>9 DEF Inv

\* afs_logged_write keeps the invariant.
LEMMA WriteInv ==
  ASSUME Inv, nLoggStart = 1, NEW b \in Block, afs_logged_write(b)
  PROVE  Inv'
<1> DEFINE e == IF hash[b].present THEN [hash[b] EXCEPT !.new = nCalls + 1]
                ELSE [present |-> TRUE, trans |-> Current.id,
                      buffer |-> NoBuffer, new |-> nCalls + 1]
<1>1. /\ Idle /\ started /\ nCalls' = nCalls + 1 /\ hash' = [hash EXCEPT ![b] = e]
      /\ newBlocks' = IF hash[b].new # 0 THEN newBlocks ELSE <<b>> \o newBlocks
      /\ fileBlocks' = fileBlocks \ {b}
      /\ UNCHANGED <<disk, superblock, mode, nLoggStart, sb, trans, nOldBlockCount,
                     nPendingLog, started, todo, leave, replay, nextId, cache, nCrash>>
  BY DEF afs_logged_write, MayCall
<1>2. /\ mode = "mounted" /\ Len(todo) = 0 /\ \A name : ~At(name) /\ ~Ahead(name)
      /\ HasOpen /\ nCalls \in Nat /\ hash \in [Block -> Entry]
  BY <1>1, IdleIs, LeaveIs DEF Inv, TypeOK
<1>3. /\ Len(trans) \in 1..Len(trans) /\ Current = trans[Len(trans)] /\ Current.id \in Nat
      /\ Current.id \in 1..(nextId - 1) /\ nextId \in Nat
  BY <1>2, ListIs, TransIs, LeaveIs DEF Inv, ListInOrder
<1>4. /\ hash[b] \in Entry /\ hash[b].present \in BOOLEAN /\ hash[b].trans \in Nat
      /\ hash[b].new \in Nat /\ hash[b].buffer \in Nat \X Nat
  BY EntryIs DEF Inv
<1>5. /\ e \in Entry /\ e.new = nCalls + 1 /\ e.present
      /\ e.trans = IF hash[b].present THEN hash[b].trans ELSE Current.id
      /\ e.buffer = IF hash[b].present THEN hash[b].buffer ELSE NoBuffer
  <2>1. CASE hash[b].present
    <3>1. e = [present |-> TRUE, trans |-> hash[b].trans, buffer |-> hash[b].buffer,
               new |-> nCalls + 1]
      BY <1>4, <2>1 DEF Entry
    <3> HIDE DEF e
    <3> QED BY <1>2, <1>4, <2>1, <3>1 DEF Entry
  <2>2. CASE ~hash[b].present
    BY <1>2, <1>3, <2>2, NoEntryIs DEF Entry
  <2> QED BY <2>1, <2>2
<1> HIDE DEF e
<1>6. /\ hash' \in [Block -> Entry] /\ hash'[b] = e /\ \A c \in Block : c # b => hash'[c] = hash[c]
  BY <1>1, <1>2, <1>5
<1>7. /\ \A i, j \in 1..Len(newBlocks) : newBlocks[i] = newBlocks[j] => i = j
      /\ \A c \in Block : EntryOK(c, hash[c], IsIn(c, newBlocks), nextId)
      /\ \A c \in Block : \A i \in 1..Len(trans) : PlaceOK(c, hash[c], i)
  BY HashIs DEF Inv
<1>8. /\ newBlocks' \in Seq(Block)
      /\ \A i, j \in 1..Len(newBlocks') : newBlocks'[i] = newBlocks'[j] => i = j
      /\ \A c \in Block : IsIn(c, newBlocks') <=> c = b \/ IsIn(c, newBlocks)
  <2>1. hash[b].new # 0 <=> IsIn(b, newBlocks)
    BY <1>7 DEF EntryOK
  <2>2. newBlocks \in Seq(Block) /\ Len(newBlocks) \in Nat
    BY NewIs DEF Inv
  <2>3. CASE hash[b].new # 0
    BY <1>1, <1>7, <2>1, <2>2, <2>3
  <2>4. CASE hash[b].new = 0
    <3>1. newBlocks' = <<b>> \o newBlocks
      BY <1>1, <2>4
    <3>2. /\ newBlocks' \in Seq(Block) /\ Len(newBlocks') = Len(newBlocks) + 1 /\ newBlocks'[1] = b
          /\ \A i \in 1..Len(newBlocks) : newBlocks'[i + 1] = newBlocks[i]
      BY <2>2, <3>1
    <3>3. \A i \in 2..Len(newBlocks') : i - 1 \in 1..Len(newBlocks) /\ newBlocks'[i] = newBlocks[i - 1]
      <4> TAKE i \in 2..Len(newBlocks')
      <4>1. i - 1 \in 1..Len(newBlocks) /\ (i - 1) + 1 = i
        BY <2>2, <3>2
      <4> QED BY <3>2, <4>1
    <3>4. \A i \in 1..Len(newBlocks) : newBlocks[i] # b
      BY <2>1, <2>4 DEF IsIn
    <3>5. \A i \in 1..Len(newBlocks') : i = 1 \/ i \in 2..Len(newBlocks')
      BY <2>2, <3>2
    <3>6. \A i, j \in 1..Len(newBlocks') : newBlocks'[i] = newBlocks'[j] => i = j
      <4> TAKE i, j \in 1..Len(newBlocks')
      <4> HAVE newBlocks'[i] = newBlocks'[j]
      <4>1. CASE i = 1
        BY <3>2, <3>3, <3>4, <3>5, <4>1
      <4>2. CASE j = 1
        BY <3>2, <3>3, <3>4, <3>5, <4>2
      <4>3. CASE i \in 2..Len(newBlocks') /\ j \in 2..Len(newBlocks')
        <5>1. i - 1 = j - 1
          BY <1>7, <3>3, <4>3
        <5> QED BY <5>1, <2>2, <3>2
      <4> QED BY <3>5, <4>1, <4>2, <4>3
    <3>7. ASSUME NEW c \in Block PROVE IsIn(c, newBlocks') <=> c = b \/ IsIn(c, newBlocks)
      <4>1. 1 \in 1..Len(newBlocks') /\ \A i \in 1..Len(newBlocks) : i + 1 \in 1..Len(newBlocks')
        BY <2>2, <3>2
      <4> QED BY <3>2, <3>3, <3>5, <4>1 DEF IsIn
    <3> QED BY <3>2, <3>6, <3>7
  <2> QED BY <1>4, <2>3, <2>4
<1>9. ASSUME NEW c \in Block
      PROVE  EntryOK(c, hash'[c], IsIn(c, newBlocks'), nextId)
  <2>0. EntryOK(c, hash[c], IsIn(c, newBlocks), nextId)
    BY <1>7
  <2>1. CASE c # b
    <3>1. hash'[c] = hash[c] /\ (IsIn(c, newBlocks') <=> IsIn(c, newBlocks))
      BY <1>6, <1>8, <2>1
    <3> QED BY <2>0, <3>1 DEF EntryOK
  <2>2. CASE c = b
    <3>1. IsIn(c, newBlocks')
      BY <1>8, <2>2
    <3>2. e.new # 0
      BY <1>2, <1>5
    <3>3. e.buffer # NoBuffer => hash[b].present
      BY <1>5
    <3>4. e.trans < nextId
      BY <1>3, <1>5, <2>0, <2>2 DEF EntryOK
    <3>5. e.buffer # NoBuffer => e.buffer = hash[b].buffer /\ e.trans = hash[b].trans
      BY <1>5, <3>3
    <3> QED BY <1>5, <1>6, <2>0, <2>2, <3>1, <3>2, <3>4, <3>5 DEF EntryOK
  <2> QED BY <2>1, <2>2
<1>10. ASSUME NEW c \in Block, NEW i \in 1..Len(trans)
       PROVE  PlaceOK(c, hash'[c], i)
  <2>0. PlaceOK(c, hash[c], i) /\ EntryOK(c, hash[c], IsIn(c, newBlocks), nextId)
    BY <1>7
  <2>1. CASE hash'[c] = hash[c]
    BY <2>0, <2>1
  <2>2. CASE c = b /\ hash[b].present
    <3>1. hash'[c].buffer = hash[c].buffer /\ hash'[c].trans = hash[c].trans
      BY <1>5, <1>6, <2>2
    <3> QED BY <2>0, <3>1 DEF PlaceOK
  <2>3. CASE c = b /\ ~hash[b].present
    <3>1. trans[i].id \in 1..(nextId - 1) /\ trans[i].id # 0
      BY <1>3 DEF Inv, ListInOrder
    <3>2. hash'[c].buffer = NoBuffer /\ hash'[c].buffer[1] # trans[i].id
      BY <1>5, <1>6, <2>3, <3>1, NoEntryIs
    <3>3. hash[c].trans = 0
      BY <2>0, <2>3, NoEntryIs DEF EntryOK
    <3> QED BY <2>0, <3>1, <3>2, <3>3 DEF PlaceOK
  <2> QED BY <1>6, <2>1, <2>2, <2>3
<1>11. HashFollows'
  <2>1. \A c, i : (Holds(i, c)' <=> Holds(i, c)) /\ (Newest(i, c)' <=> Newest(i, c))
    BY <1>1 DEF Holds, Newest
  <2>2. \A c \in Block : \A i \in 1..Len(trans') : PlaceOK(c, hash[c], i)'
    <3> TAKE c \in Block
    <3> TAKE i \in 1..Len(trans')
    <3>1. i \in 1..Len(trans) /\ PlaceOK(c, hash'[c], i)
      BY <1>1, <1>10
    <3> QED BY <1>1, <2>1, <3>1 DEF PlaceOK
  <2>3. \A c \in Block : EntryOK(c, hash[c], IsIn(c, newBlocks), nextId)'
    BY <1>1, <1>9 DEF EntryOK, IsIn
  <2> QED BY <1>8, <2>2, <2>3, HashIs DEF HashFollows, EntryOK, PlaceOK, IsIn
<1>12. \A name : ~At(name)' /\ ~Ahead(name)'
  BY <1>1, <1>2 DEF At, Ahead
<1>13. CallShape' /\ StepsReady'
  <2>1. HasOpen'
    BY <1>1, <1>2 DEF HasOpen, Current
  <2> QED BY <1>1, <1>2, <1>12, <2>1 DEF CallShape, StepsReady
<1>14. TypeOK'
  BY <1>1, <1>2, <1>6, <1>8 DEF Inv, TypeOK
<1> QED BY <1>1, <1>2, <1>11, <1>12, <1>13, <1>14, OnlyHash

\* afs_discard_transactions keeps the invariant.
LEMMA RevertInv ==
  ASSUME Inv, nLoggStart = 1, afs_discard_transactions
  PROVE  Inv'
<1>1. /\ mode = "mounted" /\ todo # <<>> /\ todo[1] = "revert"
      /\ \A name : At(name) <=> todo[1] = name
  BY TodoIs DEF afs_discard_transactions, Inv, Step, Next1
<1>2. /\ hash' = [b \in Block |->
                    IF b \notin Range(newBlocks) THEN hash[b]
                    ELSE IF hash[b].buffer = NoBuffer THEN NoEntry
                    ELSE [hash[b] EXCEPT !.new = 0]]
      /\ newBlocks' = <<>> /\ fileBlocks' = fileBlocks \ leave.got
      /\ leave' = [leave EXCEPT !.got = {}] /\ todo' = Tail(todo)
      /\ UNCHANGED <<disk, superblock, mode, nLoggStart, cache, replay, nCalls, nCrash,
                     sb, trans, nOldBlockCount, nPendingLog, started, nextId>>
  BY DEF afs_discard_transactions, InMemory
<1>3. /\ \A c \in Block : EntryOK(c, hash[c], IsIn(c, newBlocks), nextId)
      /\ \A c \in Block : \A i \in 1..Len(trans) : PlaceOK(c, hash[c], i)
  BY HashIs DEF Inv
<1>4. \A c : c \in Range(newBlocks) <=> IsIn(c, newBlocks)
  <2>1. newBlocks \in Seq(Block) /\ DOMAIN newBlocks = 1..Len(newBlocks)
    BY NewIs DEF Inv
  <2> QED BY <2>1 DEF Range, IsIn
<1>5. nextId \in Nat \ {0}
  BY LeaveIs DEF Inv
<1>6. ASSUME NEW c \in Block
      PROVE  /\ hash'[c] \in Entry /\ hash'[c].new = 0
             /\ hash'[c] = NoEntry \/ hash'[c].present = hash[c].present
             /\ hash'[c] = NoEntry \/ hash'[c].trans = hash[c].trans
             /\ hash'[c] = NoEntry \/ hash'[c].buffer = hash[c].buffer
             /\ hash'[c] = NoEntry => hash[c].buffer = NoBuffer
             /\ hash'[c] # NoEntry => hash[c].new = 0 \/ hash[c].buffer # NoBuffer
  <2>0. /\ hash[c] \in Entry /\ hash[c].present \in BOOLEAN /\ hash[c].trans \in Nat
        /\ hash[c].new \in Nat /\ hash[c].buffer \in Nat \X Nat
    BY EntryIs DEF Inv
  <2>1. CASE c \notin Range(newBlocks)
    <3>1. hash'[c] = hash[c] /\ hash[c].new = 0
      BY <1>2, <1>3, <1>4, <2>1 DEF EntryOK
    <3> QED BY <2>0, <3>1, NoEntryIs
  <2>2. CASE c \in Range(newBlocks) /\ hash[c].buffer = NoBuffer
    <3>1. hash'[c] = NoEntry
      BY <1>2, <2>2
    <3> QED BY <2>2, <3>1, NoEntryIs
  <2>3. CASE c \in Range(newBlocks) /\ hash[c].buffer # NoBuffer
    <3>1. hash'[c] = [hash[c] EXCEPT !.new = 0]
      BY <1>2, <2>3
    <3>2. hash'[c] = [present |-> hash[c].present, trans |-> hash[c].trans,
                      buffer |-> hash[c].buffer, new |-> 0]
      BY <2>0, <3>1 DEF Entry
    <3>3. hash'[c] \in Entry
      BY <2>0, <3>2, MakeEntry
    <3> QED BY <2>3, <3>2, <3>3, NoEntryIs
  <2> QED BY <2>1, <2>2, <2>3
<1>7. ASSUME NEW c \in Block
      PROVE  EntryOK(c, hash'[c], IsIn(c, newBlocks'), nextId)
  <2>0. EntryOK(c, hash[c], IsIn(c, newBlocks), nextId)
    BY <1>3
  <2>1. ~IsIn(c, newBlocks')
    BY <1>2 DEF IsIn
  <2>2. CASE hash'[c] = NoEntry
    BY <1>5, <2>1, <2>2, NoEntryIs DEF EntryOK
  <2>3. CASE hash'[c] # NoEntry
    <3>1. hash'[c].new = 0 /\ hash'[c].present = hash[c].present
          /\ hash'[c].trans = hash[c].trans /\ hash'[c].buffer = hash[c].buffer
          /\ (hash[c].new = 0 \/ hash[c].buffer # NoBuffer)
      BY <1>6, <2>3
    <3>2. hash[c].present
      <4> SUFFICES ASSUME ~hash[c].present PROVE FALSE
        OBVIOUS
      <4>1. hash[c] = NoEntry
        BY <2>0 DEF EntryOK
      <4>2. c \notin Range(newBlocks)
        BY <1>4, <2>0, <4>1, NoEntryIs DEF EntryOK
      <4>3. hash'[c] = hash[c]
        BY <1>2, <4>2
      <4> QED BY <2>3, <4>1, <4>3
    <3> QED BY <2>0, <2>1, <3>1, <3>2 DEF EntryOK
  <2> QED BY <2>2, <2>3
<1>8. ASSUME NEW c \in Block, NEW i \in 1..Len(trans)
      PROVE  PlaceOK(c, hash'[c], i)
  <2>0. PlaceOK(c, hash[c], i)
    BY <1>3
  <2>1. trans[i].id \in 1..(nextId - 1) /\ trans[i].id # 0
    BY <1>5 DEF Inv, ListInOrder
  <2>2. CASE hash'[c] = NoEntry
    <3>1. hash[c].buffer = NoBuffer
      BY <1>6, <2>2
    <3> QED BY <2>0, <2>1, <2>2, <3>1, NoEntryIs DEF PlaceOK
  <2>3. CASE hash'[c] # NoEntry
    <3>1. hash'[c].trans = hash[c].trans /\ hash'[c].buffer = hash[c].buffer
      BY <1>6, <2>3
    <3> QED BY <2>0, <3>1 DEF PlaceOK
  <2> QED BY <2>2, <2>3
<1>9. HashFollows'
  <2>1. \A c, i : (Holds(i, c)' <=> Holds(i, c)) /\ (Newest(i, c)' <=> Newest(i, c))
    BY <1>2 DEF Holds, Newest
  <2>2. \A c \in Block : \A i \in 1..Len(trans') : PlaceOK(c, hash[c], i)'
    <3> TAKE c \in Block
    <3> TAKE i \in 1..Len(trans')
    <3>1. i \in 1..Len(trans) /\ PlaceOK(c, hash'[c], i)
      BY <1>2, <1>8
    <3> QED BY <1>2, <2>1, <3>1 DEF PlaceOK
  <2>3. \A c \in Block : EntryOK(c, hash[c], IsIn(c, newBlocks), nextId)'
    BY <1>2, <1>7 DEF EntryOK, IsIn
  <2>4. \A i, j \in 1..Len(newBlocks') : newBlocks'[i] = newBlocks'[j] => i = j
    BY <1>2
  <2> QED BY <2>2, <2>3, <2>4 DEF HashFollows, EntryOK, PlaceOK, IsIn
<1>10. leave' \in [blk : {0} \cup Block, run : 0..3, got : SUBSET Block] /\ leave'.blk = leave.blk
       /\ fileBlocks' \subseteq Block
  <2>1. /\ leave \in [blk : {0} \cup Block, run : 0..3, got : SUBSET Block]
        /\ leave.blk \in {0} \cup Block /\ leave.run \in 0..3 /\ fileBlocks \subseteq Block
    BY LeaveIs DEF Inv
  <2>2. leave' = [blk |-> leave.blk, run |-> leave.run, got |-> {}]
    BY <1>2, <2>1
  <2> QED BY <1>2, <2>1, <2>2
<1>11. /\ todo' \in Seq(StepNames) /\ CallShape' /\ StepsReady' /\ ~At("count")' /\ ~At("super")'
  <2>1. HasOpen' <=> HasOpen
    BY <1>2 DEF HasOpen, Current
  <2> QED BY <1>1, <1>2, <1>10, <2>1, Popped
<1>12. TypeOK'
  <2>1. hash' \in [Block -> Entry]
    BY <1>2, <1>6
  <2>2. newBlocks' \in Seq(Block)
    BY <1>2
  <2> QED BY <1>2, <1>10, <1>11, <2>1, <2>2 DEF Inv, TypeOK
<1>13. ~At("count")
  BY <1>1
<1> QED BY <1>1, <1>2, <1>9, <1>11, <1>12, <1>13, OnlyHash
-----------------------------------------------------------------------------
(* The block cache.                                                        *)

\* The fields of a cached block, with their types.
LEMMA CacheIs ==
  ASSUME TypeOK, NEW b \in Block
  PROVE  /\ cache[b] \in [dirty : BOOLEAN, val : Nat, func : Nat]
         /\ cache[b].dirty \in BOOLEAN /\ cache[b].val \in Nat /\ cache[b].func \in Nat
<1>1. cache[b] \in [dirty : BOOLEAN, val : Nat, func : Nat]
  BY DEF TypeOK
<1>2. cache[b].dirty \in BOOLEAN
  BY <1>1, Zenon
<1> QED BY <1>1, <1>2

\* The disk: the log area and the metadata blocks after it.
LEMMA AddrIs ==
  /\ \A b \in Block : b \in Addr /\ b > LogSize /\ b \in Nat
  /\ \A a \in 1..LogSize : a \in Addr /\ a \notin Block
BY SizesIs DEF Block, Addr

\* There are finitely many blocks ...
LEMMA BlockFinite == IsFiniteSet(Block)
BY SizesIs, FS_Interval DEF Block

\* ... so the callbacks to come can be counted.
LEMMA FuncFinite ==
  ASSUME NEW c, NEW id
  PROVE  IsFiniteSet(FuncSet(c, id)) /\ Cardinality(FuncSet(c, id)) \in Nat
<1>1. FuncSet(c, id) \in SUBSET Block
  BY DEF FuncSet
<1>2. IsFiniteSet(FuncSet(c, id))
  BY <1>1, BlockFinite, FS_Subset
<1> QED BY <1>2, FS_CardinalityType

\* CacheFollows with the callbacks of a transaction as a set.
LEMMA FollowsIs ==
  CacheFollows <=>
    /\ \A b \in Block : cache[b].dirty => cache[b].func # 0
    /\ \A b \in Block : cache[b].func # 0 =>
         /\ cache[b].dirty
         /\ trans # <<>> /\ cache[b].func = Oldest.id
         /\ \E p \in 1..Handed : BufferOrder(Oldest.blocks)[p].blk = b
    /\ \A p \in 1..Handed :
         CachedRead(BufferOrder(Oldest.blocks)[p].blk) = BufferOrder(Oldest.blocks)[p].val
    /\ \A i \in 1..Len(trans) :
         trans[i].pending + (IF i = 1 /\ At("count") THEN 1 ELSE 0)
           = Cardinality(FuncSet(cache, trans[i].id))
BY DEF CacheFollows, FuncSet

\* What was handed to the cache are blocks of the oldest transaction.
LEMMA HandedIs ==
  ASSUME Inv, trans # <<>>
  PROVE  /\ Handed \in 0..Len(Oldest.blocks)
         /\ Oldest = trans[1] /\ 1 \in 1..Len(trans) /\ Oldest.blocks \in Copies
         /\ \A p \in 1..Handed : p \in 1..Len(Oldest.blocks)
         /\ \A p \in 1..Handed : BufferOrder(Oldest.blocks)[p].blk \in Block
<1>1. Oldest = trans[1] /\ 1 \in 1..Len(trans)
  BY ListIs DEF Inv
<1>2. Oldest.written \in Nat /\ Len(Oldest.blocks) \in Nat /\ Oldest.blocks \in Copies
  BY <1>1, TransIs DEF Inv
<1>3. Oldest.written <= Len(Oldest.blocks)
  BY <1>1 DEF Inv, ListInOrder
<1>4. At("count") => Oldest.written < Len(Oldest.blocks)
  BY DEF Inv, StepsReady
<1>5. Handed \in 0..Len(Oldest.blocks)
  BY <1>2, <1>3, <1>4 DEF Handed
<1>6. \A p \in 1..Handed : p \in 1..Len(Oldest.blocks)
  BY <1>2, <1>5
<1>7. \A p \in 1..Handed : BufferOrder(Oldest.blocks)[p].blk \in Block
  <2> TAKE p \in 1..Handed
  <2>1. BufferOrder(Oldest.blocks)[p] \in [blk : Block, val : Nat]
    BY <1>2, <1>6, OrderIn
  <2> QED BY <2>1
<1> QED BY <1>1, <1>2, <1>5, <1>6, <1>7

\* Blocks go to their place: nothing that is read changes, and the callbacks
\* that come are those the transactions wait for.
LEMMA FlushInv ==
  ASSUME Inv, nLoggStart = 1, mode = "mounted", NEW S \in SUBSET Dirty, flush_block_list(S),
         UNCHANGED <<superblock, nLoggStart, sb, nOldBlockCount, nPendingLog, newBlocks, hash,
                     started, leave, fileBlocks, nextId, replay, nCalls, nCrash>>,
         \/ todo' = todo
         \/ todo # <<>> /\ todo' = Tail(todo) /\ todo[1] \in {"flush", "force"}
  PROVE  Inv'
<1>1. /\ disk' = [a \in Addr |-> IF a \in S THEN Data(cache[a].val) ELSE disk[a]]
      /\ cache' = [b \in Block |-> IF b \in S THEN Clean ELSE cache[b]]
      /\ trans' = [i \in 1..Len(trans) |->
                     [trans[i] EXCEPT !.pending = PendingAfter(trans[i], S)]]
      /\ mode' = IF \E i \in 1..Len(trans) : PendingAfter(trans[i], S) < 0
                 THEN "panic in callback" ELSE mode
  BY DEF flush_block_list
<1>2. S \subseteq Block /\ \A b \in S : cache[b].dirty
  BY DEF Dirty
<1>3. trans \in Seq(Transaction) /\ Len(trans) \in Nat
  BY ListIs DEF Inv
<1>4. ASSUME NEW i \in 1..Len(trans)
      PROVE  /\ PendingAfter(trans[i], S) \in Int
             /\ Cardinality(FuncSet(cache', trans[i].id))
                  = Cardinality(FuncSet(cache, trans[i].id)) - (trans[i].pending - PendingAfter(trans[i], S))
  <2> DEFINE A == FuncSet(cache, trans[i].id)
             C == {b \in S : cache[b].func = trans[i].id}
  <2>1. trans[i].pending \in Int /\ PendingAfter(trans[i], S) = trans[i].pending - Cardinality(C)
    BY TransIs DEF Inv, PendingAfter
  <2>2. IsFiniteSet(A) /\ Cardinality(A) \in Nat
    BY FuncFinite
  <2>3. C \in SUBSET A
    BY <1>2 DEF FuncSet
  <2>4. trans[i].id # 0
    BY LeaveIs, SMTT(30) DEF Inv, ListInOrder
  <2>5. FuncSet(cache', trans[i].id) = A \ C
    <3>1. \A b \in Block : cache'[b] = IF b \in S THEN Clean ELSE cache[b]
      BY <1>1
    <3>2. Clean.func = 0
      BY DEF Clean
    <3>3. \A b \in Block : b \in FuncSet(cache', trans[i].id) <=> b \in A /\ b \notin S
      BY <2>4, <3>1, <3>2 DEF FuncSet
    <3>4. \A b \in A : b \in S <=> b \in C
      BY DEF FuncSet
    <3>5. A \subseteq Block /\ FuncSet(cache', trans[i].id) \subseteq Block
      BY DEF FuncSet
    <3> HIDE DEF A, C
    <3> QED BY <3>3, <3>4, <3>5
  <2> HIDE DEF A, C
  <2>6. IsFiniteSet(C) /\ Cardinality(C) \in Nat
    BY <2>2, <2>3, FS_Subset, FS_CardinalityType
  <2>7. Cardinality(A \ C) = Cardinality(A) - Cardinality(C)
    <3>1. A \cap C = C
      BY <2>3
    <3>2. Cardinality(A \ C) = Cardinality(A) - Cardinality(A \cap C)
      BY <2>2, FS_Difference
    <3> QED BY <3>1, <3>2
  <2> QED BY <2>1, <2>2, <2>5, <2>6, <2>7 DEF A
<1>5. ASSUME NEW i \in 1..Len(trans)
      PROVE  /\ trans'[i] \in Transaction
             /\ trans'[i].id = trans[i].id /\ trans'[i].start = trans[i].start
             /\ trans'[i].count = trans[i].count /\ trans'[i].blocks = trans[i].blocks
             /\ trans'[i].logged = trans[i].logged /\ trans'[i].ondisk = trans[i].ondisk
             /\ trans'[i].written = trans[i].written
             /\ trans'[i].pending = PendingAfter(trans[i], S)
  <2>1. trans[i] \in Transaction
    BY TransIs DEF Inv
  <2>2. trans'[i] = [trans[i] EXCEPT !.pending = PendingAfter(trans[i], S)]
    BY <1>1
  <2>3. trans'[i] \in Transaction
    BY <1>4, <2>1, <2>2, SetPending
  <2> QED BY <2>1, <2>2, <2>3 DEF Transaction
<1>6. trans' \in Seq(Transaction) /\ Len(trans') = Len(trans)
  <2>1. trans' = [i \in 1..Len(trans) |-> trans'[i]]
    BY <1>1
  <2> QED BY <1>3, <1>5, <2>1
<1>7. Kept /\ LoggedKept
  BY <1>5, <1>6 DEF Kept, LoggedKept
<1>18. todo' \in Seq(StepNames)
  BY TodoIs DEF Inv
<1>8. TypeOK'
  <2>1. cache' \in [Block -> [dirty : BOOLEAN, val : Nat, func : Nat]]
    BY <1>1 DEF Inv, TypeOK, Clean
  <2>2. disk' \in [Addr -> [val : Int, idx : Seq(Block)]]
    <3>1. \A b \in S : cache[b].val \in Nat
      BY <1>2, CacheIs DEF Inv
    <3>2. \A b \in S : Data(cache[b].val) \in [val : Int, idx : Seq(Block)]
      BY <3>1 DEF Data
    <3>3. disk \in [Addr -> [val : Int, idx : Seq(Block)]]
      BY DEF Inv, TypeOK
    <3> QED BY <1>1, <3>2, <3>3
  <2>3. mode' \in {"mounted", "down", "replay", "panic in callback", "panic in log"}
    BY <1>1
  <2> QED BY <1>6, <1>18, <2>1, <2>2, <2>3 DEF Inv, TypeOK
<1>9. HasOpen' <=> HasOpen
  BY <1>7, <1>8, OpenKept DEF Inv
<1>10. /\ CallShape' /\ StepsReady'
       /\ At("count")' <=> At("count")
       /\ At("super")' => At("super")
  <2>1. CASE todo' = todo
    <3>1. \A name : (At(name)' <=> At(name)) /\ (Ahead(name)' <=> Ahead(name))
      BY <2>1 DEF At, Ahead
    <3>2. CallShape'
      BY <2>1 DEF Inv, CallShape, Ahead
    <3>3. At("count") => NeedsDisk' /\ Oldest'.written < Len(Oldest'.blocks)
      <4> HAVE At("count")
      <4>1. trans # <<>> /\ Oldest.logged /\ ~Oldest.ondisk /\ Oldest.written < Len(Oldest.blocks)
        BY DEF Inv, StepsReady, NeedsDisk
      <4>2. Oldest = trans[1] /\ 1 \in 1..Len(trans) /\ Oldest' = trans'[1] /\ trans' # <<>>
        BY <1>6, <4>1, ListIs, EmptyIs DEF Inv, Oldest
      <4> QED BY <1>5, <4>1, <4>2 DEF NeedsDisk
    <3>4. StepsReady'
      <4>1. StepsReady
        BY DEF Inv
      <4> QED BY <1>9, <2>1, <3>1, <3>3, <4>1 DEF StepsReady
    <3> QED BY <3>1, <3>2, <3>4
  <2>2. CASE todo # <<>> /\ todo' = Tail(todo) /\ todo[1] \in {"flush", "force"}
    <3>1. ~At("count")
      BY <2>2, TodoIs DEF Inv, Next1
    <3>2. leave'.blk = leave.blk /\ started' = started
      OBVIOUS
    <3>3. CallShape' /\ StepsReady' /\ ~At("count")' /\ ~At("super")'
      BY <1>9, <2>2, <3>2, Popped
    <3> QED BY <3>1, <3>3
  <2> QED BY <2>1, <2>2
<1>11. CountsAgree'
  BY <1>7, <1>8, CountsKept DEF Inv
<1>12. ListInOrder'
  BY <1>3, <1>5, <1>7, OrderKept, LeaveIs DEF Inv
<1>13. OneCopyPerBlock'
  BY <1>7, OnceKept DEF Inv
<1>14. HashFollows'
  <2>1. nextId \in Nat /\ nextId' \in Nat /\ nextId <= nextId'
    BY LeaveIs DEF Inv
  <2>2. \A i \in 1..Len(trans) : trans[i].ondisk => trans'[i].ondisk
    BY <1>5
  <2> QED BY <1>7, <2>1, <2>2, HashKept DEF Inv
<1>15. LogInPlace'
  <2>1. InMemoryState
    BY DEF InMemoryState
  <2>2. At("super") => HasOpen
    BY DEF Inv, StepsReady
  <2>3. \A a \in 1..LogSize : disk'[a] = disk[a]
    BY <1>1, <1>2, AddrIs
  <2> QED BY <1>7, <1>8, <1>10, <2>1, <2>2, <2>3, LogKept DEF Inv
<1>16. CacheFollows'
  <2>0. CacheFollows
    BY DEF Inv
  <2>1. /\ (trans' = <<>> <=> trans = <<>>) /\ Oldest' = trans'[1] /\ Oldest = trans[1]
    BY <1>3, <1>6, EmptyIs DEF Oldest
  <2>2. trans # <<>> => /\ Oldest'.id = Oldest.id /\ Oldest'.blocks = Oldest.blocks
                        /\ Oldest'.written = Oldest.written
    <3>1. trans # <<>> => 1 \in 1..Len(trans)
      BY ListIs DEF Inv
    <3> QED BY <1>5, <2>1, <3>1
  <2>3. Handed' = Handed
    BY <1>10, <2>1, <2>2 DEF Handed
  <2>4. \A b \in Block : cache'[b] = IF b \in S THEN Clean ELSE cache[b]
    BY <1>1
  <2>5. Clean.func = 0 /\ Clean.dirty = FALSE
    BY DEF Clean
  <2>6. ASSUME NEW b \in Block PROVE CachedRead(b)' = CachedRead(b)
    <3>1. CASE b \in S
      <4>1. disk'[b] = Data(cache[b].val)
        BY <1>1, <3>1, AddrIs
      <4>2. disk'[b].val = cache[b].val /\ cache'[b].dirty = FALSE /\ cache[b].dirty
        BY <1>2, <2>4, <2>5, <3>1, <4>1 DEF Data
      <4> QED BY <4>2 DEF CachedRead
    <3>2. CASE b \notin S
      <4>1. disk'[b] = disk[b] /\ cache'[b] = cache[b]
        BY <1>1, <2>4, <3>2, AddrIs
      <4> QED BY <4>1 DEF CachedRead
    <3> QED BY <3>1, <3>2
  <2>7. \A b \in Block : cache'[b].dirty => cache'[b].func # 0
    BY <2>0, <2>4, <2>5 DEF CacheFollows
  <2>8. ASSUME NEW b \in Block, cache'[b].func # 0
        PROVE  /\ cache'[b].dirty
               /\ trans' # <<>> /\ cache'[b].func = Oldest'.id
               /\ \E p \in 1..Handed' : BufferOrder(Oldest'.blocks)[p].blk = b
    <3>1. cache'[b] = cache[b]
      BY <2>4, <2>5, <2>8
    <3>2. /\ cache[b].dirty /\ trans # <<>> /\ cache[b].func = Oldest.id
          /\ \E p \in 1..Handed : BufferOrder(Oldest.blocks)[p].blk = b
      BY <2>0, <2>8, <3>1 DEF CacheFollows
    <3> QED BY <2>1, <2>2, <2>3, <3>1, <3>2
  <2>9. (\A p \in 1..Handed :
           CachedRead(BufferOrder(Oldest.blocks)[p].blk) = BufferOrder(Oldest.blocks)[p].val)'
    <3>1. CASE trans = <<>>
      <4>1. Handed = 0
        BY <3>1 DEF Handed
      <4> QED BY <2>3, <4>1
    <3>2. CASE trans # <<>>
      <4>1. \A p \in 1..Handed : BufferOrder(Oldest.blocks)[p].blk \in Block
        BY <3>2, HandedIs
      <4>2. \A p \in 1..Handed :
              CachedRead(BufferOrder(Oldest.blocks)[p].blk) = BufferOrder(Oldest.blocks)[p].val
        BY <2>0 DEF CacheFollows
      <4> QED BY <2>2, <2>3, <2>6, <3>2, <4>1, <4>2
    <3> QED BY <3>1, <3>2
  <2>10. ASSUME NEW i \in 1..Len(trans')
         PROVE  trans'[i].pending + (IF i = 1 /\ At("count")' THEN 1 ELSE 0)
                  = Cardinality(FuncSet(cache', trans'[i].id))
    <3>1. i \in 1..Len(trans)
      BY <1>6
    <3>2. trans[i].pending + (IF i = 1 /\ At("count") THEN 1 ELSE 0)
            = Cardinality(FuncSet(cache, trans[i].id))
      BY <2>0, <3>1, FollowsIs
    <3>3. trans'[i].pending = PendingAfter(trans[i], S) /\ trans'[i].id = trans[i].id
      BY <1>5, <3>1
    <3>4. trans[i].pending \in Int /\ PendingAfter(trans[i], S) \in Int
      BY <1>4, <3>1, TransIs DEF Inv
    <3>5. Cardinality(FuncSet(cache', trans[i].id))
            = Cardinality(FuncSet(cache, trans[i].id)) - (trans[i].pending - PendingAfter(trans[i], S))
      BY <1>4, <3>1
    <3> QED BY <1>10, <3>2, <3>3, <3>4, <3>5
  <2> QED BY <2>7, <2>8, <2>9, <2>10 DEF CacheFollows, FuncSet
<1>17. NothingInMemory'
  BY <1>1 DEF NothingInMemory, InMemoryState
<1> QED BY <1>8, <1>10, <1>11, <1>12, <1>13, <1>14, <1>15, <1>16, <1>17 DEF Inv

\* A flush of the cache keeps the invariant, whoever starts it.
LEMMA FlushesInv ==
  ASSUME Inv, nLoggStart = 1,
         flush_device_cache \/ afs_force_flush_transaction \/ (\E b \in Block : cache_flusher(b))
  PROVE  Inv'
<1>0. TypeOK
  BY DEF Inv
<1>1. CASE flush_device_cache
  <2>1. mode = "mounted" /\ todo # <<>> /\ todo[1] = "flush"
    BY <1>0, <1>1, TodoIs DEF flush_device_cache, Step, Next1
  <2> QED BY <1>1, <2>1, FlushInv DEF flush_device_cache
<1>2. CASE afs_force_flush_transaction
  <2> DEFINE S == {b \in Dirty : trans # <<>> /\ \E i \in 1..Len(Oldest.blocks) :
                                    Oldest.blocks[i].blk = b}
  <2>1. mode = "mounted" /\ todo # <<>> /\ todo[1] = "force"
    BY <1>0, <1>2, TodoIs DEF afs_force_flush_transaction, Step, Next1
  <2>2. flush_block_list(S) /\ S \in SUBSET Dirty
    BY <1>2 DEF afs_force_flush_transaction
  <2>3. /\ todo' = Tail(todo)
        /\ UNCHANGED <<superblock, nLoggStart, sb, nOldBlockCount, nPendingLog, newBlocks, hash,
                       started, leave, fileBlocks, nextId, replay, nCalls, nCrash>>
    BY <1>2 DEF afs_force_flush_transaction
  <2> HIDE DEF S
  <2> QED BY <2>1, <2>2, <2>3, FlushInv
<1>3. CASE \E b \in Block : cache_flusher(b)
  <2>1. PICK b \in Block : cache_flusher(b)
    BY <1>3
  <2>2. {b} \in SUBSET Dirty
    BY <2>1 DEF cache_flusher
  <2> QED BY <2>1, <2>2, FlushInv DEF cache_flusher
<1> QED BY <1>1, <1>2, <1>3
-----------------------------------------------------------------------------
(* The transactions follow each other in the log.                          *)

\* Later transactions have greater ids.
LEMMA IdsGrow ==
  ASSUME Inv, NEW i \in 1..Len(trans), NEW j \in 1..Len(trans), i < j
  PROVE  trans[i].id < trans[j].id
<1>0. Len(trans) \in Nat
  BY ListIs DEF Inv
<1> DEFINE P == {d \in Nat : (i + 1) + d <= Len(trans) => trans[i].id < trans[(i + 1) + d].id}
<1>1. 0 \in P
  <2> SUFFICES ASSUME (i + 1) + 0 <= Len(trans) PROVE trans[i].id < trans[(i + 1) + 0].id
    OBVIOUS
  <2>1. (i + 1) + 0 = i + 1 /\ i + 1 \in 2..Len(trans) /\ (i + 1) - 1 = i
    BY <1>0
  <2>2. trans[(i + 1) - 1].id < trans[i + 1].id
    BY <2>1 DEF Inv, ListInOrder
  <2> QED BY <2>1, <2>2
<1>2. \A d \in 0..((j - (i + 1)) - 1) : d \in P => d + 1 \in P
  <2> SUFFICES ASSUME NEW d \in 0..((j - (i + 1)) - 1), d \in P
               PROVE  d + 1 \in P
    OBVIOUS
  <2> PICK k : k = (i + 1) + (d + 1)
    OBVIOUS
  <2>0. d \in Nat /\ d + 1 \in Nat /\ d + (i + 2) <= j /\ i \in Nat /\ j \in Nat /\ j <= Len(trans)
    BY <1>0
  <2>1. k \in 2..Len(trans) /\ k - 1 = (i + 1) + d /\ k \in 1..Len(trans) /\ k - 1 \in 1..Len(trans)
    <3>0. i >= 1
      BY <1>0
    <3>1. k = i + d + 2 /\ k \in Int
      BY <2>0
    <3>2. k <= Len(trans) /\ k >= 2
      BY <1>0, <2>0, <3>0, <3>1
    <3> QED BY <1>0, <2>0, <3>1, <3>2
  <2>4. trans[i].id < trans[k - 1].id
    BY <2>0, <2>1
  <2>2. trans[k - 1].id < trans[k].id
    BY <2>1 DEF Inv, ListInOrder
  <2>3. trans[i].id \in Nat /\ trans[k].id \in Nat /\ trans[k - 1].id \in Nat
    BY <2>1, TransIs DEF Inv
  <2>5. trans[i].id < trans[k].id
    BY <2>2, <2>3, <2>4
  <2> QED BY <2>0, <2>5
<1>3. j - (i + 1) \in P
  <2>1. j - (i + 1) \in Nat /\ j - (i + 1) \in 0..(j - (i + 1))
    BY <1>0
  <2> HIDE DEF P
  <2> QED BY <1>1, <1>2, <2>1, UpTo
<1>4. (i + 1) + (j - (i + 1)) = j
  BY <1>0
<1> QED BY <1>0, <1>3, <1>4

\* The logs of the transactions up to the i-th fit in the log.
LEMMA SumsIn ==
  ASSUME Inv, NEW i \in 1..Len(trans)
  PROVE  /\ LogSums(trans)[i] \in Nat /\ LogSums(trans)[i + 1] \in Nat /\ trans[i].count \in Nat
         /\ LogSums(trans)[i + 1] = LogSums(trans)[i] + trans[i].count
         /\ LogSums(trans)[i + 1] <= LogSize
         /\ Len(LogImage(trans[i].blocks)) = trans[i].count
         /\ trans[i].start \in 1..LogSize \/ nLoggStart # 1
<1>1. trans \in Seq(Transaction) /\ Len(trans) \in Nat
  BY ListIs DEF Inv
<1>2. LogSums(trans)[i + 1] = LogSums(trans)[i] + trans[i].count
      /\ LogSums(trans)[i] \in Nat /\ LogSums(trans)[i + 1] \in Nat
  BY <1>1, SumsStep
<1>3. trans[i].count \in Nat
  BY TransIs DEF Inv
<1>4. LogSums(trans)[i + 1] <= LogSums(trans)[Len(trans) + 1]
  <2>1. i + 1 \in 1..(Len(trans) + 1) /\ Len(trans) + 1 \in 1..(Len(trans) + 1)
    BY <1>1
  <2> QED BY <1>1, <2>1, SumsGrow
<1>5. /\ LogSums(trans)[Len(trans) + 1] <= LogSize
      /\ Len(LogImage(trans[i].blocks)) = trans[i].count
  BY DEF Inv, CountsAgree
<1>6. LogSums(trans)[Len(trans) + 1] \in Nat
  BY <1>1, SumsStep
<1>7. trans[i].start \in 1..LogSize \/ nLoggStart # 1
  BY PosHere DEF Inv, ListInOrder
<1> QED BY <1>2, <1>3, <1>4, <1>5, <1>6, <1>7, SizesIs

\* A transaction starts as far behind the oldest one as the logs between them
\* are long.
LEMMA StartIs ==
  ASSUME Inv, nLoggStart = 1, NEW j \in 1..Len(trans)
  PROVE  trans[j].start = Pos(trans[1].start, LogSums(trans)[j])
<1>0. Len(trans) \in Nat /\ trans \in Seq(Transaction) /\ 1 \in 1..Len(trans)
  BY ListIs DEF Inv
<1>1. trans[1].start \in 1..LogSize
  BY <1>0, SumsIn
<1> DEFINE P == {d \in Nat : 1 + d <= Len(trans) =>
                               trans[1 + d].start = Pos(trans[1].start, LogSums(trans)[1 + d])}
<1>2. 0 \in P
  BY <1>0, <1>1, SumsStep, PosZero
<1>3. \A d \in 0..((j - 1) - 1) : d \in P => d + 1 \in P
  <2> SUFFICES ASSUME NEW d \in 0..((j - 1) - 1),
                      trans[1 + d].start = Pos(trans[1].start, LogSums(trans)[1 + d])
               PROVE  trans[1 + (d + 1)].start = Pos(trans[1].start, LogSums(trans)[1 + (d + 1)])
    BY <1>0
  <2> PICK k : k = 1 + d
    OBVIOUS
  <2>1. k \in 1..Len(trans) /\ k + 1 \in 2..Len(trans) /\ (k + 1) - 1 = k /\ 1 + (d + 1) = k + 1
    BY <1>0
  <2>2. trans[k + 1].start = LogPos(trans[(k + 1) - 1].start, nLoggStart, nLoggEnd, trans[(k + 1) - 1].count)
    BY <2>1 DEF Inv, ListInOrder
  <2>3. trans[k + 1].start = Pos(trans[k].start, trans[k].count)
    BY <2>1, <2>2, PosHere
  <2>4. /\ LogSums(trans)[k] \in Nat /\ trans[k].count \in Nat
        /\ LogSums(trans)[k + 1] = LogSums(trans)[k] + trans[k].count
        /\ LogSums(trans)[k + 1] <= LogSize
    BY <2>1, SumsIn
  <2>5. Pos(Pos(trans[1].start, LogSums(trans)[k]), trans[k].count)
          = Pos(trans[1].start, LogSums(trans)[k] + trans[k].count)
    BY <1>1, <2>4, PosSum
  <2> QED BY <2>1, <2>3, <2>4, <2>5
<1>4. j - 1 \in P
  <2>1. j - 1 \in Nat /\ j - 1 \in 0..(j - 1)
    BY <1>0
  <2> HIDE DEF P
  <2> QED BY <1>2, <1>3, <2>1, UpTo
<1>5. 1 + (j - 1) = j
  BY <1>0
<1> QED BY <1>0, <1>4, <1>5

\* Position p of the log of transaction j, counted from the oldest one.
LEMMA SlotIs ==
  ASSUME Inv, nLoggStart = 1, NEW j \in 1..Len(trans), NEW p \in 1..Len(LogImage(trans[j].blocks))
  PROVE  /\ p \in 1..trans[j].count
         /\ LogSums(trans)[j] + p - 1 \in 0..(LogSize - 1)
         /\ LogPos(trans[j].start, nLoggStart, nLoggEnd, p - 1)
              = Pos(trans[1].start, LogSums(trans)[j] + p - 1)
         /\ LogPos(trans[j].start, nLoggStart, nLoggEnd, p - 1) = Pos(trans[j].start, p - 1)
         /\ LogPos(trans[j].start, nLoggStart, nLoggEnd, p - 1) \in 1..LogSize
<1>1. /\ LogSums(trans)[j] \in Nat /\ trans[j].count \in Nat
      /\ LogSums(trans)[j + 1] = LogSums(trans)[j] + trans[j].count
      /\ LogSums(trans)[j + 1] <= LogSize
      /\ Len(LogImage(trans[j].blocks)) = trans[j].count
  BY SumsIn
<1>2. p \in 1..trans[j].count /\ p - 1 \in Nat
  BY <1>1
<1>3. Len(trans) \in Nat /\ 1 \in 1..Len(trans)
  BY ListIs DEF Inv
<1>4. trans[1].start \in 1..LogSize
  BY <1>3, SumsIn
<1>5. LogSums(trans)[j] + (p - 1) <= LogSize /\ LogSums(trans)[j] + (p - 1) = LogSums(trans)[j] + p - 1
      /\ LogSums(trans)[j] + p - 1 \in 0..(LogSize - 1)
  BY <1>1, <1>2, SizesIs
<1>6. Pos(Pos(trans[1].start, LogSums(trans)[j]), p - 1) = Pos(trans[1].start, LogSums(trans)[j] + (p - 1))
  BY <1>1, <1>2, <1>4, <1>5, PosSum
<1>7. trans[j].start = Pos(trans[1].start, LogSums(trans)[j])
  BY StartIs
<1>8. LogPos(trans[j].start, nLoggStart, nLoggEnd, p - 1) = Pos(trans[j].start, p - 1)
  BY PosHere
<1>9. Pos(trans[1].start, LogSums(trans)[j] + p - 1) \in 1..LogSize
  <2>1. LogSums(trans)[j] + p - 1 \in 0..LogSize
    BY <1>5, SizesIs
  <2> QED BY <1>4, <2>1, PosIn
<1> QED BY <1>2, <1>5, <1>6, <1>7, <1>8, <1>9

\* What writing the open transaction to the log changes.
LEMMA LogWritesIs ==
  ASSUME Inv, nLoggStart = 1, NEW n \in 1..Len(trans)
  PROVE  /\ \A a \in DOMAIN LogWrites(trans[n]) :
              /\ LogWrites(trans[n])[a] \in DiskBlock
              /\ \E i \in 1..Len(LogImage(trans[n].blocks)) :
                   a = Pos(trans[1].start, LogSums(trans)[n] + i - 1)
         /\ DOMAIN LogWrites(trans[n]) \subseteq 1..LogSize
         /\ \A i \in 1..Len(LogImage(trans[n].blocks)) :
              LET a == LogPos(trans[n].start, nLoggStart, nLoggEnd, i - 1)
              IN  a \in DOMAIN LogWrites(trans[n]) /\ LogWrites(trans[n])[a] = LogImage(trans[n].blocks)[i]
<1> DEFINE image == LogImage(trans[n].blocks)
           at(i) == LogPos(trans[n].start, nLoggStart, nLoggEnd, i - 1)
           D == {at(i) : i \in 1..Len(image)}
           pick(a) == CHOOSE i \in 1..Len(image) : at(i) = a
<1>1. LogWrites(trans[n]) = [a \in D |-> image[pick(a)]]
  BY DEF LogWrites
<1>2. \A i \in 1..Len(image) : at(i) = Pos(trans[1].start, LogSums(trans)[n] + i - 1)
                               /\ LogSums(trans)[n] + i - 1 \in 0..(LogSize - 1)
                               /\ at(i) \in 1..LogSize
  BY SlotIs
<1>3. trans[1].start \in 1..LogSize
  <2>1. 1 \in 1..Len(trans)
    BY ListIs DEF Inv
  <2> QED BY <2>1, SumsIn
<1>4. LogSums(trans)[n] \in Nat
  BY SumsIn
<1>5. Len(image) \in Nat /\ \A i \in 1..Len(image) : image[i] \in DiskBlock
  BY TransIs, ImageIs DEF Inv
<1> HIDE DEF at, image
<1>6. \A i, j \in 1..Len(image) : at(i) = at(j) => i = j
  <2> TAKE i, j \in 1..Len(image)
  <2> HAVE at(i) = at(j)
  <2>1. LogSums(trans)[n] + i - 1 = LogSums(trans)[n] + j - 1
    BY <1>2, <1>3, PosOne
  <2> QED BY <1>4, <1>5, <2>1
<1>7. \A i \in 1..Len(image) : pick(at(i)) = i
  <2> TAKE i \in 1..Len(image)
  <2>1. pick(at(i)) \in 1..Len(image) /\ at(pick(at(i))) = at(i)
    OBVIOUS
  <2> HIDE DEF pick
  <2> QED BY <1>6, <2>1
<1> HIDE DEF pick
<1>8. \A i \in 1..Len(image) : at(i) \in DOMAIN LogWrites(trans[n])
                               /\ LogWrites(trans[n])[at(i)] = image[i]
  BY <1>1, <1>7
<1>9. \A a \in DOMAIN LogWrites(trans[n]) : \E i \in 1..Len(image) : a = at(i)
  BY <1>1
<1>10. \A a \in DOMAIN LogWrites(trans[n]) :
         LogWrites(trans[n])[a] \in DiskBlock /\ a \in 1..LogSize
         /\ \E i \in 1..Len(image) : a = Pos(trans[1].start, LogSums(trans)[n] + i - 1)
  <2> TAKE a \in DOMAIN LogWrites(trans[n])
  <2>1. PICK i \in 1..Len(image) : a = at(i)
    BY <1>9
  <2>2. LogWrites(trans[n])[a] = image[i] /\ a \in 1..LogSize
        /\ a = Pos(trans[1].start, LogSums(trans)[n] + i - 1)
    BY <1>2, <1>8, <2>1
  <2> QED BY <1>5, <2>2
<1> QED BY <1>8, <1>10 DEF at, image

\* The logs of two transactions do not meet.
LEMMA LogsApart ==
  ASSUME Inv, nLoggStart = 1, NEW i \in 1..Len(trans), NEW j \in 1..Len(trans), i < j,
         NEW p \in 1..Len(LogImage(trans[i].blocks)), NEW q \in 1..Len(LogImage(trans[j].blocks))
  PROVE  Pos(trans[1].start, LogSums(trans)[i] + p - 1) # Pos(trans[1].start, LogSums(trans)[j] + q - 1)
<1>1. /\ p \in 1..trans[i].count /\ LogSums(trans)[i] + p - 1 \in 0..(LogSize - 1)
      /\ q \in 1..trans[j].count /\ LogSums(trans)[j] + q - 1 \in 0..(LogSize - 1)
  BY SlotIs
<1>2. /\ LogSums(trans)[i] \in Nat /\ trans[i].count \in Nat /\ LogSums(trans)[j] \in Nat
      /\ LogSums(trans)[i + 1] = LogSums(trans)[i] + trans[i].count /\ trans[j].count \in Nat
  BY SumsIn
<1>3. LogSums(trans)[i + 1] <= LogSums(trans)[j]
  <2>1. trans \in Seq(Transaction) /\ Len(trans) \in Nat
    BY ListIs DEF Inv
  <2>2. i + 1 \in 1..j /\ j \in 1..(Len(trans) + 1)
    BY <2>1
  <2> QED BY <2>1, <2>2, SumsGrow
<1>4. LogSums(trans)[i] + p - 1 # LogSums(trans)[j] + q - 1
  <2>1. PICK x : x = LogSums(trans)[i]
    OBVIOUS
  <2>2. PICK y : y = LogSums(trans)[j]
    OBVIOUS
  <2>3. PICK c : c = trans[i].count
    OBVIOUS
  <2>4. PICK e : e = trans[j].count
    OBVIOUS
  <2>5. x \in Nat /\ y \in Nat /\ c \in Nat /\ e \in Nat /\ x + c <= y /\ p \in 1..c /\ q \in 1..e
    BY <1>1, <1>2, <1>3, <2>1, <2>2, <2>3, <2>4
  <2>6. x + p - 1 # y + q - 1
    BY <2>5
  <2> QED BY <2>1, <2>2, <2>6
<1>5. trans[1].start \in 1..LogSize
  <2>1. 1 \in 1..Len(trans)
    BY ListIs DEF Inv
  <2> QED BY <2>1, SumsIn
<1> QED BY <1>1, <1>4, <1>5, PosOne

\* The valid range of the log holds what was logged and is not in place.
LEMMA InvLog ==
  ASSUME Inv, nLoggStart = 1
  PROVE  LogHoldsUnflushed
<1> SUFFICES ASSUME mode = "mounted"
             PROVE  /\ superblock = sb
                    /\ superblock.valid = LogSums(trans)[Len(trans) + (IF HasOpen THEN 0 ELSE 1)]
                    /\ \A i \in 1..Len(trans) : trans[i].logged =>
                         \A p \in 1..Len(LogImage(trans[i].blocks)) :
                           disk[ValidPos(LogSums(trans)[i] + p - 1)] = LogImage(trans[i].blocks)[p]
  BY DEF LogHoldsUnflushed
<1>1. LogInPlace /\ InMemoryState
  BY DEF Inv, InMemoryState
<1>2. ASSUME NEW i \in 1..Len(trans), trans[i].logged, NEW p \in 1..Len(LogImage(trans[i].blocks))
      PROVE  disk[ValidPos(LogSums(trans)[i] + p - 1)] = LogImage(trans[i].blocks)[p]
  <2>1. trans # <<>> /\ superblock.start = trans[1].start
    <3>1. trans # <<>> /\ Oldest = trans[1]
      BY ListIs DEF Inv
    <3> QED BY <1>1, <3>1 DEF LogInPlace
  <2>2. disk[LogPos(trans[i].start, nLoggStart, nLoggEnd, p - 1)] = LogImage(trans[i].blocks)[p]
    BY <1>1, <1>2 DEF LogInPlace, InLog
  <2>3. LogPos(trans[i].start, nLoggStart, nLoggEnd, p - 1)
          = Pos(trans[1].start, LogSums(trans)[i] + p - 1)
    BY SlotIs
  <2> QED BY <2>1, <2>2, <2>3 DEF ValidPos, Pos
<1> QED BY <1>1, <1>2 DEF LogInPlace
-----------------------------------------------------------------------------
(* Writing the current transaction to the log.                             *)

\* A step is replaced by the one that finishes it.
LEMMA ShapeReplace ==
  ASSUME NEW s \in Seq(StepNames), s # <<>>, NEW st, ShapeOK(s, st), NEW x,
         (x = "super" /\ s[1] = "log") \/ (x = "todisk" /\ s[1] \in {"super", "discard"})
  PROVE  /\ <<x>> \o Tail(s) \in Seq(StepNames)
         /\ Len(<<x>> \o Tail(s)) = Len(s) /\ Len(s) \in Nat \ {0}
         /\ (<<x>> \o Tail(s))[1] = x
         /\ \A i \in 2..Len(s) : (<<x>> \o Tail(s))[i] = s[i]
         /\ ShapeOK(<<x>> \o Tail(s), st)
<1> DEFINE r == <<x>> \o Tail(s)
<1>1. /\ Len(s) \in Nat \ {0} /\ Tail(s) \in Seq(StepNames) /\ Len(Tail(s)) = Len(s) - 1
      /\ \A i \in 1..(Len(s) - 1) : Tail(s)[i] = s[i + 1]
  BY AtIs
<1>2. x \in StepNames /\ <<x>> \in Seq(StepNames) /\ Len(<<x>>) = 1
  BY DEF StepNames
<1>3. r \in Seq(StepNames) /\ Len(r) = Len(s) /\ r[1] = x
      /\ \A i \in 1..Len(Tail(s)) : r[i + 1] = Tail(s)[i]
  BY <1>1, <1>2
<1>4. \A i \in 2..Len(s) : r[i] = s[i]
  <2> TAKE i \in 2..Len(s)
  <2>1. i - 1 \in 1..Len(Tail(s)) /\ i - 1 \in 1..(Len(s) - 1) /\ (i - 1) + 1 = i
    BY <1>1
  <2>2. r[(i - 1) + 1] = Tail(s)[i - 1] /\ Tail(s)[i - 1] = s[(i - 1) + 1]
    BY <1>1, <1>3, <2>1
  <2> QED BY <2>1, <2>2
<1> HIDE DEF r
<1>5. \A i \in 2..Len(r) :
         /\ r[i] \notin {"count", "super"}
         /\ r[i] = "merge" => r[i - 1] = "space"
         /\ r[i] = "flush" => r[i - 1] = "drain"
  <2> TAKE i \in 2..Len(r)
  <2>1. /\ i \in 2..Len(s) /\ r[i] = s[i] /\ s[i] \notin {"count", "super"}
        /\ s[i] = "merge" => s[i - 1] = "space"
        /\ s[i] = "flush" => s[i - 1] = "drain"
    BY <1>3, <1>4 DEF ShapeOK
  <2>2. i - 1 = 1 \/ i - 1 \in 2..Len(s)
    BY <1>1, <2>1
  <2> QED BY <1>4, <2>1, <2>2
<1>6. \A i \in 1..Len(r) :
         /\ r[i] \in {"end", "unmount", "leave"} => i = Len(r)
         /\ r[i] \in {"create", "space", "merge", "revert", "leave", "end"} => st
         /\ st /\ r[i] \in {"log", "super"} => \E j \in i..Len(r) : r[j] = "create"
         /\ r[i] = "create" =>
              \A j \in 1..(i - 1) : \/ r[j] \in {"todisk", "count"}
                                    \/ j = 1 /\ r[j] \in {"log", "super"}
  <2> TAKE i \in 1..Len(r)
  <2>1. i \in 1..Len(s) /\ Len(r) = Len(s) /\ (i = 1 \/ i \in 2..Len(s))
    BY <1>1, <1>3
  <2>2. i # 1 => r[i] = s[i]
    BY <1>4, <2>1
  <2>3. r[i] \in {"end", "unmount", "leave"} => i = Len(r)
    BY <1>3, <2>1, <2>2 DEF ShapeOK
  <2>4. r[i] \in {"create", "space", "merge", "revert", "leave", "end"} => st
    BY <1>3, <2>1, <2>2 DEF ShapeOK
  <2>5. st /\ r[i] \in {"log", "super"} => \E j \in i..Len(r) : r[j] = "create"
    <3> HAVE st /\ r[i] \in {"log", "super"}
    <3>1. s[i] \in {"log", "super"}
      BY <1>3, <2>1, <2>2
    <3>2. PICK j \in i..Len(s) : s[j] = "create"
      BY <2>1, <3>1 DEF ShapeOK
    <3>3. j \in 2..Len(s)
      BY <1>1, <2>1, <3>2
    <3> QED BY <1>3, <1>4, <3>2, <3>3
  <2>6. r[i] = "create" =>
              \A j \in 1..(i - 1) : \/ r[j] \in {"todisk", "count"}
                                    \/ j = 1 /\ r[j] \in {"log", "super"}
    <3> HAVE r[i] = "create"
    <3> TAKE j \in 1..(i - 1)
    <3>1. i # 1 /\ s[i] = "create"
      BY <1>3, <2>2
    <3>2. s[j] \in {"todisk", "count"} \/ (j = 1 /\ s[j] \in {"log", "super"})
      BY <2>1, <3>1 DEF ShapeOK
    <3>3. j = 1 \/ j \in 2..Len(s)
      BY <1>1, <2>1
    <3> QED BY <1>3, <1>4, <3>2, <3>3
  <2> QED BY <2>3, <2>4, <2>5, <2>6
<1>7. ShapeOK(r, st)
  BY <1>5, <1>6 DEF ShapeOK
<1> QED BY <1>1, <1>3, <1>4, <1>7 DEF r

\* Replacing the first step by the one that finishes it keeps the shape.
LEMMA Swapped ==
  ASSUME Inv, todo # <<>>, NEW x, todo' = <<x>> \o Tail(todo), started' = started,
         leave'.blk = leave.blk,
         (x = "super" /\ todo[1] = "log") \/ (x = "todisk" /\ todo[1] \in {"super", "discard"})
  PROVE  /\ todo' \in Seq(StepNames) /\ CallShape'
         /\ \A name : At(name)' <=> name = x
         /\ Ahead("create")' <=> Ahead("create")
         /\ todo[1] = "discard" => ~Ahead("create")
         /\ started /\ todo[1] \in {"log", "super"} => Ahead("create")
<1>1. todo \in Seq(StepNames) /\ Len(todo) \in Nat \ {0}
  BY TodoIs DEF Inv
<1>2. ShapeOK(todo, started) /\ (Ahead("leave") => leave.blk # 0)
  BY ShapeIs DEF Inv
<1>3. /\ todo' \in Seq(StepNames) /\ Len(todo') = Len(todo) /\ todo'[1] = x
      /\ \A i \in 2..Len(todo) : todo'[i] = todo[i]
      /\ ShapeOK(todo', started)
  BY <1>1, <1>2, ShapeReplace
<1>4. \A i \in 1..Len(todo) : i = 1 \/ i \in 2..Len(todo)
  BY <1>1
<1>5. (Ahead("create")' <=> Ahead("create")) /\ (Ahead("leave")' => Ahead("leave"))
  BY <1>3, <1>4 DEF Ahead
<1>6. CallShape'
  <2>1. ShapeOK(todo', started') /\ (Ahead("leave")' => leave'.blk # 0)
    BY <1>2, <1>3, <1>5
  <2> QED BY <2>1 DEF CallShape, ShapeOK
<1>7. \A name : At(name)' <=> name = x
  <2>1. \A name : At(name)' <=> Len(todo') > 0 /\ todo'[1] = name
    BY <1>3, AtIs DEF At, Next1
  <2> QED BY <1>1, <1>3, <2>1
<1>8. todo[1] = "discard" => ~Ahead("create")
  <2> SUFFICES ASSUME todo[1] = "discard", Ahead("create") PROVE FALSE
    OBVIOUS
  <2>1. PICK i \in 1..Len(todo) : todo[i] = "create"
    BY DEF Ahead
  <2>2. 1 \in 1..(i - 1)
    BY <1>1, <2>1
  <2> QED BY <1>2, <2>1, <2>2 DEF ShapeOK
<1>9. started /\ todo[1] \in {"log", "super"} => Ahead("create")
  <2> HAVE started /\ todo[1] \in {"log", "super"}
  <2>1. 1 \in 1..Len(todo)
    BY <1>1
  <2> QED BY <1>2, <2>1 DEF ShapeOK, Ahead
<1> QED BY <1>3, <1>5, <1>6, <1>7, <1>8, <1>9

\* A panic leaves the volume as it is.
LEMMA PanicInv ==
  ASSUME Inv, nLoggStart = 1, mode = "mounted", InMemoryState', TypeOK',
         UNCHANGED <<disk, superblock, nLoggStart, sb, trans, nOldBlockCount, nPendingLog,
                     newBlocks, hash, started, leave, fileBlocks, nextId,
                     todo, replay, cache, nCalls, nCrash>>
  PROVE  Inv'
<1>0. UNCHANGED <<nLoggStart, sb, trans, nOldBlockCount, nPendingLog, newBlocks,
            hash, started, leave, fileBlocks, nextId>>
  OBVIOUS
<1>1. Kept /\ LoggedKept
  BY <1>0 DEF Kept, LoggedKept
<1>2. /\ nextId \in Nat /\ Len(trans) \in Nat /\ nextId' \in Nat /\ nextId <= nextId'
      /\ nLoggStart' = nLoggStart /\ UNCHANGED <<hash, newBlocks>>
      /\ \A i \in 1..Len(trans) : /\ trans'[i].written = trans[i].written
                                  /\ trans'[i].ondisk = trans[i].ondisk
                                  /\ trans[i].ondisk => trans'[i].ondisk
  <2>1. nextId \in Nat /\ Len(trans) \in Nat
    BY ListIs, LeaveIs DEF Inv
  <2>2. nextId' = nextId /\ trans' = trans /\ nLoggStart' = nLoggStart /\ hash' = hash
        /\ newBlocks' = newBlocks
    BY <1>0
  <2>3. nextId' \in Nat /\ nextId <= nextId'
    BY <2>1, <2>2
  <2> QED BY <2>1, <2>2, <2>3
<1>3. TypeOK'
  OBVIOUS
<1>4. \A name : (At(name)' <=> At(name)) /\ (Ahead(name)' <=> Ahead(name))
  BY DEF At, Ahead
<1>5. CallShape'
  BY <1>0 DEF Inv, CallShape, Ahead
<1>6. StepsReady'
  <2>1. (HasOpen' <=> HasOpen) /\ (NeedsDisk' <=> NeedsDisk) /\ Oldest' = Oldest
    BY <1>0 DEF HasOpen, NeedsDisk, Oldest, Current
  <2>2. StepsReady
    BY DEF Inv
  <2> QED BY <1>0, <1>4, <2>1, <2>2 DEF StepsReady
<1>7. CountsAgree'
  BY <1>0, <1>1, <1>3, CountsKept DEF Inv
<1>8. ListInOrder'
  BY <1>1, <1>2, OrderKept DEF Inv
<1>9. OneCopyPerBlock'
  BY <1>1, OnceKept DEF Inv
<1>10. HashFollows'
  BY <1>1, <1>2, HashKept DEF Inv
<1>11. LogInPlace'
  <2>1. InMemoryState
    BY DEF InMemoryState
  <2>2. At("super") => HasOpen
    BY DEF Inv, StepsReady
  <2>3. nLoggStart' = 1 /\ \A a \in 1..LogSize : disk'[a] = disk[a]
    BY <1>0
  <2> QED BY <1>0, <1>1, <1>3, <1>4, <2>1, <2>2, <2>3, LogKept DEF Inv
<1>12. CacheFollows'
  <2>1. Handed' = Handed
    BY <1>0, <1>4 DEF Handed, Oldest
  <2>2. \A b : CachedRead(b)' = CachedRead(b)
    BY DEF CachedRead
  <2>3. CacheFollows
    BY DEF Inv
  <2> QED BY <1>0, <1>4, <2>1, <2>2, <2>3 DEF CacheFollows, Oldest
<1>13. NothingInMemory'
  BY DEF NothingInMemory, InMemoryState
<1> QED BY <1>3, <1>5, <1>6, <1>7, <1>8, <1>9, <1>10, <1>11, <1>12, <1>13 DEF Inv

\* The log blocks of the current transaction do not touch those of the others.
LEMMA LogBlocksInv ==
  ASSUME Inv, nLoggStart = 1, mode = "mounted", todo # <<>>, todo[1] = "log", HasOpen,
         disk' = Overwritten(LogWrites(Current)), todo' = <<"super">> \o Tail(todo),
         UNCHANGED <<superblock, mode, nLoggStart, sb, trans, nOldBlockCount, nPendingLog,
                     newBlocks, hash, started, leave, fileBlocks, nextId,
                     replay, cache, nCalls, nCrash>>
  PROVE  Inv'
<1> PICK n : n = Len(trans)
  OBVIOUS
<1>1. /\ trans \in Seq(Transaction) /\ n \in 1..n /\ n \in 1..Len(trans) /\ 1 \in 1..Len(trans)
      /\ Current = trans[n] /\ trans # <<>> /\ n \in Nat /\ ~trans[n].logged
  BY ListIs DEF Inv, HasOpen
<1>2. /\ todo' \in Seq(StepNames) /\ CallShape'
      /\ \A name : At(name)' <=> name = "super"
      /\ Ahead("create")' <=> Ahead("create")
      /\ started => Ahead("create")
  BY Swapped
<1>3. HasOpen'
  BY DEF HasOpen, Current
<1>4. StepsReady'
  BY <1>2, <1>3 DEF StepsReady
<1> DEFINE w == LogWrites(trans[n])
<1>5. /\ \A a \in DOMAIN w :
           /\ w[a] \in DiskBlock
           /\ \E i \in 1..Len(LogImage(trans[n].blocks)) :
                a = Pos(trans[1].start, LogSums(trans)[n] + i - 1)
      /\ DOMAIN w \subseteq 1..LogSize
      /\ \A i \in 1..Len(LogImage(trans[n].blocks)) :
           /\ LogPos(trans[n].start, nLoggStart, nLoggEnd, i - 1) \in DOMAIN w
           /\ w[LogPos(trans[n].start, nLoggStart, nLoggEnd, i - 1)] = LogImage(trans[n].blocks)[i]
  BY <1>1, LogWritesIs
<1>6. disk' = [a \in Addr |-> IF a \in DOMAIN w THEN w[a] ELSE disk[a]]
  BY <1>1 DEF Overwritten
<1> HIDE DEF w
<1>7. disk' \in [Addr -> [val : Int, idx : Seq(Block)]]
  <2>1. disk \in [Addr -> DiskBlock]
    BY DEF Inv, TypeOK, DiskBlock
  <2>2. disk' \in [Addr -> DiskBlock]
    BY <1>5, <1>6, <2>1
  <2> QED BY <2>2 DEF DiskBlock
<1>8. TypeOK'
  BY <1>2, <1>7 DEF Inv, TypeOK
<1>9. \A b \in Block : disk'[b] = disk[b]
  BY <1>5, <1>6, AddrIs
<1>10. Kept /\ LoggedKept
  BY DEF Kept, LoggedKept
<1>11. /\ nextId \in Nat /\ nextId' \in Nat /\ nextId <= nextId'
       /\ \A i \in 1..Len(trans) : /\ trans'[i].written = trans[i].written
                                   /\ trans'[i].ondisk = trans[i].ondisk
                                   /\ trans[i].ondisk => trans'[i].ondisk
  BY DEF Inv, TypeOK
<1>12. CountsAgree'
  BY <1>8, <1>10, CountsKept DEF Inv
<1>13. ListInOrder'
  BY <1>1, <1>10, <1>11, OrderKept DEF Inv
<1>14. OneCopyPerBlock'
  BY <1>10, OnceKept DEF Inv
<1>15. HashFollows'
  BY <1>10, <1>11, HashKept DEF Inv
<1>16. ~At("count")
  BY TodoIs DEF Inv, Next1
<1>17. CacheFollows'
  <2>1. Handed' = Handed
    BY <1>2, <1>16 DEF Handed, Oldest
  <2>2. \A b \in Block : CachedRead(b)' = CachedRead(b)
    BY <1>9 DEF CachedRead
  <2>3. CacheFollows
    BY DEF Inv
  <2>4. \A p \in 1..Handed : BufferOrder(Oldest.blocks)[p].blk \in Block
    BY <1>1, HandedIs
  <2>5. ~At("count")' /\ Oldest' = Oldest
    BY <1>2 DEF Oldest
  <2> QED BY <1>16, <2>1, <2>2, <2>3, <2>4, <2>5 DEF CacheFollows
<1>18. LogInPlace'
  <2>1. LogInPlace /\ InMemoryState
    BY DEF Inv, InMemoryState
  <2>2. nLoggEnd' = nLoggEnd
    BY DEF nLoggEnd
  <2>3. ASSUME NEW i \in 1..Len(trans), trans[i].logged
        PROVE  InLog(trans[i])'
    <3>1. i # n /\ i < n
      BY <1>1, <2>3
    <3> SUFFICES ASSUME NEW p \in 1..Len(LogImage(trans[i].blocks))
                 PROVE  disk'[LogPos(trans[i].start, nLoggStart, nLoggEnd, p - 1)]
                          = LogImage(trans[i].blocks)[p]
      BY <2>2 DEF InLog
    <3> PICK a : a = LogPos(trans[i].start, nLoggStart, nLoggEnd, p - 1)
      OBVIOUS
    <3>2. a = Pos(trans[1].start, LogSums(trans)[i] + p - 1) /\ a \in 1..LogSize
      BY SlotIs
    <3>3. a \notin DOMAIN w
      <4> SUFFICES ASSUME a \in DOMAIN w PROVE FALSE
        OBVIOUS
      <4>1. PICK q \in 1..Len(LogImage(trans[n].blocks)) :
              a = Pos(trans[1].start, LogSums(trans)[n] + q - 1)
        BY <1>5
      <4> QED BY <1>1, <3>1, <3>2, <4>1, LogsApart
    <3>4. disk'[a] = disk[a]
      BY <1>6, <3>2, <3>3, AddrIs
    <3>5. disk[a] = LogImage(trans[i].blocks)[p]
      BY <2>1, <2>3 DEF LogInPlace, InLog
    <3> QED BY <3>4, <3>5
  <2>4. InLog(trans[n])'
    <3> SUFFICES ASSUME NEW p \in 1..Len(LogImage(trans[n].blocks))
                 PROVE  disk'[LogPos(trans[n].start, nLoggStart, nLoggEnd, p - 1)]
                          = LogImage(trans[n].blocks)[p]
      BY <2>2 DEF InLog
    <3> QED BY <1>5, <1>6, AddrIs
  <2>5. InLog(Current)'
    <3>1. Current' = trans'[n]
      BY <1>1 DEF Current
    <3> QED BY <2>4, <3>1 DEF InLog
  <2>6. /\ superblock' = sb'
        /\ superblock'.valid = LogSums(trans')[Len(trans') + (IF HasOpen' THEN 0 ELSE 1)]
        /\ superblock'.start = IF trans' = <<>> THEN nLoggStart' ELSE Oldest'.start
    BY <1>3, <2>1 DEF LogInPlace, Oldest
  <2>7. \A i \in 1..Len(trans') : trans'[i].logged => InLog(trans[i])'
    BY <2>3
  <2> QED BY <2>5, <2>6, <2>7 DEF LogInPlace
<1>19. NothingInMemory'
  BY DEF NothingInMemory, InMemoryState
<1> QED BY <1>2, <1>4, <1>8, <1>12, <1>13, <1>14, <1>15, <1>17, <1>18, <1>19 DEF Inv

\* Writing the log blocks keeps the invariant.
LEMMA LogInv ==
  ASSUME Inv, nLoggStart = 1, write_log_blocks
  PROVE  Inv'
<1>1. /\ mode = "mounted" /\ todo # <<>> /\ todo[1] = "log" /\ ~At("count") /\ ~At("super")
  BY TodoIs DEF write_log_blocks, Inv, Step, Next1
<1>2. UNCHANGED <<superblock, nLoggStart, sb, trans, nOldBlockCount, nPendingLog, newBlocks,
            hash, started, leave, fileBlocks, nextId, replay, cache, nCalls, nCrash>>
  BY DEF write_log_blocks, volume
<1>3. CASE ~HasOpen
  <2>1. todo' = Tail(todo) /\ UNCHANGED <<disk, mode>>
    BY <1>3 DEF write_log_blocks
  <2>2. HasOpen' <=> HasOpen
    BY <1>2 DEF HasOpen, Current
  <2>3. leave'.blk = leave.blk
    BY <1>2
  <2>4. todo' \in Seq(StepNames) /\ CallShape' /\ StepsReady' /\ ~At("count")' /\ ~At("super")'
    BY <1>1, <1>2, <1>3, <2>1, <2>2, <2>3, Popped
  <2>5. TypeOK'
    BY <1>2, <2>1, <2>4, LeaveIs, TypeTodo DEF Inv
  <2> QED BY <1>1, <1>2, <2>1, <2>4, <2>5, OnlyTodo
<1>4. CASE HasOpen /\ EmptyRun(Current)
  <2>1. mode' = "panic in log" /\ UNCHANGED <<disk, todo>>
    BY <1>4 DEF write_log_blocks
  <2>2. TypeOK'
    BY <1>2, <2>1, Zenon DEF Inv, TypeOK
  <2>3. InMemoryState'
    BY <2>1, Zenon DEF InMemoryState
  <2>4. UNCHANGED <<disk, todo>>
    BY <2>1
  <2> QED BY <1>1, <1>2, <2>2, <2>3, <2>4, PanicInv
<1>5. CASE HasOpen /\ ~EmptyRun(Current)
  <2>1. /\ disk' = Overwritten(LogWrites(Current)) /\ todo' = <<"super">> \o Tail(todo)
        /\ UNCHANGED mode
    BY <1>5 DEF write_log_blocks
  <2> QED BY <1>1, <1>2, <1>5, <2>1, LogBlocksInv
<1> QED BY <1>3, <1>4, <1>5

\* One transaction of the list is replaced.
LEMMA ReplacedIs ==
  ASSUME TypeOK, NEW k \in 1..Len(trans), NEW t \in Transaction, trans' = [trans EXCEPT ![k] = t]
  PROVE  /\ trans' \in Seq(Transaction) /\ Len(trans') = Len(trans) /\ trans'[k] = t
         /\ \A i \in 1..Len(trans) : i # k => trans'[i] = trans[i]
         /\ trans' # <<>> /\ trans # <<>>
         /\ Current' = trans'[Len(trans)] /\ Oldest' = trans'[1]
         /\ HasOpen' <=> ~trans'[Len(trans)].logged
<1>1. trans \in Seq(Transaction) /\ Len(trans) \in Nat
  BY ListIs
<1>2. trans' \in Seq(Transaction) /\ Len(trans') = Len(trans)
  BY <1>1
<1>3. trans'[k] = t /\ \A i \in 1..Len(trans) : i # k => trans'[i] = trans[i]
  BY <1>1
<1>4. trans' # <<>> /\ trans # <<>>
  BY <1>1, <1>2, EmptyIs
<1>5. Current' = trans'[Len(trans)] /\ Oldest' = trans'[1]
  BY <1>2, <1>4 DEF Current, Oldest, Last
<1> QED BY <1>2, <1>3, <1>4, <1>5 DEF HasOpen

\* What the cache holds does not depend on the flags of the transactions, and
\* a block may be counted after it was handed over.
LEMMA FollowsKept ==
  ASSUME Inv, TypeOK', Kept, UNCHANGED cache, \A b \in Block : disk'[b] = disk[b],
         trans # <<>> => Oldest'.written + (IF At("count")' THEN 1 ELSE 0)
                           = Oldest.written + (IF At("count") THEN 1 ELSE 0),
         \A i \in 1..Len(trans) :
           trans'[i].pending + (IF i = 1 /\ At("count")' THEN 1 ELSE 0)
             = trans[i].pending + (IF i = 1 /\ At("count") THEN 1 ELSE 0)
  PROVE  CacheFollows'
<1>1. CacheFollows
  BY DEF Inv
<1>2. Len(trans') = Len(trans) /\ Len(trans) \in Nat /\ (trans' = <<>> <=> trans = <<>>)
  <2>1. trans \in Seq(Transaction) /\ trans' \in Seq(Transaction)
    BY DEF Inv, TypeOK
  <2> QED BY <2>1, EmptyIs DEF Kept
<1>3. trans # <<>> => Oldest'.id = Oldest.id /\ Oldest'.blocks = Oldest.blocks
  <2> HAVE trans # <<>>
  <2>1. 1 \in 1..Len(trans) /\ Oldest = trans[1] /\ Oldest' = trans'[1]
    BY <1>2, ListIs DEF Inv, Oldest
  <2> QED BY <2>1 DEF Kept
<1>4. Handed' = Handed
  BY <1>2, <1>3 DEF Handed
<1>5. \A b \in Block : CachedRead(b)' = CachedRead(b)
  BY DEF CachedRead
<1>6. \A b \in Block : cache'[b].dirty => cache'[b].func # 0
  BY <1>1 DEF CacheFollows
<1>7. \A b \in Block : cache'[b].func # 0 =>
         /\ cache'[b].dirty
         /\ trans' # <<>> /\ cache'[b].func = Oldest'.id
         /\ \E p \in 1..Handed' : BufferOrder(Oldest'.blocks)[p].blk = b
  BY <1>1, <1>2, <1>3, <1>4 DEF CacheFollows
<1>8. (\A p \in 1..Handed :
         CachedRead(BufferOrder(Oldest.blocks)[p].blk) = BufferOrder(Oldest.blocks)[p].val)'
  <2>1. CASE trans = <<>>
    BY <1>4, <2>1 DEF Handed
  <2>2. CASE trans # <<>>
    <3>1. \A p \in 1..Handed : BufferOrder(Oldest.blocks)[p].blk \in Block
      BY <2>2, HandedIs
    <3>2. \A p \in 1..Handed :
            CachedRead(BufferOrder(Oldest.blocks)[p].blk) = BufferOrder(Oldest.blocks)[p].val
      BY <1>1 DEF CacheFollows
    <3> QED BY <1>3, <1>4, <1>5, <2>2, <3>1, <3>2
  <2> QED BY <2>1, <2>2
<1>9. ASSUME NEW i \in 1..Len(trans')
      PROVE  trans'[i].pending + (IF i = 1 /\ At("count")' THEN 1 ELSE 0)
               = Cardinality(FuncSet(cache', trans'[i].id))
  <2>1. i \in 1..Len(trans)
    BY <1>2
  <2>2. trans[i].pending + (IF i = 1 /\ At("count") THEN 1 ELSE 0)
          = Cardinality(FuncSet(cache, trans[i].id))
    BY <1>1, <2>1, FollowsIs
  <2>3. /\ trans'[i].pending + (IF i = 1 /\ At("count")' THEN 1 ELSE 0)
             = trans[i].pending + (IF i = 1 /\ At("count") THEN 1 ELSE 0)
        /\ trans'[i].id = trans[i].id
    BY <2>1 DEF Kept
  <2> QED BY <2>2, <2>3
<1> QED BY <1>6, <1>7, <1>8, <1>9 DEF CacheFollows, FuncSet

\* The order of the list does not depend on what is logged last.
LEMMA OrderGrows ==
  ASSUME ListInOrder, Kept, nLoggStart' = nLoggStart, UNCHANGED nextId,
         \A i \in 1..Len(trans) :
           /\ trans[i].logged => trans'[i].logged
           /\ trans'[i].written <= Len(trans'[i].blocks)
           /\ trans'[i].written > 0 \/ trans'[i].ondisk => i = 1 /\ trans'[i].logged
           /\ trans'[i].ondisk => trans'[i].written = Len(trans'[i].blocks),
         Len(trans) \in Nat
  PROVE  ListInOrder'
<1>1. nLoggEnd' = nLoggEnd
  BY DEF nLoggEnd
<1>2. Len(trans') = Len(trans)
  BY DEF Kept
<1>3. ASSUME NEW i \in 1..Len(trans')
      PROVE  /\ trans'[i].id \in 1..(nextId' - 1)
             /\ trans'[i].start \in nLoggStart'..nLoggEnd'
             /\ trans'[i].written <= Len(trans'[i].blocks)
             /\ trans'[i].written > 0 \/ trans'[i].ondisk => i = 1 /\ trans'[i].logged
             /\ trans'[i].ondisk => trans'[i].written = Len(trans'[i].blocks)
  <2>1. i \in 1..Len(trans)
    BY <1>2
  <2>2. trans[i].id \in 1..(nextId - 1) /\ trans[i].start \in nLoggStart..nLoggEnd
    BY <2>1 DEF ListInOrder
  <2> QED BY <1>1, <2>1, <2>2 DEF Kept
<1>4. ASSUME NEW i \in 2..Len(trans')
      PROVE  /\ trans'[i - 1].logged
             /\ trans'[i - 1].id < trans'[i].id
             /\ trans'[i].start = LogPos(trans'[i - 1].start, nLoggStart', nLoggEnd', trans'[i - 1].count)
  <2>1. i \in 2..Len(trans) /\ i \in 1..Len(trans) /\ i - 1 \in 1..Len(trans)
    BY <1>2
  <2>2. /\ trans[i - 1].logged
        /\ trans[i - 1].id < trans[i].id
        /\ trans[i].start = LogPos(trans[i - 1].start, nLoggStart, nLoggEnd, trans[i - 1].count)
    BY <2>1 DEF ListInOrder
  <2> QED BY <1>1, <2>1, <2>2 DEF Kept
<1> QED BY <1>3, <1>4 DEF ListInOrder

\* Writing the superblock after them keeps the invariant.
LEMMA SuperInv ==
  ASSUME Inv, nLoggStart = 1, write_log_superblock
  PROVE  Inv'
<1> PICK n : n = Len(trans)
  OBVIOUS
<1>1. /\ mode = "mounted" /\ todo # <<>> /\ todo[1] = "super" /\ ~At("count") /\ At("super")
  BY TodoIs DEF write_log_superblock, Inv, Step, Next1
<1>2. /\ trans' = [trans EXCEPT ![n] = [trans[n] EXCEPT !.logged = TRUE]]
      /\ nOldBlockCount' = nOldBlockCount - Len(LogImage(Current.blocks))
      /\ sb' = [sb EXCEPT !.valid = sb.valid + nOldBlockCount]
      /\ superblock' = sb'
      /\ todo' = <<"todisk">> \o Tail(todo)
      /\ UNCHANGED <<disk, mode, nLoggStart, nPendingLog, newBlocks, hash, started, leave,
                     fileBlocks, nextId, replay, cache, nCalls, nCrash>>
  BY DEF write_log_superblock
<1>3. HasOpen
  BY <1>1 DEF Inv, StepsReady
<1>4. /\ trans \in Seq(Transaction) /\ n \in Nat /\ n \in 1..Len(trans) /\ 1 \in 1..Len(trans)
      /\ Current = trans[n] /\ trans # <<>> /\ Oldest = trans[1]
  BY <1>3, ListIs DEF Inv, HasOpen
<1>5. trans[n] \in Transaction /\ [trans[n] EXCEPT !.logged = TRUE] \in Transaction
  BY <1>4, TransIs, SetLogged DEF Inv
<1>6. /\ trans' \in Seq(Transaction) /\ Len(trans') = n
      /\ trans'[n] = [trans[n] EXCEPT !.logged = TRUE]
      /\ \A i \in 1..n : i # n => trans'[i] = trans[i]
      /\ trans' # <<>> /\ Oldest' = trans'[1] /\ Current' = trans'[n]
      /\ HasOpen' <=> ~trans'[n].logged
  BY <1>2, <1>4, <1>5, ReplacedIs DEF Inv
<1>7. /\ trans'[n].logged = TRUE /\ trans'[n].id = trans[n].id /\ trans'[n].start = trans[n].start
      /\ trans'[n].count = trans[n].count /\ trans'[n].blocks = trans[n].blocks
      /\ trans'[n].written = trans[n].written /\ trans'[n].pending = trans[n].pending
      /\ trans'[n].ondisk = trans[n].ondisk
  BY <1>5, <1>6 DEF Transaction
<1>8. Kept
  BY <1>6, <1>7 DEF Kept
<1>9. /\ ~HasOpen'
      /\ \A i \in 1..Len(trans) : /\ trans'[i].written = trans[i].written
                                  /\ trans'[i].pending = trans[i].pending
                                  /\ trans'[i].ondisk = trans[i].ondisk
                                  /\ trans[i].ondisk => trans'[i].ondisk
                                  /\ trans[i].logged => trans'[i].logged
  BY <1>6, <1>7
<1>10. /\ nOldBlockCount = trans[n].count /\ trans[n].count \in Nat
       /\ Len(LogImage(trans[n].blocks)) = trans[n].count /\ nOldBlockCount' = 0
  <2>1. nOldBlockCount = trans[n].count /\ Len(LogImage(trans[n].blocks)) = trans[n].count
    BY <1>3, <1>4 DEF Inv, CountsAgree
  <2>2. trans[n].count \in Nat
    BY <1>4, TransIs DEF Inv
  <2> QED BY <1>2, <1>4, <2>1, <2>2
<1>11. /\ todo' \in Seq(StepNames) /\ CallShape'
       /\ \A name : At(name)' <=> name = "todisk"
       /\ Ahead("create")' <=> Ahead("create")
       /\ started => Ahead("create")
  <2>1. leave'.blk = leave.blk /\ started' = started
    BY <1>2
  <2> QED BY <1>1, <1>2, <2>1, Swapped
<1>12. StepsReady'
  BY <1>2, <1>9, <1>11 DEF StepsReady
<1>13. /\ sb' = [start |-> sb.start, valid |-> sb.valid + nOldBlockCount]
       /\ sb.start \in Nat /\ sb.valid \in Nat /\ sb' \in [start : Nat, valid : Nat]
       /\ sb'.start = sb.start /\ sb'.valid = sb.valid + nOldBlockCount
  <2>1. sb \in [start : Nat, valid : Nat]
    BY DEF Inv, TypeOK
  <2>2. sb' = [start |-> sb.start, valid |-> sb.valid + nOldBlockCount]
    BY <1>2, <2>1
  <2> QED BY <1>10, <2>1, <2>2
<1>14. TypeOK'
  <2>1. /\ trans' \in Seq(Transaction) /\ todo' \in Seq(StepNames) /\ nOldBlockCount' \in Nat
        /\ sb' \in [start : Nat, valid : Nat] /\ superblock' \in [start : Nat, valid : Nat]
    BY <1>2, <1>6, <1>10, <1>11, <1>13
  <2>2. UNCHANGED <<disk, mode, nLoggStart, nPendingLog, newBlocks, hash, started, leave,
                    fileBlocks, nextId, replay, cache, nCalls, nCrash>>
    BY <1>2
  <2> QED BY <2>1, <2>2 DEF Inv, TypeOK
<1>15. \A i \in 1..(n + 1) : LogSums(trans)[i] = LogSums(trans')[i]
  BY <1>4, <1>6, <1>8, SumsEqual DEF Kept
<1>16. CountsAgree'
  <2>1. \A i \in 1..Len(trans') : trans'[i].count = Len(LogImage(trans'[i].blocks))
    BY <1>6, <1>8 DEF Kept, Inv, CountsAgree
  <2>2. nPendingLog = LogSums(trans)[n + 1] /\ nPendingLog <= LogSize
    BY DEF Inv, CountsAgree
  <2>3. n + 1 \in 1..(n + 1)
    BY <1>4
  <2> QED BY <1>2, <1>6, <1>9, <1>10, <1>15, <2>1, <2>2, <2>3 DEF CountsAgree
<1>17. ListInOrder'
  <2>1. \A i \in 1..Len(trans) :
           /\ trans'[i].written <= Len(trans'[i].blocks)
           /\ trans'[i].written > 0 \/ trans'[i].ondisk => i = 1 /\ trans'[i].logged
           /\ trans'[i].ondisk => trans'[i].written = Len(trans'[i].blocks)
    BY <1>8, <1>9 DEF Kept, Inv, ListInOrder
  <2> QED BY <1>2, <1>4, <1>8, <1>9, <2>1, OrderGrows DEF Inv
<1>18. OneCopyPerBlock'
  BY <1>8, OnceKept DEF Inv
<1>19. HashFollows'
  <2>1. nextId \in Nat /\ nextId' = nextId
    BY <1>2, LeaveIs DEF Inv
  <2>2. nextId' \in Nat /\ nextId <= nextId'
    BY <2>1
  <2> QED BY <1>2, <1>8, <1>9, <2>1, <2>2, HashKept DEF Inv
<1>20. CacheFollows'
  <2>1. ~At("count")' /\ UNCHANGED <<cache, disk>>
    BY <1>2, <1>11
  <2>2. Oldest'.written = Oldest.written
    BY <1>4, <1>6, <1>9
  <2> QED BY <1>1, <1>8, <1>9, <1>14, <2>1, <2>2, FollowsKept
<1>21. LogInPlace'
  <2>1. LogInPlace /\ InMemoryState
    BY <1>1 DEF Inv, InMemoryState
  <2>2. nLoggEnd' = nLoggEnd
    BY <1>2 DEF nLoggEnd
  <2>3. ASSUME NEW i \in 1..Len(trans) PROVE InLog(trans[i])
    <3>1. i # n => trans[i].logged
      <4> HAVE i # n
      <4>1. i + 1 \in 2..Len(trans) /\ (i + 1) - 1 = i
        BY <1>4
      <4> QED BY <4>1 DEF Inv, ListInOrder
    <3> QED BY <1>1, <1>4, <2>1, <3>1 DEF LogInPlace
  <2>4. \A i \in 1..Len(trans') : trans'[i].logged => InLog(trans[i])'
    <3> TAKE i \in 1..Len(trans')
    <3>1. i \in 1..Len(trans) /\ InLog(trans[i])
      BY <1>6, <2>3
    <3>2. trans'[i].start = trans[i].start /\ trans'[i].blocks = trans[i].blocks
      BY <1>8, <3>1 DEF Kept
    <3> QED BY <1>2, <2>2, <3>1, <3>2 DEF InLog
  <2>5. superblock'.valid = LogSums(trans')[Len(trans') + (IF HasOpen' THEN 0 ELSE 1)]
    <3>1. sb.valid = LogSums(trans)[n]
      <4>1. n + 0 = n
        BY <1>4
      <4> QED BY <1>3, <2>1, <4>1 DEF LogInPlace
    <3>2. LogSums(trans)[n + 1] = LogSums(trans)[n] + trans[n].count /\ n + 1 \in 1..(n + 1)
      BY <1>4, SumsStep
    <3>3. superblock'.valid = LogSums(trans')[n + 1]
      BY <1>2, <1>10, <1>13, <1>15, <3>1, <3>2
    <3> QED BY <1>6, <1>9, <3>3
  <2>6. superblock'.start = IF trans' = <<>> THEN nLoggStart' ELSE Oldest'.start
    <3>1. sb.start = trans[1].start
      BY <1>4, <2>1 DEF LogInPlace
    <3>2. trans'[1].start = trans[1].start
      BY <1>4, <1>8 DEF Kept
    <3> QED BY <1>2, <1>6, <1>13, <3>1, <3>2
  <2>7. ~At("super")'
    BY <1>11
  <2> QED BY <1>2, <2>4, <2>5, <2>6, <2>7 DEF LogInPlace
<1>22. NothingInMemory'
  BY <1>1, <1>2 DEF NothingInMemory, InMemoryState
<1> QED BY <1>11, <1>12, <1>14, <1>16, <1>17, <1>18, <1>19, <1>20, <1>21, <1>22 DEF Inv
-----------------------------------------------------------------------------
(* Handing the oldest transaction to the cache.                            *)

\* A block that is handed over is counted before anything else.
LEMMA ShapePush ==
  ASSUME NEW s \in Seq(StepNames), NEW st, ShapeOK(s, st), Len(s) > 0, s[1] = "todisk"
  PROVE  /\ <<"count">> \o s \in Seq(StepNames) /\ Len(<<"count">> \o s) = Len(s) + 1
         /\ (<<"count">> \o s)[1] = "count" /\ Len(s) \in Nat
         /\ \A i \in 1..Len(s) : (<<"count">> \o s)[i + 1] = s[i]
         /\ ShapeOK(<<"count">> \o s, st)
<1> DEFINE r == <<"count">> \o s
<1>0. Len(s) \in Nat \ {0}
  OBVIOUS
<1>1. /\ r \in Seq(StepNames) /\ Len(r) = Len(s) + 1 /\ r[1] = "count"
      /\ \A i \in 1..Len(s) : r[i + 1] = s[i]
  BY DEF StepNames
<1> HIDE DEF r
<1>2. \A i \in 2..Len(r) : i - 1 \in 1..Len(s) /\ r[i] = s[i - 1]
  <2> TAKE i \in 2..Len(r)
  <2>1. i - 1 \in 1..Len(s) /\ (i - 1) + 1 = i
    BY <1>0, <1>1
  <2> QED BY <1>1, <2>1
<1>3. \A i \in 2..Len(r) :
         /\ r[i] \notin {"count", "super"}
         /\ r[i] = "merge" => r[i - 1] = "space"
         /\ r[i] = "flush" => r[i - 1] = "drain"
  <2> TAKE i \in 2..Len(r)
  <2>1. CASE i = 2
    <3>1. r[2] = s[1]
      BY <1>2, <2>1
    <3> QED BY <2>1, <3>1
  <2>2. CASE i \in 3..Len(r)
    <3>1. i - 1 \in 2..Len(s) /\ i - 1 \in 2..Len(r) /\ i \in 2..Len(r)
      BY <1>0, <1>1, <2>2
    <3>2. r[i] = s[i - 1] /\ r[i - 1] = s[(i - 1) - 1]
      BY <1>2, <3>1
    <3> QED BY <3>1, <3>2 DEF ShapeOK
  <2> QED BY <1>0, <1>1, <2>1, <2>2
<1>4. \A i \in 1..Len(r) :
         /\ r[i] \in {"end", "unmount", "leave"} => i = Len(r)
         /\ r[i] \in {"create", "space", "merge", "revert", "leave", "end"} => st
         /\ st /\ r[i] \in {"log", "super"} => \E j \in i..Len(r) : r[j] = "create"
         /\ r[i] = "create" =>
              \A j \in 1..(i - 1) : \/ r[j] \in {"todisk", "count"}
                                    \/ j = 1 /\ r[j] \in {"log", "super"}
  <2> TAKE i \in 1..Len(r)
  <2>1. CASE i = 1
    BY <1>1, <2>1
  <2>2. CASE i \in 2..Len(r)
    <3> PICK k : k = i - 1
      OBVIOUS
    <3>1. k \in 1..Len(s) /\ r[i] = s[k] /\ (i = Len(r) <=> k = Len(s)) /\ i = k + 1
      BY <1>0, <1>1, <1>2, <2>2
    <3>2. st /\ r[i] \in {"log", "super"} => \E j \in i..Len(r) : r[j] = "create"
      <4> HAVE st /\ r[i] \in {"log", "super"}
      <4>1. PICK j \in k..Len(s) : s[j] = "create"
        BY <3>1 DEF ShapeOK
      <4>2. j + 1 \in i..Len(r) /\ r[j + 1] = s[j]
        BY <1>0, <1>1, <3>1, <4>1
      <4> QED BY <4>1, <4>2
    <3>3. r[i] = "create" =>
              \A j \in 1..(i - 1) : \/ r[j] \in {"todisk", "count"}
                                    \/ j = 1 /\ r[j] \in {"log", "super"}
      <4> HAVE r[i] = "create"
      <4> TAKE j \in 1..(i - 1)
      <4>1. CASE j = 1
        BY <1>1, <4>1
      <4>2. CASE j # 1
        <5>1. j \in 2..Len(r) /\ j - 1 \in 1..(k - 1) /\ r[j] = s[j - 1]
          BY <1>0, <1>1, <1>2, <3>1, <4>2
        <5>2. s[j - 1] \in {"todisk", "count"} \/ (j - 1 = 1 /\ s[1] \in {"log", "super"})
          BY <3>1, <5>1 DEF ShapeOK
        <5> QED BY <5>1, <5>2
      <4> QED BY <4>1, <4>2
    <3>4. /\ r[i] \in {"end", "unmount", "leave"} => i = Len(r)
          /\ r[i] \in {"create", "space", "merge", "revert", "leave", "end"} => st
      BY <3>1 DEF ShapeOK
    <3> QED BY <3>2, <3>3, <3>4
  <2> QED BY <1>0, <1>1, <2>1, <2>2
<1>5. ShapeOK(r, st)
  BY <1>3, <1>4 DEF ShapeOK
<1> QED BY <1>0, <1>1, <1>5 DEF r

\* Putting the count of a handed over block in front keeps the shape.
LEMMA Pushed ==
  ASSUME Inv, todo # <<>>, todo' = <<"count">> \o todo, UNCHANGED <<started, leave>>,
         todo[1] = "todisk"
  PROVE  /\ todo' \in Seq(StepNames) /\ CallShape'
         /\ \A name : At(name)' <=> name = "count"
         /\ Ahead("create")' <=> Ahead("create")
<1>1. todo \in Seq(StepNames) /\ Len(todo) \in Nat \ {0} /\ Len(todo) > 0
  BY TodoIs DEF Inv
<1>2. ShapeOK(todo, started) /\ (Ahead("leave") => leave.blk # 0)
  BY ShapeIs DEF Inv
<1>3. /\ todo' \in Seq(StepNames) /\ Len(todo') = Len(todo) + 1 /\ todo'[1] = "count"
      /\ \A i \in 1..Len(todo) : todo'[i + 1] = todo[i]
      /\ ShapeOK(todo', started)
  BY <1>1, <1>2, ShapePush
<1>4. \A i \in 1..Len(todo') : i = 1 \/ (i - 1 \in 1..Len(todo) /\ todo'[i] = todo[i - 1])
  <2> TAKE i \in 1..Len(todo')
  <2>1. i = 1 \/ (i - 1 \in 1..Len(todo) /\ (i - 1) + 1 = i)
    BY <1>1, <1>3
  <2> QED BY <1>3, <2>1
<1>5. (Ahead("create")' => Ahead("create")) /\ (Ahead("leave")' => Ahead("leave"))
  BY <1>3, <1>4 DEF Ahead
<1>6. Ahead("create") => Ahead("create")'
  <2> HAVE Ahead("create")
  <2>1. PICK i \in 1..Len(todo) : todo[i] = "create"
    BY DEF Ahead
  <2>2. i + 1 \in 1..Len(todo') /\ todo'[i + 1] = "create"
    BY <1>1, <1>3, <2>1
  <2> QED BY <2>2 DEF Ahead
<1>7. CallShape'
  <2>1. ShapeOK(todo', started') /\ (Ahead("leave")' => leave'.blk # 0)
    BY <1>2, <1>3, <1>5
  <2> QED BY <2>1 DEF CallShape, ShapeOK
<1>8. \A name : At(name)' <=> name = "count"
  <2>1. \A name : At(name)' <=> Len(todo') > 0 /\ todo'[1] = name
    BY <1>3, AtIs DEF At, Next1
  <2> QED BY <1>1, <1>3, <2>1
<1> QED BY <1>3, <1>5, <1>6, <1>7, <1>8

\* Steps that change the cache and the steps only.
LEMMA OnlyCache ==
  ASSUME Inv, mode = "mounted", TypeOK', CallShape', StepsReady', CacheFollows', nLoggStart = 1,
         At("super")' => At("super"),
         UNCHANGED <<disk, superblock, mode, nLoggStart, sb, trans, nOldBlockCount,
                     nPendingLog, newBlocks, hash, replay, nextId>>
  PROVE  Inv'
<1>1. Kept /\ LoggedKept
  BY DEF Kept, LoggedKept
<1>2. nextId \in Nat /\ Len(trans) \in Nat
  BY ListIs DEF Inv, TypeOK
<1>3. CountsAgree'
  BY <1>1, CountsKept DEF Inv
<1>4. ListInOrder'
  BY <1>1, <1>2, OrderKept DEF Inv
<1>5. OneCopyPerBlock'
  BY <1>1, OnceKept DEF Inv
<1>6. HashFollows'
  BY <1>1, <1>2, HashKept DEF Inv
<1>7. LogInPlace'
  <2>1. InMemoryState
    BY DEF InMemoryState
  <2>2. At("super") => HasOpen
    BY DEF Inv, StepsReady
  <2> QED BY <1>1, <2>1, <2>2, LogKept DEF Inv
<1>8. NothingInMemory'
  BY DEF NothingInMemory, InMemoryState
<1> QED BY <1>3, <1>4, <1>5, <1>6, <1>7, <1>8 DEF Inv

\* Handing a block to the cache keeps the invariant.
LEMMA HandOverInv ==
  ASSUME Inv, nLoggStart = 1, write_logged_blocks
  PROVE  Inv'
<1> PICK w : w = Oldest.written
  OBVIOUS
<1> PICK bs : bs = Oldest.blocks
  OBVIOUS
<1> PICK id : id = Oldest.id
  OBVIOUS
<1> PICK e : e = BufferOrder(bs)[w + 1]
  OBVIOUS
<1>1. mode = "mounted" /\ todo # <<>> /\ todo[1] = "todisk" /\ ~At("count") /\ ~At("super")
      /\ ~At("log")
  BY TodoIs DEF write_logged_blocks, Inv, Step, Next1
<1>2. /\ NeedsDisk /\ w < Len(bs)
      /\ cache' = [cache EXCEPT ![e.blk] = [dirty |-> TRUE, val |-> e.val, func |-> id]]
      /\ todo' = <<"count">> \o todo
      /\ UNCHANGED <<disk, superblock, mode, nLoggStart, sb, trans, nOldBlockCount, nPendingLog,
                     newBlocks, hash, started, leave, fileBlocks, nextId, replay, nCalls, nCrash>>
  BY DEF write_logged_blocks, volume
<1>3. /\ trans # <<>> /\ 1 \in 1..Len(trans) /\ Oldest = trans[1] /\ Len(trans) \in Nat
  BY <1>2, ListIs DEF Inv, NeedsDisk
<1>4. /\ w \in Nat /\ bs \in Copies /\ Len(bs) \in Nat /\ id \in Nat \ {0}
      /\ w + 1 \in 1..Len(bs)
  <2>1. w \in Nat /\ bs \in Copies /\ Len(bs) \in Nat
    BY <1>3, TransIs DEF Inv
  <2>2. trans[1].id \in 1..(nextId - 1)
    BY <1>3 DEF Inv, ListInOrder
  <2>3. nextId \in Nat
    BY LeaveIs DEF Inv
  <2> QED BY <1>2, <1>3, <2>1, <2>2, <2>3
<1>5. e.blk \in Block /\ e.val \in Nat
  <2>1. e \in [blk : Block, val : Nat]
    BY <1>4, OrderIn
  <2> QED BY <2>1
<1>6. cache \in [Block -> [dirty : BOOLEAN, val : Nat, func : Nat]]
  BY DEF Inv, TypeOK
<1>7. /\ cache' \in [Block -> [dirty : BOOLEAN, val : Nat, func : Nat]]
      /\ cache'[e.blk].dirty = TRUE /\ cache'[e.blk].val = e.val /\ cache'[e.blk].func = id
      /\ \A b \in Block : b # e.blk => cache'[b] = cache[b]
  BY <1>2, <1>4, <1>5, <1>6
<1>8. /\ todo' \in Seq(StepNames) /\ CallShape'
      /\ \A name : At(name)' <=> name = "count"
      /\ Ahead("create")' <=> Ahead("create")
  BY <1>1, <1>2, Pushed
<1>9. TypeOK'
  <2>1. UNCHANGED <<disk, superblock, mode, nLoggStart, sb, trans, nOldBlockCount, nPendingLog,
                    newBlocks, hash, started, leave, fileBlocks, nextId, replay, nCalls, nCrash>>
    BY <1>2
  <2> QED BY <1>7, <1>8, <2>1 DEF Inv, TypeOK
<1>10. /\ HasOpen' <=> HasOpen
       /\ NeedsDisk' /\ Oldest' = Oldest
  BY <1>2 DEF HasOpen, Current, NeedsDisk, Oldest
<1>11. StepsReady'
  <2>1. /\ started /\ ~Ahead("create") => HasOpen
        /\ Ahead("create") => ~HasOpen
    BY <1>1 DEF Inv, StepsReady
  <2>2. Oldest'.written < Len(Oldest'.blocks)
    BY <1>2, <1>10
  <2> QED BY <1>2, <1>8, <1>10, <2>1, <2>2 DEF StepsReady
<1>12. Handed = w /\ Handed' = w + 1
  <2>1. Handed = w + 0
    BY <1>1, <1>3 DEF Handed
  <2>2. trans' # <<>> /\ Oldest'.written = w
    BY <1>2, <1>3, <1>10
  <2>3. Handed' = w + 1
    BY <1>8, <2>2 DEF Handed
  <2> QED BY <1>4, <2>1, <2>3
<1>13. CacheFollows
  BY DEF Inv
<1>14. \A p \in 1..w : BufferOrder(bs)[p].blk # e.blk /\ BufferOrder(bs)[p].blk \in Block
  <2> TAKE p \in 1..w
  <2>1. p \in 1..Len(bs) /\ p # w + 1
    BY <1>4
  <2>2. \A i, j \in 1..Len(bs) : bs[i].blk = bs[j].blk => i = j
    BY <1>3 DEF Inv, OneCopyPerBlock
  <2>3. BufferOrder(bs)[p] \in [blk : Block, val : Nat]
    BY <1>4, <2>1, OrderIn
  <2> QED BY <1>4, <2>1, <2>2, <2>3, OrderOnce
<1>15. cache[e.blk].func # id
  <2> SUFFICES ASSUME cache[e.blk].func = id PROVE FALSE
    OBVIOUS
  <2>1. PICK p \in 1..Handed : BufferOrder(Oldest.blocks)[p].blk = e.blk
    BY <1>4, <1>5, <1>13 DEF CacheFollows
  <2> QED BY <1>12, <1>14, <2>1
<1>16. \A b \in Block : cache'[b].dirty => cache'[b].func # 0
  BY <1>4, <1>7, <1>13 DEF CacheFollows
<1>17. ASSUME NEW b \in Block, cache'[b].func # 0
       PROVE  /\ cache'[b].dirty
              /\ trans' # <<>> /\ cache'[b].func = Oldest'.id
              /\ \E p \in 1..Handed' : BufferOrder(Oldest'.blocks)[p].blk = b
  <2>1. CASE b = e.blk
    <3>1. w + 1 \in 1..Handed'
      BY <1>4, <1>12
    <3> QED BY <1>2, <1>3, <1>7, <1>10, <2>1, <3>1
  <2>2. CASE b # e.blk
    <3>1. cache'[b] = cache[b]
      BY <1>7, <2>2
    <3>2. /\ cache[b].dirty /\ cache[b].func = Oldest.id
          /\ \E p \in 1..Handed : BufferOrder(Oldest.blocks)[p].blk = b
      BY <1>13, <1>17, <3>1 DEF CacheFollows
    <3>3. \A p \in 1..Handed : p \in 1..Handed'
      BY <1>4, <1>12
    <3> QED BY <1>2, <1>3, <1>10, <3>1, <3>2, <3>3
  <2> QED BY <2>1, <2>2
<1>18. ASSUME NEW p \in 1..Handed'
       PROVE  CachedRead(BufferOrder(bs)[p].blk)' = BufferOrder(bs)[p].val
  <2>1. CASE p = w + 1
    <3>1. cache'[e.blk].dirty /\ cache'[e.blk].val = e.val
      BY <1>7
    <3> QED BY <2>1, <3>1 DEF CachedRead
  <2>2. CASE p \in 1..w
    <3>1. /\ CachedRead(BufferOrder(bs)[p].blk) = BufferOrder(bs)[p].val
          /\ cache'[BufferOrder(bs)[p].blk] = cache[BufferOrder(bs)[p].blk]
      BY <1>7, <1>12, <1>13, <1>14, <2>2 DEF CacheFollows
    <3> QED BY <1>2, <3>1 DEF CachedRead
  <2> QED BY <1>4, <1>12, <2>1, <2>2
<1>19. ASSUME NEW i \in 1..Len(trans)
       PROVE  trans[i].pending + (IF i = 1 /\ At("count")' THEN 1 ELSE 0)
                = Cardinality(FuncSet(cache', trans[i].id))
  <2>1. trans[i].pending + (IF i = 1 /\ At("count") THEN 1 ELSE 0)
          = Cardinality(FuncSet(cache, trans[i].id))
    BY <1>13, FollowsIs
  <2>2. /\ trans[i].pending \in Int /\ trans[i].id \in Nat
        /\ IsFiniteSet(FuncSet(cache, trans[i].id)) /\ Cardinality(FuncSet(cache, trans[i].id)) \in Nat
    BY TransIs, FuncFinite DEF Inv
  <2>3. trans[i].pending = Cardinality(FuncSet(cache, trans[i].id))
    BY <1>1, <2>1, <2>2
  <2>4. CASE i = 1
    <3>1. FuncSet(cache', id) = FuncSet(cache, id) \cup {e.blk} /\ e.blk \notin FuncSet(cache, id)
      BY <1>5, <1>7, <1>15 DEF FuncSet
    <3>2. Cardinality(FuncSet(cache', id)) = Cardinality(FuncSet(cache, id)) + 1
      BY <1>3, <2>2, <2>4, <3>1, FS_AddElement
    <3> QED BY <1>3, <1>8, <2>3, <2>4, <3>2
  <2>5. CASE i # 1
    <3>1. id < trans[i].id
      <4>1. 1 < i
        BY <1>3, <2>5
      <4> QED BY <1>3, <4>1, IdsGrow
    <3>2. cache[e.blk].func # trans[i].id
      <4>1. cache[e.blk].func # 0 => cache[e.blk].func = Oldest.id
        BY <1>5, <1>13 DEF CacheFollows
      <4> QED BY <1>4, <2>2, <3>1, <4>1
    <3>3. FuncSet(cache', trans[i].id) = FuncSet(cache, trans[i].id)
      <4>1. cache'[e.blk].func # trans[i].id
        BY <1>4, <1>7, <2>2, <3>1
      <4> QED BY <1>7, <3>2, <4>1 DEF FuncSet
    <3> QED BY <2>2, <2>3, <2>5, <3>3
  <2> QED BY <2>4, <2>5
<1>20. CacheFollows'
  <2>1. (\A p \in 1..Handed :
           CachedRead(BufferOrder(Oldest.blocks)[p].blk) = BufferOrder(Oldest.blocks)[p].val)'
    <3>1. Oldest'.blocks = bs
      BY <1>10
    <3> QED BY <1>18, <3>1
  <2>2. \A i \in 1..Len(trans') :
          trans'[i].pending + (IF i = 1 /\ At("count")' THEN 1 ELSE 0)
            = Cardinality(FuncSet(cache', trans'[i].id))
    BY <1>2, <1>19
  <2> QED BY <1>16, <1>17, <2>1, <2>2 DEF CacheFollows, FuncSet
<1> QED BY <1>1, <1>2, <1>8, <1>9, <1>11, <1>20, OnlyCache

\* Counting it keeps the invariant.
LEMMA CountInv ==
  ASSUME Inv, nLoggStart = 1, count_written_block
  PROVE  Inv'
<1>1. mode = "mounted" /\ todo # <<>> /\ todo[1] = "count" /\ At("count") /\ ~At("super")
  BY TodoIs DEF count_written_block, Inv, Step, Next1
<1>2. NeedsDisk /\ Oldest.written < Len(Oldest.blocks)
  BY <1>1 DEF Inv, StepsReady
<1>3. /\ trans # <<>> /\ 1 \in 1..Len(trans) /\ Oldest = trans[1] /\ Len(trans) \in Nat
      /\ trans \in Seq(Transaction)
  BY <1>2, ListIs DEF Inv, NeedsDisk
<1> PICK t : t = [trans[1] EXCEPT !.pending = trans[1].pending + 1, !.written = trans[1].written + 1]
  OBVIOUS
<1>4. /\ trans[1] \in Transaction /\ trans[1].pending \in Int /\ trans[1].written \in Nat
      /\ Len(trans[1].blocks) \in Nat
  BY <1>3, TransIs DEF Inv
<1>5. /\ t \in Transaction /\ t.pending = trans[1].pending + 1 /\ t.written = trans[1].written + 1
      /\ t.id = trans[1].id /\ t.start = trans[1].start /\ t.count = trans[1].count
      /\ t.blocks = trans[1].blocks /\ t.logged = trans[1].logged /\ t.ondisk = trans[1].ondisk
  <2>1. trans[1].pending + 1 \in Int /\ trans[1].written + 1 \in Nat
    BY <1>4
  <2> QED BY <1>4, <2>1 DEF Transaction
<1>6. /\ trans' = [trans EXCEPT ![1] = t] /\ todo' = Tail(todo)
      /\ UNCHANGED <<disk, superblock, mode, nLoggStart, cache, replay, nCalls, nCrash,
                     sb, nOldBlockCount, nPendingLog, newBlocks, hash, started, leave,
                     fileBlocks, nextId>>
  BY <1>3 DEF count_written_block, InMemory
<1>7. /\ trans' \in Seq(Transaction) /\ Len(trans') = Len(trans) /\ trans'[1] = t
      /\ \A i \in 1..Len(trans) : i # 1 => trans'[i] = trans[i]
      /\ trans' # <<>> /\ Oldest' = trans'[1]
  BY <1>3, <1>5, <1>6, ReplacedIs DEF Inv
<1>8. Kept /\ LoggedKept
  BY <1>5, <1>7 DEF Kept, LoggedKept
<1>9. \A i \in 1..Len(trans) : trans'[i].ondisk = trans[i].ondisk /\ trans'[i].logged = trans[i].logged
  BY <1>5, <1>7
<1>10. HasOpen' <=> HasOpen
  <2>1. todo' \in Seq(StepNames)
    BY <1>1, <1>6, TodoIs DEF Inv
  <2>2. TypeOK'
    BY <1>6, <1>7, <2>1 DEF Inv, TypeOK
  <2> QED BY <1>8, <2>2, OpenKept DEF Inv
<1>11. todo' \in Seq(StepNames) /\ CallShape' /\ StepsReady' /\ ~At("count")' /\ ~At("super")'
  <2>1. leave'.blk = leave.blk /\ started' = started
    BY <1>6
  <2> QED BY <1>1, <1>6, <1>10, <2>1, Popped
<1>12. TypeOK'
  BY <1>6, <1>7, <1>11 DEF Inv, TypeOK
<1>13. CountsAgree'
  BY <1>6, <1>8, <1>12, CountsKept DEF Inv
<1>14. ListInOrder'
  <2>1. ASSUME NEW i \in 1..Len(trans)
        PROVE  /\ trans[i].logged => trans'[i].logged
               /\ trans'[i].written <= Len(trans'[i].blocks)
               /\ trans'[i].written > 0 \/ trans'[i].ondisk => i = 1 /\ trans'[i].logged
               /\ trans'[i].ondisk => trans'[i].written = Len(trans'[i].blocks)
    <3>1. CASE i = 1
      <4>1. trans[1].logged /\ ~trans[1].ondisk /\ trans[1].written < Len(trans[1].blocks)
        BY <1>2, <1>3 DEF NeedsDisk
      <4>2. /\ trans'[i].written = trans[1].written + 1 /\ trans'[i].blocks = trans[1].blocks
            /\ trans'[i].logged = trans[1].logged /\ trans'[i].ondisk = trans[1].ondisk
        BY <1>5, <1>7, <3>1
      <4>3. trans[1].written + 1 <= Len(trans[1].blocks)
        BY <1>4, <4>1
      <4> QED BY <3>1, <4>1, <4>2, <4>3
    <3>2. CASE i # 1
      <4>1. trans'[i] = trans[i]
        BY <1>7, <3>2
      <4> QED BY <4>1 DEF Inv, ListInOrder
    <3> QED BY <3>1, <3>2
  <2> QED BY <1>3, <1>6, <1>8, <2>1, OrderGrows DEF Inv
<1>15. OneCopyPerBlock'
  BY <1>8, OnceKept DEF Inv
<1>16. HashFollows'
  <2>1. nextId \in Nat /\ nextId' = nextId
    BY <1>6, LeaveIs DEF Inv
  <2>2. nextId' \in Nat /\ nextId <= nextId'
    BY <2>1
  <2>3. \A i \in 1..Len(trans) : trans[i].ondisk => trans'[i].ondisk
    BY <1>9
  <2> QED BY <1>6, <1>8, <2>1, <2>2, <2>3, HashKept DEF Inv
<1>17. CacheFollows'
  <2>1. Oldest'.written + (IF At("count")' THEN 1 ELSE 0)
          = Oldest.written + (IF At("count") THEN 1 ELSE 0)
    BY <1>1, <1>3, <1>4, <1>5, <1>7, <1>11
  <2>2. ASSUME NEW i \in 1..Len(trans)
        PROVE  trans'[i].pending + (IF i = 1 /\ At("count")' THEN 1 ELSE 0)
                 = trans[i].pending + (IF i = 1 /\ At("count") THEN 1 ELSE 0)
    <3>1. CASE i = 1
      <4>1. trans'[i].pending = trans[i].pending + 1 /\ trans[i].pending \in Int
        BY <1>4, <1>5, <1>7, <3>1
      <4>2. (trans[i].pending + 1) + 0 = trans[i].pending + 1
        BY <4>1
      <4> QED BY <1>1, <1>11, <3>1, <4>1, <4>2
    <3>2. CASE i # 1
      BY <1>7, <3>2
    <3> QED BY <3>1, <3>2
  <2>3. UNCHANGED <<cache, disk>>
    BY <1>6
  <2> QED BY <1>8, <1>12, <2>1, <2>2, <2>3, FollowsKept
<1>18. LogInPlace'
  <2>1. InMemoryState
    BY <1>1 DEF InMemoryState
  <2> QED BY <1>1, <1>6, <1>8, <1>11, <1>12, <2>1, LogKept DEF Inv
<1>19. NothingInMemory'
  BY <1>1, <1>6 DEF NothingInMemory, InMemoryState
<1> QED BY <1>11, <1>12, <1>13, <1>14, <1>15, <1>16, <1>17, <1>18, <1>19 DEF Inv

\* The entries of a transaction that is in the cache are dropped, and no other.
LEMMA UnlinkIs ==
  ASSUME Inv, NEW b \in Block, trans # <<>>
  PROVE  /\ Unlink(hash[b]) \in Entry
         /\ EntryOK(b, Unlink(hash[b]), IsIn(b, newBlocks), nextId)
         /\ Unlink(hash[b]).buffer = hash[b].buffer \/ Unlink(hash[b]).buffer = NoBuffer
         /\ hash[b].trans # Oldest.id => Unlink(hash[b]) = hash[b]
<1> PICK e : e = hash[b]
  OBVIOUS
<1>1. /\ e \in Entry /\ e.present \in BOOLEAN /\ e.trans \in Nat /\ e.new \in Nat
      /\ e.buffer \in Nat \X Nat
  BY EntryIs DEF Inv
<1>2. EntryOK(b, e, IsIn(b, newBlocks), nextId)
  BY HashIs DEF Inv
<1>3. 1 \in 1..Len(trans) /\ Oldest = trans[1] /\ nextId \in Nat \ {0}
  BY ListIs, LeaveIs DEF Inv
<1>4. Oldest.id \in 1..(nextId - 1)
  BY <1>3 DEF Inv, ListInOrder
<1>5. CASE e.trans # Oldest.id
  <2>1. Unlink(e) = e
    BY <1>5 DEF Unlink
  <2> QED BY <1>1, <1>2, <2>1
<1>6. CASE e.trans = Oldest.id /\ e.new = 0
  <2>1. Unlink(e) = NoEntry
    BY <1>6 DEF Unlink
  <2>2. ~IsIn(b, newBlocks)
    BY <1>2, <1>6 DEF EntryOK
  <2> QED BY <1>3, <1>6, <2>1, <2>2, NoEntryIs DEF EntryOK
<1>7. CASE e.trans = Oldest.id /\ e.new # 0
  <2>1. Unlink(e) = [e EXCEPT !.trans = 0]
    BY <1>7 DEF Unlink
  <2>2. [e EXCEPT !.trans = 0] = [present |-> e.present, trans |-> 0, buffer |-> e.buffer, new |-> e.new]
    BY <1>1 DEF Entry
  <2>3. Unlink(e) \in Entry
    <3>1. [present |-> e.present, trans |-> 0, buffer |-> e.buffer, new |-> e.new] \in Entry
      BY <1>1, MakeEntry
    <3> QED BY <2>1, <2>2, <3>1
  <2>4. /\ Unlink(e).present = e.present /\ Unlink(e).trans = 0 /\ Unlink(e).buffer = e.buffer
        /\ Unlink(e).new = e.new
    BY <2>1, <2>2
  <2>5. e.present
    <3>1. ~e.present => e = NoEntry
      BY <1>2 DEF EntryOK
    <3> QED BY <1>1, <1>7, <3>1, NoEntryIs
  <2>6. EntryOK(b, Unlink(e), IsIn(b, newBlocks), nextId)
    BY <1>2, <1>3, <1>7, <2>4, <2>5 DEF EntryOK
  <2> QED BY <1>7, <2>3, <2>4, <2>6
<1> QED BY <1>5, <1>6, <1>7

\* The end of the handover keeps the invariant.
LEMMA WrittenInv ==
  ASSUME Inv, nLoggStart = 1, written_to_disk
  PROVE  Inv'
<1>1. /\ mode = "mounted" /\ todo # <<>> /\ todo[1] = "todisk" /\ ~At("count") /\ ~At("super")
      /\ todo' = Tail(todo)
  BY TodoIs DEF written_to_disk, Inv, Step, Next1
<1>2. UNCHANGED <<disk, superblock, mode, nLoggStart, cache, replay, nCalls, nCrash,
                  sb, nOldBlockCount, nPendingLog, newBlocks, started, leave, fileBlocks, nextId>>
  BY DEF written_to_disk, InMemory
<1>3. leave'.blk = leave.blk /\ started' = started
  BY <1>2
<1>4. CASE ~NeedsDisk
  <2>1. UNCHANGED <<trans, hash>>
    BY <1>4 DEF written_to_disk
  <2>2. HasOpen' <=> HasOpen
    BY <2>1 DEF HasOpen, Current
  <2>3. todo' \in Seq(StepNames) /\ CallShape' /\ StepsReady' /\ ~At("count")' /\ ~At("super")'
    BY <1>1, <1>3, <2>2, Popped
  <2>4. TypeOK'
    BY <1>2, <2>1, <2>3, LeaveIs, TypeTodo DEF Inv
  <2> QED BY <1>1, <1>2, <2>1, <2>3, <2>4, OnlyTodo
<1>5. CASE NeedsDisk
  <2> PICK t : t = [trans[1] EXCEPT !.ondisk = TRUE]
    OBVIOUS
  <2>1. /\ Oldest.written = Len(Oldest.blocks) /\ trans' = [trans EXCEPT ![1] = t]
        /\ hash' = [b \in Block |-> Unlink(hash[b])]
    BY <1>5 DEF written_to_disk
  <2>2. /\ trans # <<>> /\ 1 \in 1..Len(trans) /\ Oldest = trans[1] /\ Len(trans) \in Nat
        /\ trans \in Seq(Transaction) /\ trans[1] \in Transaction /\ trans[1].logged
    BY <1>5, ListIs, TransIs DEF Inv, NeedsDisk
  <2>3. /\ t \in Transaction /\ t.ondisk = TRUE /\ t.pending = trans[1].pending
        /\ t.written = trans[1].written
        /\ t.id = trans[1].id /\ t.start = trans[1].start /\ t.count = trans[1].count
        /\ t.blocks = trans[1].blocks /\ t.logged = trans[1].logged
    BY <2>2, SetOnDisk DEF Transaction
  <2>4. /\ trans' \in Seq(Transaction) /\ Len(trans') = Len(trans) /\ trans'[1] = t
        /\ \A i \in 1..Len(trans) : i # 1 => trans'[i] = trans[i]
        /\ trans' # <<>> /\ Oldest' = trans'[1]
    BY <2>1, <2>2, <2>3, ReplacedIs DEF Inv
  <2>5. Kept /\ LoggedKept
    BY <2>3, <2>4 DEF Kept, LoggedKept
  <2>6. \A i \in 1..Len(trans) : /\ trans'[i].written = trans[i].written
                                 /\ trans'[i].pending = trans[i].pending
    BY <2>3, <2>4
  <2>7. \A b \in Block : hash'[b] = Unlink(hash[b]) /\ hash'[b] \in Entry
    BY <2>1, <2>2, UnlinkIs
  <2>8. hash' \in [Block -> Entry]
    BY <2>1, <2>7
  <2>9. todo' \in Seq(StepNames)
    BY <1>1, TodoIs DEF Inv
  <2>10. TypeOK'
    BY <1>2, <2>4, <2>8, <2>9 DEF Inv, TypeOK
  <2>11. HasOpen' <=> HasOpen
    BY <2>5, <2>10, OpenKept DEF Inv
  <2>12. CallShape' /\ StepsReady' /\ ~At("count")' /\ ~At("super")'
    BY <1>1, <1>3, <2>11, Popped
  <2>13. CountsAgree'
    BY <1>2, <2>5, <2>10, CountsKept DEF Inv
  <2>14. ListInOrder'
    <3>1. ASSUME NEW i \in 1..Len(trans)
          PROVE  /\ trans[i].logged => trans'[i].logged
                 /\ trans'[i].written <= Len(trans'[i].blocks)
                 /\ trans'[i].written > 0 \/ trans'[i].ondisk => i = 1 /\ trans'[i].logged
                 /\ trans'[i].ondisk => trans'[i].written = Len(trans'[i].blocks)
      <4>0. trans[i].written <= Len(trans[i].blocks)
        BY DEF Inv, ListInOrder
      <4>1. CASE i = 1
        BY <2>1, <2>2, <2>3, <2>4, <4>0, <4>1
      <4>2. CASE i # 1
        <5>1. trans'[i] = trans[i]
          BY <2>4, <4>2
        <5> QED BY <5>1 DEF Inv, ListInOrder
      <4> QED BY <4>1, <4>2
    <3> QED BY <1>2, <2>2, <2>5, <3>1, OrderGrows DEF Inv
  <2>15. OneCopyPerBlock'
    BY <2>5, OnceKept DEF Inv
  <2>16. CacheFollows'
    <3>1. Oldest'.written = Oldest.written
      BY <2>2, <2>3, <2>4
    <3>2. UNCHANGED <<cache, disk>>
      BY <1>2
    <3> QED BY <1>1, <2>5, <2>6, <2>10, <2>12, <3>1, <3>2, FollowsKept
  <2>17. LogInPlace'
    <3>1. InMemoryState
      BY <1>1 DEF InMemoryState
    <3> QED BY <1>1, <1>2, <2>5, <2>10, <2>12, <3>1, LogKept DEF Inv
  <2>18. NothingInMemory'
    BY <1>1, <1>2 DEF NothingInMemory, InMemoryState
  <2>19. HashFollows'
    <3>1. \A i, j \in 1..Len(newBlocks') : newBlocks'[i] = newBlocks'[j] => i = j
      BY <1>2 DEF Inv, HashFollows
    <3>2. \A b \in Block : EntryOK(b, hash'[b], IsIn(b, newBlocks'), nextId')
      BY <1>2, <2>2, <2>7, UnlinkIs
    <3>3. \A b : \A i \in 1..Len(trans) : Holds(i, b)' <=> Holds(i, b)
      BY <2>5 DEF Holds, Kept
    <3>4. \A b : \A i \in 1..Len(trans) : Newest(i, b)' <=> Newest(i, b)
      <4> TAKE b
      <4> TAKE i \in 1..Len(trans)
      <4>1. \A k \in (i + 1)..Len(trans) : k \in 1..Len(trans)
        BY <2>2
      <4> QED BY <2>4, <3>3, <4>1 DEF Newest
    <3>5. ASSUME NEW b \in Block, NEW i \in 1..Len(trans)
          PROVE  /\ hash'[b].buffer[1] = trans'[i].id =>
                      /\ hash'[b].buffer[2] \in 1..Len(trans'[i].blocks)
                      /\ trans'[i].blocks[hash'[b].buffer[2]].blk = b
                      /\ Newest(i, b)'
                 /\ Holds(i, b)' /\ Newest(i, b)' /\ ~trans'[i].ondisk =>
                      hash'[b].trans = trans'[i].id /\ hash'[b].buffer[1] = trans'[i].id
      <4>0. /\ trans'[i].id = trans[i].id /\ trans'[i].blocks = trans[i].blocks
            /\ trans[i].id # 0 /\ trans[i].id \in Nat
        <5>1. trans[i].id \in 1..(nextId - 1) /\ nextId \in Nat
          BY LeaveIs DEF Inv, ListInOrder
        <5> QED BY <2>5, <5>1 DEF Kept
      <4>1. PlaceOK(b, hash[b], i)
        BY HashIs DEF Inv
      <4>2. hash'[b].buffer[1] = trans[i].id => hash'[b].buffer = hash[b].buffer
        BY <2>2, <2>7, <4>0, UnlinkIs, NoEntryIs
      <4>3. ASSUME Holds(i, b), Newest(i, b), ~trans'[i].ondisk
            PROVE  hash'[b].trans = trans[i].id /\ hash'[b].buffer[1] = trans[i].id
        <5>0. i # 1
          <6>1. trans'[1].ondisk = TRUE
            BY <2>3, <2>4
          <6> QED BY <4>3, <6>1
        <5>1. i # 1 /\ trans'[i] = trans[i] /\ 1 < i
          BY <2>2, <2>4, <5>0
        <5>2. trans[1].id < trans[i].id /\ trans[1].id \in Nat
          BY <2>2, <5>1, IdsGrow, TransIs DEF Inv
        <5>3. hash[b].trans = trans[i].id /\ hash[b].buffer[1] = trans[i].id
          BY <4>1, <4>3, <5>1 DEF PlaceOK
        <5>4. hash'[b] = hash[b]
          BY <2>2, <2>7, <4>0, <5>2, <5>3, UnlinkIs
        <5> QED BY <5>3, <5>4
      <4> QED BY <3>3, <3>4, <4>0, <4>1, <4>2, <4>3 DEF PlaceOK
    <3> QED BY <2>4, <3>1, <3>2, <3>5 DEF HashFollows, EntryOK, IsIn
  <2> QED BY <2>10, <2>12, <2>13, <2>14, <2>15, <2>16, <2>17, <2>18, <2>19 DEF Inv
<1> QED BY <1>4, <1>5
-----------------------------------------------------------------------------
(* The oldest transaction leaves the log.                                  *)

\* Once no callback is missing, the cache holds nothing of the journal.
LEMMA NothingDirty ==
  ASSUME Inv, trans # <<>>, Oldest.pending <= 0, ~At("count")
  PROVE  \A b \in Block : cache[b].func = 0 /\ ~cache[b].dirty
<1>1. 1 \in 1..Len(trans) /\ Oldest = trans[1]
  BY ListIs DEF Inv
<1>2. CacheFollows
  BY DEF Inv
<1>3. trans[1].pending + 0 = Cardinality(FuncSet(cache, trans[1].id)) /\ trans[1].pending \in Int
  BY <1>1, <1>2, FollowsIs, TransIs DEF Inv
<1>4. /\ IsFiniteSet(FuncSet(cache, trans[1].id))
      /\ Cardinality(FuncSet(cache, trans[1].id)) \in Nat
  BY FuncFinite
<1>5. Cardinality(FuncSet(cache, trans[1].id)) = 0
  BY <1>1, <1>3, <1>4
<1>6. FuncSet(cache, trans[1].id) = {}
  BY <1>4, <1>5, FS_EmptySet
<1> TAKE b \in Block
<1>7. cache[b].func # trans[1].id
  BY <1>6 DEF FuncSet
<1>8. cache[b].func = 0
  BY <1>1, <1>2, <1>7 DEF CacheFollows
<1> QED BY <1>2, <1>8 DEF CacheFollows

\* afs_discard_flushed_journal_entries keeps the invariant.
LEMMA DiscardInv ==
  ASSUME Inv, nLoggStart = 1, afs_discard_flushed_journal_entries
  PROVE  Inv'
<1>1. mode = "mounted" /\ todo # <<>> /\ todo[1] = "discard" /\ ~At("count") /\ ~At("super")
  BY TodoIs DEF afs_discard_flushed_journal_entries, Discard, Inv, Step, Next1
<1>2. UNCHANGED <<disk, mode, nLoggStart, nOldBlockCount, newBlocks, hash, started, leave,
                  fileBlocks, nextId, replay, cache, nCalls, nCrash>>
  BY DEF afs_discard_flushed_journal_entries, Discard
<1>3. leave'.blk = leave.blk /\ started' = started
  BY <1>2
<1>4. CASE ~(trans # <<>> /\ Oldest.logged /\ Oldest.ondisk /\ Oldest.pending <= 0)
  <2>1. todo' = Tail(todo) /\ UNCHANGED <<trans, nPendingLog, sb, superblock>>
    BY <1>4 DEF afs_discard_flushed_journal_entries, Discard
  <2>2. HasOpen' <=> HasOpen
    BY <2>1 DEF HasOpen, Current
  <2>3. todo' \in Seq(StepNames) /\ CallShape' /\ StepsReady' /\ ~At("count")' /\ ~At("super")'
    BY <1>1, <1>3, <2>1, <2>2, Popped
  <2>4. TypeOK'
    BY <1>2, <2>1, <2>3, LeaveIs, TypeTodo DEF Inv
  <2> QED BY <1>1, <1>2, <2>1, <2>3, <2>4, OnlyTodo
<1>5. CASE trans # <<>> /\ Oldest.logged /\ Oldest.ondisk /\ Oldest.pending <= 0
  <2> PICK n : n = Len(trans)
    OBVIOUS
  <2>1. /\ trans' = Tail(trans) /\ nPendingLog' = nPendingLog - Oldest.count
        /\ sb' = [start |-> NextStart, valid |-> sb.valid - Oldest.count]
        /\ superblock' = sb' /\ todo' = <<"todisk">> \o Tail(todo)
    BY <1>5 DEF afs_discard_flushed_journal_entries, Discard
  <2>2. /\ trans \in Seq(Transaction) /\ n \in Nat \ {0} /\ 1 \in 1..n /\ n \in 1..n
        /\ Oldest = trans[1] /\ Current = trans[n] /\ Len(trans) = n
        /\ HasOpen <=> ~trans[n].logged
    BY <1>5, ListIs DEF Inv
  <2>3. /\ trans' \in Seq(Transaction) /\ Len(trans') = n - 1
        /\ \A i \in 1..n : LogSums(trans')[i] = LogSums(trans)[i + 1] - trans[1].count
    BY <1>5, <2>1, <2>2, SumsTail
  <2>4. \A i \in 1..(n - 1) : trans'[i] = trans[i + 1] /\ i + 1 \in 1..n /\ i + 1 \in 2..n
    BY <2>1, <2>2
  <2>5. /\ (trans' = <<>> <=> n = 1)
        /\ n > 1 => /\ Oldest' = trans[2] /\ Current' = trans[n] /\ trans' # <<>>
                    /\ trans'[1] = trans[2]
    <3>1. trans' = <<>> <=> n = 1
      BY <2>2, <2>3, EmptyIs
    <3>2. ASSUME n > 1
          PROVE  Oldest' = trans[2] /\ Current' = trans[n] /\ trans' # <<>> /\ trans'[1] = trans[2]
      <4>1. 1 \in 1..(n - 1) /\ n - 1 \in 1..(n - 1) /\ (n - 1) + 1 = n /\ 1 + 1 = 2
        BY <2>2, <3>2
      <4>2. trans' # <<>>
        BY <3>1, <3>2
      <4>3. Oldest' = trans'[1]
        BY <4>2 DEF Oldest
      <4>4. Current' = trans'[n - 1]
        BY <2>3, <4>2 DEF Current, Last
      <4>5. trans'[1] = trans[1 + 1] /\ trans'[n - 1] = trans[(n - 1) + 1]
        BY <2>4, <4>1
      <4> QED BY <4>1, <4>2, <4>3, <4>4, <4>5
    <3> QED BY <3>1, <3>2
  <2>6. (HasOpen' <=> HasOpen) /\ (HasOpen => n > 1)
    <3>1. CASE n = 1
      <4>1. ~HasOpen
        BY <1>5, <2>2, <3>1
      <4>2. ~HasOpen'
        BY <2>5, <3>1 DEF HasOpen
      <4> QED BY <4>1, <4>2
    <3>2. CASE n > 1
      BY <2>2, <2>5, <3>2 DEF HasOpen
    <3> QED BY <2>2, <3>1, <3>2
  <2>7. /\ todo' \in Seq(StepNames) /\ CallShape'
        /\ \A name : At(name)' <=> name = "todisk"
        /\ ~Ahead("create")' /\ ~Ahead("create")
    BY <1>1, <1>3, <2>1, Swapped
  <2>8. StepsReady'
    <3>1. started /\ ~Ahead("create") => HasOpen
      BY DEF Inv, StepsReady
    <3> QED BY <1>2, <2>6, <2>7, <3>1 DEF StepsReady
  <2>9. /\ nPendingLog \in Nat /\ nPendingLog = LogSums(trans)[n + 1] /\ nPendingLog <= LogSize
        /\ trans[1].count \in Nat
        /\ nPendingLog' = LogSums(trans')[(n - 1) + 1] /\ nPendingLog' \in Nat
        /\ nPendingLog' <= LogSize
    <3>1. /\ nPendingLog \in Nat /\ nPendingLog = LogSums(trans)[n + 1] /\ nPendingLog <= LogSize
      BY <2>2, NewIs DEF Inv, CountsAgree
    <3>2. trans[1].count \in Nat
      BY <2>2, TransIs DEF Inv
    <3>3. nPendingLog' = LogSums(trans')[n]
      BY <2>1, <2>2, <2>3, <3>1
    <3>4. (n - 1) + 1 = n /\ n \in 1..(Len(trans') + 1)
      BY <2>2, <2>3
    <3>5. nPendingLog' \in Nat
      BY <2>3, <3>3, <3>4, SumsStep
    <3> QED BY <2>1, <2>2, <3>1, <3>2, <3>3, <3>4, <3>5, SizesIs
  <2>10. CountsAgree'
    <3>1. \A i \in 1..Len(trans') : trans'[i].count = Len(LogImage(trans'[i].blocks))
      BY <2>2, <2>3, <2>4 DEF Inv, CountsAgree
    <3>2. nOldBlockCount' = IF HasOpen' THEN Current'.count ELSE 0
      <4>1. nOldBlockCount = IF HasOpen THEN Current.count ELSE 0
        BY DEF Inv, CountsAgree
      <4> QED BY <1>2, <2>2, <2>5, <2>6, <4>1
    <3> QED BY <2>3, <2>9, <3>1, <3>2 DEF CountsAgree
  <2>11. nLoggEnd' = nLoggEnd
    BY <1>2 DEF nLoggEnd
  <2>12. \A i \in 1..Len(trans') :
           /\ trans'[i].id \in 1..(nextId' - 1)
           /\ trans'[i].start \in nLoggStart'..nLoggEnd'
           /\ trans'[i].written <= Len(trans'[i].blocks)
           /\ trans'[i].written = 0 /\ ~trans'[i].ondisk
    <3> TAKE i \in 1..Len(trans')
    <3>1. i + 1 \in 1..Len(trans) /\ trans'[i] = trans[i + 1] /\ i + 1 # 1
      BY <2>2, <2>3, <2>4
    <3>2. trans[i + 1].written \in Nat
      BY <3>1, TransIs DEF Inv
    <3>3. /\ trans[i + 1].id \in 1..(nextId - 1)
          /\ trans[i + 1].start \in nLoggStart..nLoggEnd
          /\ trans[i + 1].written <= Len(trans[i + 1].blocks)
          /\ ~(trans[i + 1].written > 0 \/ trans[i + 1].ondisk)
      BY <3>1 DEF Inv, ListInOrder
    <3> QED BY <1>2, <2>11, <3>1, <3>2, <3>3
  <2>13. ListInOrder'
    <3>1. ASSUME NEW i \in 2..Len(trans')
          PROVE  /\ trans'[i - 1].logged
                 /\ trans'[i - 1].id < trans'[i].id
                 /\ trans'[i].start = LogPos(trans'[i - 1].start, nLoggStart', nLoggEnd', trans'[i - 1].count)
      <4>1. /\ i \in 1..(n - 1) /\ i - 1 \in 1..(n - 1) /\ (i - 1) + 1 = i /\ (i + 1) - 1 = i
            /\ i + 1 \in 2..Len(trans)
        BY <2>2, <2>3
      <4>2. trans'[i] = trans[i + 1] /\ trans'[i - 1] = trans[i]
        BY <2>4, <4>1
      <4>3. /\ trans[(i + 1) - 1].logged
            /\ trans[(i + 1) - 1].id < trans[i + 1].id
            /\ trans[i + 1].start = LogPos(trans[(i + 1) - 1].start, nLoggStart, nLoggEnd, trans[(i + 1) - 1].count)
        BY <4>1 DEF Inv, ListInOrder
      <4> QED BY <1>2, <2>11, <4>1, <4>2, <4>3
    <3> QED BY <2>12, <3>1 DEF ListInOrder
  <2>14. CacheFollows'
    <3>1. \A b \in Block : cache'[b].func = 0 /\ ~cache'[b].dirty
      BY <1>1, <1>2, <1>5, NothingDirty
    <3>2. Handed' = 0
      <4>1. CASE n = 1
        BY <2>5, <4>1 DEF Handed
      <4>2. CASE n > 1
        <5>1. Oldest' = trans'[1] /\ 1 \in 1..Len(trans') /\ trans' # <<>>
          BY <2>2, <2>3, <2>5, <4>2
        <5>2. Oldest'.written = 0
          BY <2>12, <5>1
        <5> QED BY <2>7, <5>1, <5>2 DEF Handed
      <4> QED BY <2>2, <4>1, <4>2
    <3>3. ASSUME NEW i \in 1..Len(trans')
          PROVE  trans'[i].pending + (IF i = 1 /\ At("count")' THEN 1 ELSE 0)
                   = Cardinality(FuncSet(cache', trans'[i].id))
      <4>1. i + 1 \in 1..Len(trans) /\ trans'[i] = trans[i + 1] /\ i + 1 # 1
        BY <2>2, <2>3, <2>4
      <4>2. trans[i + 1].pending + (IF i + 1 = 1 /\ At("count") THEN 1 ELSE 0)
              = Cardinality(FuncSet(cache, trans[i + 1].id))
        BY <4>1, FollowsIs DEF Inv
      <4>3. cache' = cache
        BY <1>2
      <4> QED BY <1>1, <2>7, <4>1, <4>2, <4>3
    <3>4. (\A p \in 1..Handed :
             CachedRead(BufferOrder(Oldest.blocks)[p].blk) = BufferOrder(Oldest.blocks)[p].val)'
      BY <3>2
    <3> QED BY <3>1, <3>3, <3>4 DEF CacheFollows, FuncSet
  <2>15. OneCopyPerBlock'
    <3> SUFFICES ASSUME NEW i \in 1..Len(trans')
                 PROVE  \A j, k \in 1..Len(trans'[i].blocks) :
                          trans'[i].blocks[j].blk = trans'[i].blocks[k].blk => j = k
      BY DEF OneCopyPerBlock
    <3>1. i + 1 \in 1..Len(trans) /\ trans'[i] = trans[i + 1]
      BY <2>2, <2>3, <2>4
    <3> QED BY <3>1 DEF Inv, OneCopyPerBlock
  <2>16. HashFollows'
    <3>1. \A b : \A i \in 1..(n - 1) : Holds(i, b)' <=> Holds(i + 1, b)
      BY <2>4 DEF Holds
    <3>2. \A b : \A i \in 1..(n - 1) : Newest(i, b)' <=> Newest(i + 1, b)
      <4> TAKE b
      <4> TAKE i \in 1..(n - 1)
      <4>1. Newest(i, b)' => Newest(i + 1, b)
        <5> SUFFICES ASSUME Newest(i, b)', NEW k \in ((i + 1) + 1)..Len(trans) PROVE ~Holds(k, b)
          BY DEF Newest
        <5>1. k - 1 \in (i + 1)..Len(trans') /\ k - 1 \in 1..(n - 1) /\ (k - 1) + 1 = k
          BY <2>2, <2>3
        <5>2. ~Holds(k - 1, b)'
          BY <5>1 DEF Newest
        <5> QED BY <3>1, <5>1, <5>2
      <4>2. Newest(i + 1, b) => Newest(i, b)'
        <5> SUFFICES ASSUME Newest(i + 1, b), NEW k \in (i + 1)..Len(trans') PROVE ~Holds(k, b)'
          BY DEF Newest
        <5>1. k + 1 \in ((i + 1) + 1)..Len(trans) /\ k \in 1..(n - 1)
          BY <2>2, <2>3
        <5>2. ~Holds(k + 1, b)
          BY <5>1 DEF Newest
        <5> QED BY <3>1, <5>1, <5>2
      <4> QED BY <4>1, <4>2
    <3>3. ASSUME NEW b \in Block, NEW i \in 1..Len(trans')
          PROVE  /\ hash'[b].buffer[1] = trans'[i].id =>
                      /\ hash'[b].buffer[2] \in 1..Len(trans'[i].blocks)
                      /\ trans'[i].blocks[hash'[b].buffer[2]].blk = b
                      /\ Newest(i, b)'
                 /\ Holds(i, b)' /\ Newest(i, b)' /\ ~trans'[i].ondisk =>
                      hash'[b].trans = trans'[i].id /\ hash'[b].buffer[1] = trans'[i].id
      <4>1. i \in 1..(n - 1) /\ i + 1 \in 1..Len(trans) /\ trans'[i] = trans[i + 1] /\ hash' = hash
        BY <1>2, <2>2, <2>3, <2>4
      <4>2. PlaceOK(b, hash[b], i + 1)
        BY <4>1, HashIs DEF Inv
      <4> QED BY <3>1, <3>2, <4>1, <4>2 DEF PlaceOK
    <3>4. /\ \A i, j \in 1..Len(newBlocks') : newBlocks'[i] = newBlocks'[j] => i = j
          /\ \A b \in Block : EntryOK(b, hash'[b], IsIn(b, newBlocks'), nextId')
      BY <1>2, HashIs DEF Inv
    <3> QED BY <3>3, <3>4 DEF HashFollows, EntryOK, IsIn
  <2>17. LogInPlace /\ InMemoryState
    BY <1>1 DEF Inv, InMemoryState
  <2>18. NextStart = (IF trans' = <<>> THEN nLoggStart ELSE trans[2].start) /\ NextStart \in Nat
    <3>1. n > 1 => 2 \in 1..Len(trans)
      BY <2>2
    <3> QED BY <2>2, <2>5, <3>1, TransIs DEF NextStart, Inv
  <2>19. /\ sb.valid - trans[1].count = LogSums(trans')[Len(trans') + (IF HasOpen' THEN 0 ELSE 1)]
         /\ sb.valid - trans[1].count \in Nat
    <3> PICK m : m = IF HasOpen THEN n - 1 ELSE n
      OBVIOUS
    <3>1. /\ m \in 1..n /\ m + 1 = n + (IF HasOpen THEN 0 ELSE 1)
          /\ m = Len(trans') + (IF HasOpen' THEN 0 ELSE 1) /\ m \in 1..(Len(trans') + 1)
      <4>1. CASE HasOpen
        BY <2>2, <2>3, <2>6, <4>1
      <4>2. CASE ~HasOpen
        BY <2>2, <2>3, <2>6, <4>2
      <4> QED BY <4>1, <4>2
    <3>2. sb.valid = LogSums(trans)[m + 1]
      BY <2>2, <2>17, <3>1 DEF LogInPlace
    <3>3. LogSums(trans')[m] = LogSums(trans)[m + 1] - trans[1].count
      BY <2>3, <3>1
    <3>4. LogSums(trans')[m] \in Nat
      BY <2>3, <3>1, SumsStep
    <3> QED BY <3>1, <3>2, <3>3, <3>4
  <2>20. /\ sb' \in [start : Nat, valid : Nat]
         /\ sb'.start = NextStart /\ sb'.valid = sb.valid - trans[1].count
    BY <2>1, <2>2, <2>18, <2>19
  <2>21. TypeOK'
    <3>1. /\ sb' \in [start : Nat, valid : Nat] /\ superblock' \in [start : Nat, valid : Nat]
          /\ trans' \in Seq(Transaction) /\ nPendingLog' \in Nat /\ todo' \in Seq(StepNames)
      BY <2>1, <2>3, <2>7, <2>9, <2>20
    <3> QED BY <1>2, <3>1 DEF Inv, TypeOK
  <2>22. LogInPlace'
    <3>1. ASSUME NEW i \in 1..Len(trans'), trans'[i].logged PROVE InLog(trans[i])'
      <4>1. i + 1 \in 1..Len(trans) /\ trans'[i] = trans[i + 1]
        BY <2>2, <2>3, <2>4
      <4>2. InLog(trans[i + 1])
        BY <2>17, <3>1, <4>1 DEF LogInPlace
      <4> QED BY <1>2, <2>11, <4>1, <4>2 DEF InLog
    <3>2. superblock'.start = IF trans' = <<>> THEN nLoggStart' ELSE Oldest'.start
      <4>1. trans' # <<>> => Oldest' = trans[2]
        BY <2>2, <2>5
      <4> QED BY <1>2, <2>1, <2>18, <2>20, <4>1
    <3>3. superblock'.valid = LogSums(trans')[Len(trans') + (IF HasOpen' THEN 0 ELSE 1)]
      BY <2>1, <2>19, <2>20
    <3>4. ~At("super")' /\ superblock' = sb'
      BY <2>1, <2>7
    <3> QED BY <3>1, <3>2, <3>3, <3>4 DEF LogInPlace
  <2>23. NothingInMemory'
    BY <1>1, <1>2 DEF NothingInMemory, InMemoryState
  <2> QED BY <2>7, <2>8, <2>10, <2>13, <2>14, <2>15, <2>16, <2>21, <2>22, <2>23 DEF Inv
<1> QED BY <1>4, <1>5
-----------------------------------------------------------------------------
(* Merging the blocks of an operation into the current transaction.        *)

\* r holds the first i new blocks that get a place, each once.
FreshUpTo(r, i) ==
    /\ r \in Seq(Block)
    /\ Len(r) <= i
    /\ \A k \in 1..Len(r) : IsNew(r[k]) /\ \E j \in 1..i : newBlocks[j] = r[k]
    /\ \A j \in 1..i : IsNew(newBlocks[j]) => \E k \in 1..Len(r) : r[k] = newBlocks[j]
    /\ \A k, l \in 1..Len(r) : r[k] = r[l] => k = l

FreshStep(f, m) ==
    /\ f = [i \in 0..m |-> f[i]]
    /\ f[0] = <<>>
    /\ \A i \in 1..m : f[i] = IF IsNew(newBlocks[i]) THEN Append(f[i - 1], newBlocks[i]) ELSE f[i - 1]

\* The recursion that collects the blocks to be added has a solution.
LEMMA FreshExist ==
  ASSUME NEW m \in Nat
  PROVE  \E f : FreshStep(f, m)
<1> DEFINE P == {n \in Nat : \E f : FreshStep(f, n)}
<1>1. 0 \in P
  <2>1. FreshStep([i \in 0..0 |-> <<>>], 0)
    BY DEF FreshStep
  <2> QED BY <2>1
<1>2. \A n \in 0..(m - 1) : n \in P => n + 1 \in P
  <2> SUFFICES ASSUME NEW n \in 0..(m - 1), NEW f, FreshStep(f, n)
               PROVE  \E g : FreshStep(g, n + 1)
    OBVIOUS
  <2> DEFINE x == IF IsNew(newBlocks[n + 1]) THEN Append(f[n], newBlocks[n + 1]) ELSE f[n]
             g == [i \in 0..(n + 1) |-> IF i = n + 1 THEN x ELSE f[i]]
  <2>1. g = [i \in 0..(n + 1) |-> g[i]] /\ g[0] = <<>>
    BY DEF FreshStep
  <2>2. ASSUME NEW i \in 1..(n + 1)
        PROVE  g[i] = IF IsNew(newBlocks[i]) THEN Append(g[i - 1], newBlocks[i]) ELSE g[i - 1]
    <3>1. CASE i = n + 1
      <4>1. g[i] = x /\ g[i - 1] = f[n]
        BY <3>1
      <4> HIDE DEF g
      <4> QED BY <3>1, <4>1
    <3>2. CASE i \in 1..n
      <4>1. g[i] = f[i] /\ g[i - 1] = f[i - 1]
        BY <3>2
      <4> HIDE DEF g
      <4> QED BY <3>2, <4>1 DEF FreshStep
    <3> QED BY <3>1, <3>2
  <2>3. FreshStep(g, n + 1)
    <3> HIDE DEF g
    <3> QED BY <2>1, <2>2 DEF FreshStep
  <2> QED BY <2>3
<1>3. m \in P
  <2> HIDE DEF P
  <2>1. m \in 0..m
    OBVIOUS
  <2> QED BY <1>1, <1>2, <2>1, UpTo
<1> QED BY <1>3

\* What one more new block adds to it.
LEMMA FreshNext ==
  ASSUME NEW i \in Nat, NEW r, FreshUpTo(r, i), newBlocks[i + 1] \in Block,
         \A j, k \in 1..(i + 1) : newBlocks[j] = newBlocks[k] => j = k
  PROVE  /\ IsNew(newBlocks[i + 1]) => FreshUpTo(Append(r, newBlocks[i + 1]), i + 1)
         /\ ~IsNew(newBlocks[i + 1]) => FreshUpTo(r, i + 1)
<1> PICK x : x = newBlocks[i + 1]
  OBVIOUS
<1>0. r \in Seq(Block) /\ Len(r) \in Nat /\ Len(r) <= i
  BY DEF FreshUpTo
<1>1. \A j \in 1..(i + 1) : j = i + 1 \/ j \in 1..i
  OBVIOUS
<1>2. \A j \in 1..i : j \in 1..(i + 1) /\ j # i + 1
  OBVIOUS
<1>3. ASSUME IsNew(x) PROVE FreshUpTo(Append(r, x), i + 1)
  <2> PICK s : s = Append(r, x)
    OBVIOUS
  <2>1. /\ s \in Seq(Block) /\ Len(s) = Len(r) + 1 /\ s[Len(r) + 1] = x
        /\ \A k \in 1..Len(r) : s[k] = r[k]
    BY <1>0
  <2>2. \A k \in 1..Len(s) : k = Len(r) + 1 \/ k \in 1..Len(r)
    BY <1>0, <2>1
  <2>3. Len(s) <= i + 1 /\ Len(r) + 1 \in 1..Len(s) /\ \A k \in 1..Len(r) : k \in 1..Len(s)
    BY <1>0, <2>1
  <2>4. \A k \in 1..Len(r) : IsNew(r[k]) /\ \E j \in 1..i : newBlocks[j] = r[k]
    BY DEF FreshUpTo
  <2>5. \A k \in 1..Len(s) : IsNew(s[k]) /\ \E j \in 1..(i + 1) : newBlocks[j] = s[k]
    <3> TAKE k \in 1..Len(s)
    <3>1. CASE k = Len(r) + 1
      <4>1. i + 1 \in 1..(i + 1)
        OBVIOUS
      <4> QED BY <1>3, <2>1, <3>1, <4>1
    <3>2. CASE k \in 1..Len(r)
      BY <1>2, <2>1, <2>4, <3>2
    <3> QED BY <2>2, <3>1, <3>2
  <2>6. \A j \in 1..(i + 1) : IsNew(newBlocks[j]) => \E k \in 1..Len(s) : s[k] = newBlocks[j]
    <3> TAKE j \in 1..(i + 1)
    <3> HAVE IsNew(newBlocks[j])
    <3>1. CASE j = i + 1
      BY <2>1, <2>3, <3>1
    <3>2. CASE j \in 1..i
      <4>1. PICK k \in 1..Len(r) : r[k] = newBlocks[j]
        BY <3>2 DEF FreshUpTo
      <4> QED BY <2>1, <2>3, <4>1
    <3> QED BY <1>1, <3>1, <3>2
  <2>7. \A k \in 1..Len(r) : r[k] # x
    <3> TAKE k \in 1..Len(r)
    <3>1. PICK j \in 1..i : newBlocks[j] = r[k]
      BY <2>4
    <3>2. i + 1 \in 1..(i + 1)
      OBVIOUS
    <3> QED BY <1>2, <3>1, <3>2
  <2>8. \A k, l \in 1..Len(r) : r[k] = r[l] => k = l
    BY DEF FreshUpTo
  <2>9. \A k, l \in 1..Len(s) : s[k] = s[l] => k = l
    BY <2>1, <2>2, <2>7, <2>8
  <2> QED BY <2>1, <2>3, <2>5, <2>6, <2>9, SMTT(30) DEF FreshUpTo
<1>4. ASSUME ~IsNew(x) PROVE FreshUpTo(r, i + 1)
  <2>1. \A k \in 1..Len(r) : IsNew(r[k]) /\ \E j \in 1..(i + 1) : newBlocks[j] = r[k]
    BY <1>2 DEF FreshUpTo
  <2>2. \A j \in 1..(i + 1) : IsNew(newBlocks[j]) => \E k \in 1..Len(r) : r[k] = newBlocks[j]
    BY <1>1, <1>4 DEF FreshUpTo
  <2>3. Len(r) <= i + 1
    BY <1>0
  <2> QED BY <1>0, <2>1, <2>2, <2>3 DEF FreshUpTo
<1> QED BY <1>3, <1>4

\* What Fresh computes.
LEMMA FreshIs ==
  ASSUME Inv
  PROVE  FreshUpTo(Fresh, Len(newBlocks))
<1> PICK m : m = Len(newBlocks)
  OBVIOUS
<1>0. m \in Nat /\ \A i \in 1..m : newBlocks[i] \in Block
  BY NewIs DEF Inv
<1>1. PICK f : FreshStep(f, m)
  BY <1>0, FreshExist
<1> DEFINE D(h) == [i \in 0..Len(newBlocks) |->
                      IF i = 0 THEN <<>>
                      ELSE IF IsNew(newBlocks[i]) THEN Append(h[i - 1], newBlocks[i])
                      ELSE h[i - 1]]
           g == CHOOSE h : h = D(h)
<1>2. f = D(f)
  <2>1. \A i \in 0..m : f[i] = D(f)[i]
    <3> TAKE i \in 0..m
    <3>1. i = 0 \/ (i # 0 /\ i \in 1..m)
      BY <1>0
    <3>2. i \in 0..Len(newBlocks)
      OBVIOUS
    <3> QED BY <1>1, <3>1, <3>2 DEF FreshStep
  <2>2. f = [i \in 0..Len(newBlocks) |-> f[i]]
    BY <1>1 DEF FreshStep
  <2>3. [i \in 0..Len(newBlocks) |-> f[i]] = D(f)
    BY <2>1
  <2> QED BY <2>2, <2>3
<1>3. g = D(g)
  <2> HIDE DEF D
  <2> QED BY <1>2
<1>4. Fresh = g[Len(newBlocks)]
  BY DEF Fresh
<1>5. g[0] = <<>>
  <2> HIDE DEF g
  <2> QED BY <1>0, <1>3
<1>6. \A i \in 1..m : g[i] = IF IsNew(newBlocks[i]) THEN Append(g[i - 1], newBlocks[i]) ELSE g[i - 1]
  <2> HIDE DEF g
  <2> TAKE i \in 1..m
  <2>1. i # 0 /\ i \in 0..Len(newBlocks)
    BY <1>0
  <2>2. D(g)[i] = IF IsNew(newBlocks[i]) THEN Append(g[i - 1], newBlocks[i]) ELSE g[i - 1]
    BY <2>1
  <2> HIDE DEF D
  <2> QED BY <1>3, <2>2
<1> HIDE DEF g, D
<1> DEFINE P == {i \in Nat : FreshUpTo(g[i], i)}
<1>7. 0 \in P
  <2>1. <<>> \in Seq(Block) /\ Len(<<>>) = 0
    OBVIOUS
  <2>2. FreshUpTo(<<>>, 0)
    BY <2>1 DEF FreshUpTo
  <2> QED BY <1>5, <2>2
<1>8. \A i \in 0..(m - 1) : i \in P => i + 1 \in P
  <2> SUFFICES ASSUME NEW i \in 0..(m - 1), FreshUpTo(g[i], i)
               PROVE  FreshUpTo(g[i + 1], i + 1)
    BY <1>0
  <2>1. i \in Nat /\ i + 1 \in 1..m /\ (i + 1) - 1 = i /\ \A j \in 1..(i + 1) : j \in 1..m
    BY <1>0
  <2>2. \A j, k \in 1..(i + 1) : newBlocks[j] = newBlocks[k] => j = k
    BY <2>1 DEF Inv, HashFollows
  <2>3. newBlocks[i + 1] \in Block
    BY <1>0, <2>1
  <2>4. g[i + 1] = IF IsNew(newBlocks[i + 1]) THEN Append(g[i], newBlocks[i + 1]) ELSE g[i]
    BY <1>6, <2>1
  <2>5. /\ IsNew(newBlocks[i + 1]) => FreshUpTo(Append(g[i], newBlocks[i + 1]), i + 1)
        /\ ~IsNew(newBlocks[i + 1]) => FreshUpTo(g[i], i + 1)
    BY <2>1, <2>2, <2>3, FreshNext
  <2>6. CASE IsNew(newBlocks[i + 1])
    BY <2>4, <2>5, <2>6
  <2>7. CASE ~IsNew(newBlocks[i + 1])
    BY <2>4, <2>5, <2>7
  <2> QED BY <2>6, <2>7
<1>9. m \in P
  <2> HIDE DEF P
  <2>1. m \in 0..m
    BY <1>0
  <2> QED BY <1>0, <1>7, <1>8, <2>1, UpTo
<1> QED BY <1>4, <1>9

\* The range of the list of new blocks are the blocks in it.
LEMMA RangeIs ==
  ASSUME TypeOK
  PROVE  \A b : b \in Range(newBlocks) <=> IsIn(b, newBlocks)
<1>1. newBlocks \in Seq(Block) /\ DOMAIN newBlocks = 1..Len(newBlocks)
  BY NewIs
<1> QED BY <1>1 DEF Range, IsIn

\* What joining two lists gives.
Join(m, a) == m \o a

\* A sequence of copies followed by another.
LEMMA Joined ==
  ASSUME NEW m \in Copies, NEW a \in Copies
  PROVE  /\ Join(m, a) \in Copies /\ Len(Join(m, a)) = Len(m) + Len(a)
         /\ \A i \in 1..Len(m) : Join(m, a)[i] = m[i]
         /\ \A i \in 1..Len(a) : Join(m, a)[Len(m) + i] = a[i]
<1>1. Len(m) \in Nat /\ Len(a) \in Nat
  BY DEF Copies
<1>2. Join(m, a) \in Copies
  BY DEF Join, Copies
<1>3. Len(Join(m, a)) = Len(m) + Len(a)
  BY DEF Join, Copies
<1>4. ASSUME NEW i \in 1..Len(m) PROVE Join(m, a)[i] = m[i]
  BY <1>1 DEF Join, Copies
<1>5. ASSUME NEW i \in 1..Len(a) PROVE Join(m, a)[Len(m) + i] = a[i]
  BY <1>1 DEF Join, Copies
<1> QED BY <1>2, <1>3, <1>4, <1>5

\* ... and the block numbers of the two.
LEMMA JoinedBlocks ==
  ASSUME NEW bs \in Copies, NEW fr \in Seq(Block), NEW m \in Copies, NEW a \in Copies,
         Len(m) = Len(bs), Len(a) = Len(fr),
         \A i \in 1..Len(bs) : m[i].blk = bs[i].blk, \A i \in 1..Len(fr) : a[i].blk = fr[i]
  PROVE  /\ Join(m, a) \in Copies /\ Len(Join(m, a)) = Len(bs) + Len(fr)
         /\ \A i \in 1..Len(bs) : Join(m, a)[i].blk = bs[i].blk
         /\ \A i \in 1..Len(fr) : Join(m, a)[Len(bs) + i].blk = fr[i]
<1>1. Join(m, a) \in Copies /\ Len(Join(m, a)) = Len(m) + Len(a)
  BY Joined
<1>2. \A i \in 1..Len(m) : Join(m, a)[i] = m[i]
  BY Joined
<1>3. \A i \in 1..Len(a) : Join(m, a)[Len(m) + i] = a[i]
  BY Joined
<1>4. \A i \in 1..Len(bs) : Join(m, a)[i].blk = bs[i].blk
  BY <1>2
<1>5. \A i \in 1..Len(fr) : Join(m, a)[Len(bs) + i].blk = fr[i]
  BY <1>3
<1> QED BY <1>1, <1>4, <1>5

\* A list of blocks with their new contents is a sequence of copies.
LEMMA MakeCopies ==
  ASSUME NEW fr \in Seq(Block), NEW v, \A b \in Block : v[b].new \in Nat
  PROVE  /\ [i \in 1..Len(fr) |-> [blk |-> fr[i], val |-> v[fr[i]].new]] \in Copies
         /\ Len([i \in 1..Len(fr) |-> [blk |-> fr[i], val |-> v[fr[i]].new]]) = Len(fr)
<1>1. Len(fr) \in Nat /\ \A i \in 1..Len(fr) : fr[i] \in Block
  OBVIOUS
<1>2. [i \in 1..Len(fr) |-> [blk |-> fr[i], val |-> v[fr[i]].new]]
        \in [1..Len(fr) -> [blk : Block, val : Nat]]
  BY <1>1
<1> QED BY <1>1, <1>2 DEF Copies

\* The blocks of the current transaction after a merge.
LEMMA MergedIs ==
  ASSUME Inv, trans # <<>>
  PROVE  /\ Merged \o Added \in Copies
         /\ Len(Merged \o Added) = Len(Current.blocks) + Len(Fresh)
         /\ Len(Current.blocks) \in Nat /\ Len(Fresh) \in Nat
         /\ \A i \in 1..Len(Current.blocks) : (Merged \o Added)[i].blk = Current.blocks[i].blk
         /\ \A i \in 1..Len(Fresh) : (Merged \o Added)[Len(Current.blocks) + i].blk = Fresh[i]
         /\ \A i \in 1..Len(Current.blocks) : (Merged \o Added)[i].val = Merged[i].val
         /\ \A i \in 1..Len(Fresh) : (Merged \o Added)[Len(Current.blocks) + i].val = hash[Fresh[i]].new
<1>1. Current.blocks \in Copies /\ Len(Current.blocks) \in Nat
  <2>1. Len(trans) \in 1..Len(trans) /\ Current = trans[Len(trans)]
    BY ListIs DEF Inv
  <2> QED BY <2>1, TransIs DEF Inv
<1>2. Fresh \in Seq(Block) /\ Len(Fresh) \in Nat
  BY FreshIs DEF FreshUpTo
<1>3. \A b \in Block : hash[b].new \in Nat
  BY EntryIs DEF Inv
<1>4. \A b \in Range(newBlocks) : b \in Block
  BY RangeIs, NewIs DEF Inv, IsIn
<1>5. ASSUME NEW i \in 1..Len(Current.blocks)
      PROVE  Merged[i] \in [blk : Block, val : Nat] /\ Merged[i].blk = Current.blocks[i].blk
  <2> DEFINE again == {b \in Range(newBlocks) : ~IsNew(b) /\ hash[b].buffer[2] = i}
             c == CHOOSE b \in again : TRUE
  <2>1. Merged[i] = IF again = {} THEN Current.blocks[i]
                    ELSE [Current.blocks[i] EXCEPT !.val = hash[c].new]
    BY DEF Merged
  <2>2. again # {} => c \in again
    OBVIOUS
  <2>3. \A b \in again : b \in Block
    BY <1>4
  <2> HIDE DEF again, c
  <2>4. Current.blocks[i] \in [blk : Block, val : Nat]
    BY <1>1, CopyIn
  <2>5. CASE again = {}
    BY <2>1, <2>4, <2>5
  <2>6. CASE again # {}
    <3>1. hash[c].new \in Nat
      BY <1>3, <2>2, <2>3, <2>6
    <3>2. Merged[i] = [blk |-> Current.blocks[i].blk, val |-> hash[c].new]
      BY <2>1, <2>4, <2>6
    <3> QED BY <2>4, <3>1, <3>2
  <2> QED BY <2>5, <2>6
<1>6. Merged \in Copies /\ Len(Merged) = Len(Current.blocks)
  <2>1. Merged = [i \in 1..Len(Current.blocks) |-> Merged[i]]
    BY DEF Merged
  <2>2. Merged \in [1..Len(Current.blocks) -> [blk : Block, val : Nat]]
    BY <1>5, <2>1
  <2> QED BY <1>1, <2>2 DEF Copies
<1>7. Added = [i \in 1..Len(Fresh) |-> [blk |-> Fresh[i], val |-> hash[Fresh[i]].new]]
  BY DEF Added
<1>8. Added \in Copies /\ Len(Added) = Len(Fresh)
  BY <1>2, <1>3, <1>7, MakeCopies
<1>9. \A i \in 1..Len(Fresh) : Added[i].blk = Fresh[i]
  BY <1>7
<1>10. \A i \in 1..Len(Current.blocks) : Merged[i].blk = Current.blocks[i].blk
  BY <1>5
<1>11. /\ Join(Merged, Added) \in Copies
       /\ Len(Join(Merged, Added)) = Len(Current.blocks) + Len(Fresh)
       /\ \A i \in 1..Len(Current.blocks) : Join(Merged, Added)[i].blk = Current.blocks[i].blk
       /\ \A i \in 1..Len(Fresh) : Join(Merged, Added)[Len(Current.blocks) + i].blk = Fresh[i]
  BY <1>1, <1>2, <1>6, <1>8, <1>9, <1>10, JoinedBlocks
<1>12. /\ \A i \in 1..Len(Current.blocks) : Join(Merged, Added)[i].val = Merged[i].val
       /\ \A i \in 1..Len(Fresh) : Join(Merged, Added)[Len(Current.blocks) + i].val = hash[Fresh[i]].new
  <2>1. \A i \in 1..Len(Fresh) : Added[i].val = hash[Fresh[i]].new
    BY <1>7
  <2>2. Len(Merged) = Len(Current.blocks) /\ Len(Added) = Len(Fresh)
    BY <1>6, <1>8
  <2>3. /\ \A i \in 1..Len(Merged) : Join(Merged, Added)[i] = Merged[i]
        /\ \A i \in 1..Len(Added) : Join(Merged, Added)[Len(Merged) + i] = Added[i]
    BY <1>6, <1>8, Joined
  <2> QED BY <2>1, <2>2, <2>3
<1>13. Join(Merged, Added) = Merged \o Added
  BY DEF Join
<1> QED BY <1>1, <1>2, <1>11, <1>12, <1>13, Zenon

\* A block gets a place exactly when the current transaction does not hold it.
LEMMA IsNewIs ==
  ASSUME Inv, HasOpen, NEW b \in Block
  PROVE  /\ IsNew(b) <=> ~Holds(Len(trans), b)
         /\ ~IsNew(b) => hash[b].trans = Current.id /\ hash[b].buffer # NoBuffer
<1> PICK n : n = Len(trans)
  OBVIOUS
<1>1. n \in Nat /\ n \in 1..Len(trans) /\ Current = trans[n] /\ ~trans[n].logged
  BY ListIs DEF Inv, HasOpen
<1>2. trans[n].id \in 1..(nextId - 1) /\ nextId \in Nat /\ ~trans[n].ondisk
  BY <1>1, LeaveIs DEF Inv, ListInOrder
<1>3. EntryOK(b, hash[b], IsIn(b, newBlocks), nextId) /\ PlaceOK(b, hash[b], n)
  BY <1>1, HashIs DEF Inv
<1>4. Newest(n, b)
  BY <1>1 DEF Newest
<1>5. ASSUME Holds(n, b) PROVE ~IsNew(b)
  <2>1. hash[b].trans = trans[n].id /\ hash[b].buffer[1] = trans[n].id
    BY <1>2, <1>3, <1>4, <1>5 DEF PlaceOK
  <2>2. hash[b].buffer # NoBuffer
    BY <1>2, <2>1, NoEntryIs
  <2> QED BY <1>1, <2>1, <2>2 DEF IsNew
<1>6. ASSUME ~IsNew(b) PROVE Holds(n, b) /\ hash[b].trans = Current.id /\ hash[b].buffer # NoBuffer
  <2>1. hash[b].trans = trans[n].id /\ hash[b].buffer # NoBuffer
    BY <1>1, <1>6 DEF IsNew
  <2>2. hash[b].trans # 0
    BY <1>2, <2>1
  <2>3. hash[b].buffer[1] = trans[n].id
    BY <1>3, <2>1, <2>2 DEF EntryOK
  <2>4. /\ hash[b].buffer[2] \in 1..Len(trans[n].blocks)
        /\ trans[n].blocks[hash[b].buffer[2]].blk = b
    BY <1>3, <2>3 DEF PlaceOK
  <2> QED BY <1>1, <2>1, <2>4 DEF Holds
<1> QED BY <1>5, <1>6

\* Which entries a merge writes.
LEMMA MergedEntryIs ==
  ASSUME Inv, HasOpen, NEW b \in Block
  PROVE  /\ MergedEntry(b) \in Entry
         /\ EntryOK(b, MergedEntry(b), FALSE, nextId)
         /\ ~(IsIn(b, newBlocks) /\ IsNew(b)) =>
              MergedEntry(b).buffer = hash[b].buffer /\ MergedEntry(b).trans = hash[b].trans
         /\ IsIn(b, newBlocks) /\ IsNew(b) =>
              /\ MergedEntry(b).trans = Current.id /\ MergedEntry(b).buffer[1] = Current.id
              /\ \E k \in 1..Len(Fresh) : Fresh[k] = b
                   /\ MergedEntry(b).buffer[2] = Len(Current.blocks) + k
<1> PICK e : e = hash[b]
  OBVIOUS
<1>1. /\ e \in Entry /\ e.present \in BOOLEAN /\ e.trans \in Nat /\ e.new \in Nat
      /\ e.buffer \in Nat \X Nat
  BY EntryIs DEF Inv
<1>2. EntryOK(b, e, IsIn(b, newBlocks), nextId)
  BY HashIs DEF Inv
<1>3. b \in Range(newBlocks) <=> IsIn(b, newBlocks)
  BY RangeIs DEF Inv
<1>4. /\ Current.id \in 1..(nextId - 1) /\ nextId \in Nat /\ trans # <<>> /\ Current.id \in Nat
      /\ Current.id # 0 /\ Current.id < nextId
  <2>1. Len(trans) \in 1..Len(trans) /\ Current = trans[Len(trans)] /\ trans # <<>>
    BY ListIs DEF Inv, HasOpen
  <2>2. Current.id \in 1..(nextId - 1) /\ nextId \in Nat
    BY <2>1, LeaveIs DEF Inv, ListInOrder
  <2> QED BY <2>1, <2>2
<1>5. CASE ~IsIn(b, newBlocks)
  <2>1. MergedEntry(b) = e
    BY <1>3, <1>5 DEF MergedEntry
  <2> QED BY <1>1, <1>2, <1>5, <2>1 DEF EntryOK
<1>6. CASE IsIn(b, newBlocks) /\ ~IsNew(b)
  <2>1. MergedEntry(b) = [e EXCEPT !.new = 0]
    BY <1>3, <1>6 DEF MergedEntry
  <2>2. MergedEntry(b) = [present |-> e.present, trans |-> e.trans, buffer |-> e.buffer, new |-> 0]
    BY <1>1, <2>1 DEF Entry
  <2>3. MergedEntry(b) \in Entry
    <3>1. [present |-> e.present, trans |-> e.trans, buffer |-> e.buffer, new |-> 0] \in Entry
      BY <1>1, MakeEntry
    <3> QED BY <2>2, <3>1
  <2>4. /\ MergedEntry(b).present = e.present /\ MergedEntry(b).trans = e.trans
        /\ MergedEntry(b).buffer = e.buffer /\ MergedEntry(b).new = 0
    BY <2>2
  <2>5. e.buffer # NoBuffer
    BY <1>6, IsNewIs
  <2>6. e.present
    <3>1. ~e.present => e = NoEntry
      BY <1>2 DEF EntryOK
    <3> QED BY <1>1, <2>5, <3>1, NoEntryIs
  <2>7. EntryOK(b, MergedEntry(b), FALSE, nextId)
    BY <1>2, <2>4, <2>5, <2>6 DEF EntryOK
  <2> QED BY <1>6, <2>3, <2>4, <2>7
<1>7. CASE IsIn(b, newBlocks) /\ IsNew(b)
  <2> DEFINE k == CHOOSE i \in 1..Len(Fresh) : Fresh[i] = b
  <2>1. MergedEntry(b) = [present |-> TRUE, trans |-> Current.id, new |-> 0,
                          buffer |-> <<Current.id, Len(Current.blocks) + k>>]
    BY <1>3, <1>7 DEF MergedEntry
  <2>2. \E i \in 1..Len(Fresh) : Fresh[i] = b
    <3>1. PICK j \in 1..Len(newBlocks) : newBlocks[j] = b
      BY <1>7 DEF IsIn
    <3> QED BY <1>7, <3>1, FreshIs DEF FreshUpTo
  <2>3. k \in 1..Len(Fresh) /\ Fresh[k] = b
    BY <2>2
  <2> HIDE DEF k
  <2>4. Len(Current.blocks) + k \in Nat
    BY <1>4, <2>3, MergedIs
  <2>5. /\ MergedEntry(b).present = TRUE /\ MergedEntry(b).trans = Current.id
        /\ MergedEntry(b).new = 0
        /\ MergedEntry(b).buffer = <<Current.id, Len(Current.blocks) + k>>
        /\ MergedEntry(b).buffer[1] = Current.id
        /\ MergedEntry(b).buffer[2] = Len(Current.blocks) + k
    BY <2>1
  <2>6. MergedEntry(b) \in Entry
    <3>1. <<Current.id, Len(Current.blocks) + k>> \in Nat \X Nat
      BY <1>4, <2>4
    <3>2. [present |-> TRUE, trans |-> Current.id, buffer |-> <<Current.id, Len(Current.blocks) + k>>,
           new |-> 0] \in Entry
      BY <1>4, <3>1, MakeEntry
    <3> QED BY <2>1, <3>2
  <2>7. MergedEntry(b).buffer # NoBuffer
    BY <1>4, <2>5, NoEntryIs
  <2>8. EntryOK(b, MergedEntry(b), FALSE, nextId)
    BY <1>4, <2>5, <2>7 DEF EntryOK
  <2> QED BY <1>7, <2>3, <2>5, <2>6, <2>8
<1> QED BY <1>5, <1>6, <1>7

\* What a merge does to the list of transactions.
LEMMA MergeIs ==
  ASSUME Inv, afs_merge_transactions, NEW n, n = Len(trans)
  PROVE  /\ mode = "mounted" /\ todo # <<>> /\ todo[1] = "merge" /\ todo' = Tail(todo)
         /\ ~At("count") /\ ~At("super") /\ HasOpen /\ HasOpen'
         /\ n \in Nat /\ n \in 1..n /\ n > 0 /\ 1 \in 1..n /\ trans # <<>> /\ trans' # <<>>
         /\ Current = trans[n] /\ Current' = trans'[n] /\ Oldest = trans[1] /\ Oldest' = trans'[1]
         /\ ~trans[n].logged
         /\ trans \in Seq(Transaction) /\ trans' \in Seq(Transaction) /\ Len(trans') = n
         /\ \A i \in 1..n : i # n => trans'[i] = trans[i]
         /\ \A i \in 1..n : trans'[i].id = trans[i].id /\ trans'[i].start = trans[i].start
                            /\ trans'[i].logged = trans[i].logged /\ trans'[i].ondisk = trans[i].ondisk
                            /\ trans'[i].pending = trans[i].pending /\ trans'[i].written = trans[i].written
         /\ trans'[n].blocks = Merged \o Added
         /\ trans'[n].count = trans[n].count
                              + (Buffers(Len(trans[n].blocks) + Len(Fresh)) - Buffers(Len(trans[n].blocks)))
                              + Len(Fresh)
         /\ Len(newBlocks) \in Nat /\ nPendingLog \in Nat /\ nPendingLog + Len(newBlocks) + Reserve <= LogSize
         /\ Len(Fresh) \in Nat /\ Len(Fresh) <= Len(newBlocks) /\ Len(trans[n].blocks) \in Nat
         /\ Buffers(Len(trans[n].blocks) + Len(Fresh)) - Buffers(Len(trans[n].blocks)) \in Nat
         /\ Buffers(Len(trans[n].blocks) + Len(Fresh)) - Buffers(Len(trans[n].blocks)) <= Reserve
<1>1. /\ mode = "mounted" /\ todo # <<>> /\ todo[1] = "merge" /\ todo' = Tail(todo)
      /\ ~At("count") /\ ~At("super") /\ At("merge")
  BY TodoIs DEF afs_merge_transactions, Inv, Step, Next1
<1>2. HasOpen
  <2>1. CallShape
    BY DEF Inv
  <2>2. Len(todo) \in Nat /\ 1 \in 1..Len(todo)
    BY <1>1, TodoIs DEF Inv
  <2>3. started
    BY <1>1, <2>1, <2>2 DEF CallShape
  <2>4. ~Ahead("create")
    <3> SUFFICES ASSUME NEW i \in 1..Len(todo), todo[i] = "create" PROVE FALSE
      BY DEF Ahead
    <3>1. i # 1
      BY <1>1
    <3>2. 1 \in 1..(i - 1)
      BY <2>2, <3>1
    <3> QED BY <1>1, <2>1, <3>2 DEF CallShape
  <2> QED BY <2>3, <2>4 DEF Inv, StepsReady
<1>3. /\ n \in Nat /\ n \in 1..Len(trans) /\ n > 0 /\ 1 \in 1..n /\ trans # <<>> /\ Oldest = trans[1]
      /\ Current = trans[n] /\ ~trans[n].logged /\ trans \in Seq(Transaction)
  BY <1>2, ListIs DEF Inv
<1>4. /\ Len(newBlocks) \in Nat /\ nPendingLog \in Nat
      /\ nPendingLog + Len(newBlocks) + Reserve <= LogSize
  BY <1>1, NewIs DEF Inv, StepsReady
<1>5. Len(Fresh) \in Nat /\ Len(Fresh) <= Len(newBlocks)
  BY FreshIs DEF FreshUpTo
<1>6. trans[n] \in Transaction /\ trans[n].count \in Nat /\ Len(trans[n].blocks) \in Nat
  BY <1>3, TransIs DEF Inv
<1> PICK k : k = Buffers(Len(trans[n].blocks) + Len(Fresh)) - Buffers(Len(trans[n].blocks))
  OBVIOUS
<1> PICK nf : nf = Len(Fresh)
  OBVIOUS
<1> PICK bs : bs = Merged \o Added
  OBVIOUS
<1>7. k \in Nat /\ k <= Reserve
  <2>1. Len(Fresh) + Reserve <= LogSize
    BY <1>4, <1>5, SizesIs
  <2> QED BY <1>5, <1>6, <2>1, ReserveCovers
<1>8. bs \in Copies
  BY <1>3, MergedIs
<1>9. trans[n].count + k + nf \in Nat
  BY <1>5, <1>6, <1>7
<1> PICK t : t = [trans[n] EXCEPT !.blocks = bs, !.count = trans[n].count + k + nf]
  OBVIOUS
<1>10. /\ t \in Transaction /\ t.blocks = bs /\ t.count = trans[n].count + k + nf
       /\ t.id = trans[n].id /\ t.start = trans[n].start /\ t.logged = trans[n].logged
       /\ t.ondisk = trans[n].ondisk /\ t.pending = trans[n].pending /\ t.written = trans[n].written
  BY <1>6, <1>8, <1>9 DEF Transaction, Copies
<1>11. trans' = [trans EXCEPT ![n] = t]
  <2>1. trans' = [trans EXCEPT ![n].blocks = bs, ![n].count = @ + k + nf]
    BY <1>3 DEF afs_merge_transactions
  <2> QED BY <1>3, <1>6, <2>1 DEF Transaction
<1>12. /\ trans' \in Seq(Transaction) /\ Len(trans') = n /\ trans'[n] = t
       /\ \A i \in 1..n : i # n => trans'[i] = trans[i]
       /\ trans' # <<>> /\ Current' = trans'[n] /\ Oldest' = trans'[1]
       /\ HasOpen' <=> ~trans'[n].logged
  BY <1>3, <1>10, <1>11, ReplacedIs DEF Inv
<1>13. \A i \in 1..n : trans'[i].id = trans[i].id /\ trans'[i].start = trans[i].start
                       /\ trans'[i].logged = trans[i].logged /\ trans'[i].ondisk = trans[i].ondisk
                       /\ trans'[i].pending = trans[i].pending /\ trans'[i].written = trans[i].written
  BY <1>10, <1>12
<1>14. HasOpen' /\ n \in 1..n
  BY <1>3, <1>10, <1>12
<1>15. trans'[n].blocks = Merged \o Added /\ trans'[n].count = trans[n].count + k + nf
  BY <1>10, <1>12
<1> QED BY <1>1, <1>2, <1>3, <1>4, <1>5, <1>6, <1>7, <1>12, <1>13, <1>14, <1>15

\* What the merge does to the list of blocks.
LEMMA MergeBlocks ==
  ASSUME Inv, afs_merge_transactions, NEW n, n = Len(trans), NEW old, old = Len(trans[n].blocks)
  PROVE  /\ trans'[n].blocks \in Copies
         /\ Len(trans'[n].blocks) = old + Len(Fresh) /\ old \in Nat /\ Len(Fresh) \in Nat
         /\ \A i \in 1..old : trans'[n].blocks[i].blk = trans[n].blocks[i].blk
         /\ \A i \in 1..Len(Fresh) : trans'[n].blocks[old + i].blk = Fresh[i]
<1>1. trans # <<>> /\ Current = trans[n] /\ trans'[n].blocks = Merged \o Added
  BY MergeIs
<1> QED BY <1>1, MergedIs

\* A merge keeps the counters in agreement.
LEMMA MergeCounts ==
  ASSUME Inv, afs_merge_transactions
  PROVE  CountsAgree'
<1> PICK n : n = Len(trans)
  OBVIOUS
<1>a. PICK nf : nf = Len(Fresh)
  OBVIOUS
<1>b. PICK old : old = Len(trans[n].blocks)
  OBVIOUS
<1>c. PICK k : k = Buffers(old + nf) - Buffers(old)
  OBVIOUS
<1>1. /\ n \in Nat /\ n \in 1..n /\ n > 0 /\ HasOpen /\ HasOpen' /\ Current = trans[n] /\ Current' = trans'[n]
      /\ trans \in Seq(Transaction) /\ trans' \in Seq(Transaction) /\ Len(trans') = n
      /\ \A i \in 1..n : i # n => trans'[i] = trans[i]
      /\ trans'[n].count = trans[n].count + k + nf
      /\ nf \in Nat /\ nf <= Len(newBlocks) /\ old \in Nat /\ k \in Nat /\ k <= Reserve
      /\ Len(newBlocks) \in Nat /\ nPendingLog \in Nat /\ nPendingLog + Len(newBlocks) + Reserve <= LogSize
  BY <1>a, <1>b, <1>c, MergeIs
<1>2. trans'[n].blocks \in Copies /\ Len(trans'[n].blocks) = old + nf
  BY <1>a, <1>b, MergeBlocks
<1>3. trans[n].blocks \in Copies /\ trans[n].count \in Nat
  BY <1>1, TransIs DEF Inv
<1>4. nOldBlockCount' = nOldBlockCount + k + nf /\ nPendingLog' = nPendingLog + k + nf
  BY <1>1, <1>a, <1>b, <1>c DEF afs_merge_transactions
<1>5. trans[n].count = old + Buffers(old)
  <2>1. trans[n].count = Len(LogImage(trans[n].blocks))
    BY <1>1 DEF Inv, CountsAgree
  <2> QED BY <1>3, <1>b, <2>1, ImageIs
<1>6. trans'[n].count = Len(LogImage(trans'[n].blocks))
  <2>1. Len(LogImage(trans'[n].blocks)) = (old + nf) + Buffers(old + nf)
    BY <1>2, ImageIs
  <2>2. old \in Nat /\ old + nf \in Nat /\ nf \in Nat /\ k \in Nat
    BY <1>1
  <2>3. Buffers(old) \in Nat /\ Buffers(old + nf) \in Nat
    BY <2>2, BuffersIs
  <2>4. trans'[n].count = trans[n].count + k + nf
    BY <1>1
  <2>5. trans[n].count + k + nf = (old + nf) + (k + Buffers(old))
    BY <1>3, <1>5, <2>2, <2>3
  <2>6. k + Buffers(old) = Buffers(old + nf)
    BY <1>c, <2>2, <2>3
  <2> QED BY <2>1, <2>4, <2>5, <2>6
<1>7. \A i \in 1..Len(trans') : trans'[i].count = Len(LogImage(trans'[i].blocks))
  <2> TAKE i \in 1..Len(trans')
  <2>1. CASE i = n
    BY <1>6, <2>1
  <2>2. CASE i # n
    <3>1. trans'[i] = trans[i] /\ i \in 1..Len(trans)
      BY <1>1, <2>2
    <3>2. trans[i].count = Len(LogImage(trans[i].blocks))
      BY <3>1 DEF Inv, CountsAgree
    <3> QED BY <3>1, <3>2
  <2> QED BY <2>1, <2>2
<1>8. nOldBlockCount' = IF HasOpen' THEN Current'.count ELSE 0
  <2>1. nOldBlockCount = trans[n].count
    BY <1>1 DEF Inv, CountsAgree
  <2> QED BY <1>1, <1>4, <2>1
<1>9. LogSums(trans')[n + 1] - trans'[n].count = LogSums(trans)[n + 1] - trans[n].count
  <2>1. \A i \in 1..(n - 1) : trans[i].count = trans'[i].count
    BY <1>1
  <2> QED BY <1>1, <2>1, SumsLast
<1>10. LogSums(trans')[n + 1] \in Nat /\ LogSums(trans)[n + 1] \in Nat
  <2>1. n + 1 \in 1..(n + 1)
    BY <1>1
  <2> QED BY <1>1, <2>1, SumsStep
<1>11. nPendingLog = LogSums(trans)[n + 1]
  BY DEF Inv, CountsAgree
<1>12. nPendingLog' = LogSums(trans')[Len(trans') + 1]
  <2>1. nPendingLog \in Nat /\ k \in Nat /\ nf \in Nat /\ trans'[n].count = trans[n].count + k + nf
    BY <1>1
  <2>a. PICK x : x = LogSums(trans')[n + 1]
    OBVIOUS
  <2>b. PICK c : c = trans[n].count
    OBVIOUS
  <2>2. x \in Nat /\ c \in Nat /\ x - (c + k + nf) = nPendingLog - c
    BY <1>3, <1>9, <1>10, <1>11, <2>1, <2>a, <2>b
  <2>3. x = nPendingLog + k + nf
    BY <2>1, <2>2
  <2>4. nPendingLog' = LogSums(trans')[n + 1]
    BY <1>4, <2>3, <2>a
  <2> QED BY <1>1, <2>4
<1>13. nPendingLog' <= LogSize
  BY <1>1, <1>4, SizesIs
<1> QED BY <1>7, <1>8, <1>12, <1>13 DEF CountsAgree

\* A merge makes no second copy of a block.
LEMMA MergeOnce ==
  ASSUME Inv, afs_merge_transactions
  PROVE  OneCopyPerBlock'
<1>n. PICK n : n = Len(trans)
  OBVIOUS
<1>a. PICK old : old = Len(trans[n].blocks)
  OBVIOUS
<1>f. PICK nf : nf = Len(Fresh)
  OBVIOUS
<1>1. /\ n \in Nat /\ n \in 1..n /\ Len(trans') = n /\ Current = trans[n] /\ HasOpen
      /\ \A i \in 1..n : i # n => trans'[i] = trans[i]
  BY <1>n, MergeIs
<1>2. /\ Len(trans'[n].blocks) = old + nf /\ old \in Nat /\ nf \in Nat
      /\ \A i \in 1..old : trans'[n].blocks[i].blk = trans[n].blocks[i].blk
      /\ \A i \in 1..nf : trans'[n].blocks[old + i].blk = Fresh[i]
  <2>1. /\ Len(trans'[n].blocks) = old + Len(Fresh) /\ old \in Nat /\ Len(Fresh) \in Nat
        /\ \A i \in 1..old : trans'[n].blocks[i].blk = trans[n].blocks[i].blk
        /\ \A i \in 1..Len(Fresh) : trans'[n].blocks[old + i].blk = Fresh[i]
    BY <1>n, <1>a, MergeBlocks, ZenonT(30)
  <2> QED BY <1>f, <2>1, Zenon
<1>3. /\ \A k \in 1..nf : IsNew(Fresh[k]) /\ Fresh[k] \in Block
      /\ \A k, l \in 1..nf : Fresh[k] = Fresh[l] => k = l
  <2>1. FreshUpTo(Fresh, Len(newBlocks))
    BY FreshIs
  <2>2. Fresh \in Seq(Block) /\ \A k \in 1..nf : IsNew(Fresh[k])
    BY <1>f, <2>1 DEF FreshUpTo
  <2>3. \A k, l \in 1..nf : Fresh[k] = Fresh[l] => k = l
    BY <1>f, <2>1 DEF FreshUpTo
  <2>4. \A k \in 1..nf : Fresh[k] \in Block
    BY <1>f, <2>2
  <2> QED BY <2>2, <2>3, <2>4
<1>4. \A i \in 1..old : \A k \in 1..nf : trans[n].blocks[i].blk # Fresh[k]
  <2> SUFFICES ASSUME NEW i \in 1..old, NEW k \in 1..nf, trans[n].blocks[i].blk = Fresh[k]
               PROVE  FALSE
    OBVIOUS
  <2>1. Holds(n, Fresh[k])
    BY <1>a DEF Holds
  <2> QED BY <1>1, <1>3, <1>n, <2>1, IsNewIs
<1>5. \A i, j \in 1..old : trans[n].blocks[i].blk = trans[n].blocks[j].blk => i = j
  BY <1>1, <1>n, <1>a DEF Inv, OneCopyPerBlock
<1>6. \A i \in 1..(old + nf) : i \in 1..old \/ (i - old \in 1..nf /\ old + (i - old) = i)
  BY <1>2
<1>7. ASSUME NEW j \in 1..(old + nf), NEW k \in 1..(old + nf),
             trans'[n].blocks[j].blk = trans'[n].blocks[k].blk
      PROVE  j = k
  <2>1. CASE j \in 1..old /\ k \in 1..old
    BY <1>2, <1>5, <1>7, <2>1
  <2>2. CASE j \in 1..old /\ k \notin 1..old
    <3>1. k - old \in 1..nf /\ old + (k - old) = k
      BY <1>6, <2>2
    <3>2. trans'[n].blocks[k].blk = Fresh[k - old]
      BY <1>2, <3>1
    <3> QED BY <1>2, <1>4, <1>7, <2>2, <3>1, <3>2
  <2>3. CASE j \notin 1..old /\ k \in 1..old
    <3>1. j - old \in 1..nf /\ old + (j - old) = j
      BY <1>6, <2>3
    <3>2. trans'[n].blocks[j].blk = Fresh[j - old]
      BY <1>2, <3>1
    <3> QED BY <1>2, <1>4, <1>7, <2>3, <3>1, <3>2
  <2>4. CASE j \notin 1..old /\ k \notin 1..old
    <3>1. /\ j - old \in 1..nf /\ k - old \in 1..nf
          /\ old + (j - old) = j /\ old + (k - old) = k
      BY <1>6, <2>4
    <3>2. trans'[n].blocks[j].blk = Fresh[j - old] /\ trans'[n].blocks[k].blk = Fresh[k - old]
      BY <1>2, <3>1
    <3>3. j - old = k - old
      BY <1>3, <1>7, <3>1, <3>2
    <3> QED BY <1>2, <3>3
  <2> QED BY <2>1, <2>2, <2>3, <2>4
<1>8. ASSUME NEW i \in 1..n, NEW j \in 1..Len(trans'[i].blocks), NEW k \in 1..Len(trans'[i].blocks),
             trans'[i].blocks[j].blk = trans'[i].blocks[k].blk
      PROVE  j = k
  <2>1. CASE i = n
    BY <1>2, <1>7, <1>8, <2>1
  <2>2. CASE i # n
    <3>1. trans'[i] = trans[i]
      BY <1>1, <2>2
    <3> QED BY <1>n, <1>8, <3>1 DEF Inv, OneCopyPerBlock
  <2> QED BY <2>1, <2>2
<1> QED BY <1>1, <1>8 DEF OneCopyPerBlock

\* A merge keeps the list in order.
LEMMA MergeOrder ==
  ASSUME Inv, afs_merge_transactions
  PROVE  ListInOrder'
<1>n. PICK n : n = Len(trans)
  OBVIOUS
<1>1. /\ n \in Nat /\ n \in 1..n /\ Len(trans') = n /\ ~trans[n].logged
      /\ \A i \in 1..n : i # n => trans'[i] = trans[i]
      /\ \A i \in 1..n : trans'[i].id = trans[i].id /\ trans'[i].start = trans[i].start
                         /\ trans'[i].logged = trans[i].logged /\ trans'[i].ondisk = trans[i].ondisk
                         /\ trans'[i].written = trans[i].written
  BY <1>n, MergeIs
<1>2. nLoggStart' = nLoggStart /\ nLoggEnd' = nLoggEnd /\ nextId' = nextId
  BY DEF afs_merge_transactions, InMemory, nLoggEnd
<1>3. Len(trans'[n].blocks) \in Nat
  BY <1>n, MergeBlocks
<1>4. ASSUME NEW i \in 1..n
      PROVE  /\ trans'[i].id \in 1..(nextId' - 1)
             /\ trans'[i].start \in nLoggStart'..nLoggEnd'
             /\ trans'[i].written <= Len(trans'[i].blocks)
             /\ trans'[i].written > 0 \/ trans'[i].ondisk => i = 1 /\ trans'[i].logged
             /\ trans'[i].ondisk => trans'[i].written = Len(trans'[i].blocks)
  <2>1. /\ trans[i].id \in 1..(nextId - 1)
        /\ trans[i].start \in nLoggStart..nLoggEnd
        /\ trans[i].written <= Len(trans[i].blocks)
        /\ trans[i].written > 0 \/ trans[i].ondisk => i = 1 /\ trans[i].logged
        /\ trans[i].ondisk => trans[i].written = Len(trans[i].blocks)
        /\ trans[i].written \in Nat
    BY <1>n, TransIs DEF Inv, ListInOrder
  <2>2. CASE i = n
    BY <1>1, <1>2, <1>3, <2>1, <2>2
  <2>3. CASE i # n
    <3>1. trans'[i] = trans[i]
      BY <1>1, <2>3
    <3> QED BY <1>2, <2>1, <3>1
  <2> QED BY <2>2, <2>3
<1>5. ASSUME NEW i \in 2..n
      PROVE  /\ trans'[i - 1].logged
             /\ trans'[i - 1].id < trans'[i].id
             /\ trans'[i].start = LogPos(trans'[i - 1].start, nLoggStart', nLoggEnd', trans'[i - 1].count)
  <2>1. /\ trans[i - 1].logged
        /\ trans[i - 1].id < trans[i].id
        /\ trans[i].start = LogPos(trans[i - 1].start, nLoggStart, nLoggEnd, trans[i - 1].count)
    BY <1>n DEF Inv, ListInOrder
  <2>2. i \in 1..n /\ i - 1 \in 1..n /\ i - 1 # n
    BY <1>1
  <2>3. trans'[i - 1] = trans[i - 1] /\ trans'[i].id = trans[i].id /\ trans'[i].start = trans[i].start
    BY <1>1, <2>2
  <2> QED BY <1>2, <2>1, <2>3
<1> QED BY <1>1, <1>4, <1>5 DEF ListInOrder

\* A merge leaves the blocks of the oldest transaction in the cache alone.
LEMMA MergeCache ==
  ASSUME Inv, afs_merge_transactions, ~At("count")'
  PROVE  CacheFollows'
<1>n. PICK n : n = Len(trans)
  OBVIOUS
<1>1. /\ n \in Nat /\ n \in 1..n /\ 1 \in 1..n /\ Len(trans') = n /\ ~trans[n].logged /\ ~At("count")
      /\ trans # <<>> /\ trans' # <<>> /\ Oldest = trans[1] /\ Oldest' = trans'[1]
      /\ \A i \in 1..n : i # n => trans'[i] = trans[i]
      /\ \A i \in 1..n : /\ trans'[i].id = trans[i].id
                         /\ trans'[i].pending = trans[i].pending /\ trans'[i].written = trans[i].written
  BY <1>n, MergeIs
<1>2. cache' = cache /\ disk' = disk
  BY DEF afs_merge_transactions, InMemory
<1>3. CacheFollows
  BY DEF Inv
<1>4. Handed = trans[1].written /\ Handed' = trans[1].written /\ trans[1].written \in Nat
  <2>1. trans[1].written \in Nat
    BY <1>1, <1>n, TransIs DEF Inv
  <2>2. Handed = trans[1].written + 0
    BY <1>1 DEF Handed
  <2>3. Handed' = trans[1].written + 0
    BY <1>1 DEF Handed
  <2> QED BY <2>1, <2>2, <2>3
<1>5. n = 1 => Handed = 0
  <2> HAVE n = 1
  <2>1. trans[1].written > 0 \/ trans[1].ondisk => trans[1].logged
    BY <1>1, <1>n DEF Inv, ListInOrder
  <2> QED BY <1>1, <1>4, <2>1
<1>6. n # 1 => Oldest' = Oldest
  BY <1>1
<1>7. Oldest'.id = Oldest.id
  BY <1>1
<1>8. \A b : CachedRead(b)' = CachedRead(b)
  BY <1>2 DEF CachedRead
<1>9. \A b \in Block : cache'[b].dirty => cache'[b].func # 0
  BY <1>2, <1>3 DEF CacheFollows
<1>10. ASSUME NEW b \in Block, cache'[b].func # 0
       PROVE  /\ cache'[b].dirty
              /\ trans' # <<>> /\ cache'[b].func = Oldest'.id
              /\ \E p \in 1..Handed' : BufferOrder(Oldest'.blocks)[p].blk = b
  <2>1. /\ cache[b].dirty /\ cache[b].func = Oldest.id
        /\ \E p \in 1..Handed : BufferOrder(Oldest.blocks)[p].blk = b
    BY <1>2, <1>3, <1>10 DEF CacheFollows
  <2>2. n # 1
    BY <1>5, <2>1
  <2> QED BY <1>1, <1>2, <1>4, <1>6, <2>1, <2>2
<1>11. (\A p \in 1..Handed :
          CachedRead(BufferOrder(Oldest.blocks)[p].blk) = BufferOrder(Oldest.blocks)[p].val)'
  <2>1. \A p \in 1..Handed :
           CachedRead(BufferOrder(Oldest.blocks)[p].blk) = BufferOrder(Oldest.blocks)[p].val
    BY <1>3 DEF CacheFollows
  <2>2. CASE n = 1
    BY <1>4, <1>5, <2>2
  <2>3. CASE n # 1
    BY <1>4, <1>6, <1>8, <2>1, <2>3
  <2> QED BY <2>2, <2>3
<1>12. ASSUME NEW i \in 1..Len(trans')
       PROVE  trans'[i].pending + (IF i = 1 /\ At("count")' THEN 1 ELSE 0)
                = Cardinality(FuncSet(cache', trans'[i].id))
  <2>1. trans[i].pending + (IF i = 1 /\ At("count") THEN 1 ELSE 0)
          = Cardinality(FuncSet(cache, trans[i].id))
    BY <1>1, <1>3, <1>n, FollowsIs
  <2> QED BY <1>1, <1>2, <2>1
<1> QED BY <1>9, <1>10, <1>11, <1>12 DEF CacheFollows, FuncSet

\* After a merge the entries point to the newest copies.
LEMMA MergeHash ==
  ASSUME Inv, afs_merge_transactions
  PROVE  HashFollows' /\ hash' \in [Block -> Entry]
<1>n. PICK n : n = Len(trans)
  OBVIOUS
<1>a. PICK old : old = Len(trans[n].blocks)
  OBVIOUS
<1>f. PICK nf : nf = Len(Fresh)
  OBVIOUS
<1>1. /\ n \in Nat /\ n \in 1..n /\ Len(trans') = n /\ Current = trans[n] /\ HasOpen
      /\ \A i \in 1..n : i # n => trans'[i] = trans[i]
      /\ \A i \in 1..n : trans'[i].id = trans[i].id /\ trans'[i].ondisk = trans[i].ondisk
  BY <1>n, MergeIs
<1>2. /\ Len(trans'[n].blocks) = old + nf /\ old \in Nat /\ nf \in Nat
      /\ \A i \in 1..old : trans'[n].blocks[i].blk = trans[n].blocks[i].blk
      /\ \A i \in 1..nf : trans'[n].blocks[old + i].blk = Fresh[i]
  <2>1. /\ Len(trans'[n].blocks) = old + Len(Fresh) /\ old \in Nat /\ Len(Fresh) \in Nat
        /\ \A i \in 1..old : trans'[n].blocks[i].blk = trans[n].blocks[i].blk
        /\ \A i \in 1..Len(Fresh) : trans'[n].blocks[old + i].blk = Fresh[i]
    BY <1>n, <1>a, MergeBlocks, ZenonT(30)
  <2> QED BY <1>f, <2>1, Zenon
<1>3. /\ \A b \in Block : hash'[b] = MergedEntry(b) /\ hash'[b] \in Entry
      /\ hash' \in [Block -> Entry] /\ newBlocks' = <<>> /\ nextId' = nextId
  <2>1. hash' = [b \in Block |-> MergedEntry(b)] /\ newBlocks' = <<>> /\ nextId' = nextId
    BY DEF afs_merge_transactions
  <2>2. \A b \in Block : MergedEntry(b) \in Entry
    BY <1>1, MergedEntryIs
  <2> QED BY <2>1, <2>2
<1>4. \A b \in Block : EntryOK(b, hash'[b], IsIn(b, newBlocks'), nextId')
  <2> TAKE b \in Block
  <2>1. EntryOK(b, MergedEntry(b), FALSE, nextId)
    BY <1>1, MergedEntryIs
  <2>2. ~IsIn(b, newBlocks')
    BY <1>3 DEF IsIn
  <2> QED BY <1>3, <2>1, <2>2 DEF EntryOK
<1>5. \A b : (\E k \in 1..nf : Fresh[k] = b) <=> IsIn(b, newBlocks) /\ IsNew(b)
  <2>1. FreshUpTo(Fresh, Len(newBlocks))
    BY FreshIs
  <2>2. \A k \in 1..nf : IsNew(Fresh[k]) /\ IsIn(Fresh[k], newBlocks)
    BY <1>f, <2>1 DEF FreshUpTo, IsIn
  <2>3. \A j \in 1..Len(newBlocks) : IsNew(newBlocks[j]) => \E k \in 1..nf : Fresh[k] = newBlocks[j]
    BY <1>f, <2>1 DEF FreshUpTo
  <2> QED BY <2>2, <2>3 DEF IsIn
<1>6. \A b : \A i \in 1..n : i # n => (Holds(i, b)' <=> Holds(i, b))
  BY <1>1 DEF Holds
<1>7. \A b : Holds(n, b)' <=> Holds(n, b) \/ \E k \in 1..nf : Fresh[k] = b
  <2> TAKE b
  <2>1. Holds(n, b) => Holds(n, b)'
    <3> SUFFICES ASSUME NEW j \in 1..old, trans[n].blocks[j].blk = b PROVE Holds(n, b)'
      BY <1>a DEF Holds
    <3>1. j \in 1..(old + nf) /\ trans'[n].blocks[j].blk = b
      BY <1>2
    <3> QED BY <1>2, <3>1 DEF Holds
  <2>2. ASSUME NEW k \in 1..nf, Fresh[k] = b PROVE Holds(n, b)'
    <3>1. old + k \in 1..(old + nf) /\ trans'[n].blocks[old + k].blk = b
      BY <1>2, <2>2
    <3> QED BY <1>2, <3>1 DEF Holds
  <2>3. ASSUME Holds(n, b)' PROVE Holds(n, b) \/ \E k \in 1..nf : Fresh[k] = b
    <3>1. PICK j \in 1..(old + nf) : trans'[n].blocks[j].blk = b
      BY <1>2, <2>3 DEF Holds
    <3>2. CASE j \in 1..old
      BY <1>2, <1>a, <3>1, <3>2 DEF Holds
    <3>3. CASE j \notin 1..old
      <4>1. j - old \in 1..nf /\ old + (j - old) = j
        BY <1>2, <3>3
      <4>2. Fresh[j - old] = b
        BY <1>2, <3>1, <4>1
      <4> QED BY <4>1, <4>2
    <3> QED BY <3>2, <3>3
  <2> QED BY <2>1, <2>2, <2>3
<1>8. ASSUME NEW b \in Block, NEW i \in 1..n
      PROVE  /\ hash'[b].buffer[1] = trans'[i].id =>
                  /\ hash'[b].buffer[2] \in 1..Len(trans'[i].blocks)
                  /\ trans'[i].blocks[hash'[b].buffer[2]].blk = b
                  /\ Newest(i, b)'
             /\ Holds(i, b)' /\ Newest(i, b)' /\ ~trans'[i].ondisk =>
                  hash'[b].trans = trans'[i].id /\ hash'[b].buffer[1] = trans'[i].id
  <2>1. PlaceOK(b, hash[b], i)
    BY <1>n, HashIs DEF Inv
  <2>2. \A k \in (i + 1)..n : k \in 1..n
    BY <1>1
  <2>3. CASE IsIn(b, newBlocks) /\ IsNew(b)
    <3>1. /\ hash'[b].trans = trans[n].id /\ hash'[b].buffer[1] = trans[n].id
          /\ \E k \in 1..nf : Fresh[k] = b /\ hash'[b].buffer[2] = old + k
      <4>1. /\ MergedEntry(b).trans = Current.id /\ MergedEntry(b).buffer[1] = Current.id
            /\ \E k \in 1..Len(Fresh) : Fresh[k] = b
                 /\ MergedEntry(b).buffer[2] = Len(Current.blocks) + k
        BY <1>1, <2>3, MergedEntryIs
      <4> QED BY <1>1, <1>3, <1>a, <1>f, <4>1
    <3>2. PICK k \in 1..nf : Fresh[k] = b /\ hash'[b].buffer[2] = old + k
      BY <3>1
    <3>3. CASE i = n
      <4>1. old + k \in 1..(old + nf) /\ trans'[n].blocks[old + k].blk = b
        BY <1>2, <3>2
      <4>2. Newest(n, b)'
        BY <1>1 DEF Newest
      <4> QED BY <1>1, <1>2, <3>1, <3>2, <3>3, <4>1, <4>2
    <3>4. CASE i # n
      <4>1. i < n /\ n \in (i + 1)..n
        BY <1>1, <3>4
      <4>2. trans[i].id < trans[n].id /\ trans[i].id \in Nat /\ trans[n].id \in Nat
        BY <1>1, <1>n, <4>1, IdsGrow, TransIs DEF Inv
      <4>3. Holds(n, b)'
        BY <1>7, <3>2
      <4>4. ~Newest(i, b)'
        BY <1>1, <4>1, <4>3 DEF Newest
      <4> QED BY <1>1, <3>1, <4>2, <4>4
    <3> QED BY <3>3, <3>4
  <2>4. CASE ~(IsIn(b, newBlocks) /\ IsNew(b))
    <3>1. hash'[b].buffer = hash[b].buffer /\ hash'[b].trans = hash[b].trans
      BY <1>1, <1>3, <2>4, MergedEntryIs
    <3>2. \A k \in 1..n : Holds(k, b)' <=> Holds(k, b)
      <4> TAKE k \in 1..n
      <4>1. CASE k = n
        BY <1>5, <1>7, <2>4, <4>1
      <4>2. CASE k # n
        BY <1>6, <4>2
      <4> QED BY <4>1, <4>2
    <3>3. Newest(i, b)' <=> Newest(i, b)
      BY <1>1, <1>n, <2>2, <3>2 DEF Newest
    <3>4. ASSUME hash[b].buffer[1] = trans[i].id
          PROVE  /\ hash[b].buffer[2] \in 1..Len(trans'[i].blocks)
                 /\ trans'[i].blocks[hash[b].buffer[2]].blk = b
      <4>1. /\ hash[b].buffer[2] \in 1..Len(trans[i].blocks)
            /\ trans[i].blocks[hash[b].buffer[2]].blk = b
        BY <2>1, <3>4 DEF PlaceOK
      <4>2. CASE i = n
        <5>1. hash[b].buffer[2] \in 1..old
          BY <1>a, <4>1, <4>2
        <5>2. hash[b].buffer[2] \in 1..(old + nf)
          BY <1>2, <5>1
        <5> QED BY <1>2, <4>1, <4>2, <5>1, <5>2
      <4>3. CASE i # n
        <5>1. trans'[i] = trans[i]
          BY <1>1, <4>3
        <5> QED BY <4>1, <5>1
      <4> QED BY <4>2, <4>3
    <3> QED BY <1>1, <2>1, <3>1, <3>2, <3>3, <3>4 DEF PlaceOK
  <2> QED BY <2>3, <2>4
<1>9. \A i, j \in 1..Len(newBlocks') : newBlocks'[i] = newBlocks'[j] => i = j
  BY <1>3
<1> QED BY <1>1, <1>3, <1>4, <1>8, <1>9 DEF HashFollows, EntryOK, IsIn

\* A merge leaves the log of the other transactions in place.
LEMMA MergeLog ==
  ASSUME Inv, afs_merge_transactions, ~At("super")'
  PROVE  LogInPlace'
<1>n. PICK n : n = Len(trans)
  OBVIOUS
<1>1. /\ n \in Nat /\ n \in 1..n /\ n > 0 /\ 1 \in 1..n /\ Len(trans') = n /\ HasOpen /\ HasOpen'
      /\ trans \in Seq(Transaction) /\ trans' \in Seq(Transaction)
      /\ trans # <<>> /\ trans' # <<>> /\ mode = "mounted" /\ Oldest = trans[1] /\ Oldest' = trans'[1]
      /\ ~trans[n].logged
      /\ \A i \in 1..n : i # n => trans'[i] = trans[i]
      /\ \A i \in 1..n : trans'[i].start = trans[i].start /\ trans'[i].logged = trans[i].logged
  BY <1>n, MergeIs
<1>2. UNCHANGED <<disk, superblock, sb, nLoggStart>>
  BY DEF afs_merge_transactions, InMemory
<1>3. LogInPlace /\ InMemoryState
  BY <1>1 DEF Inv, InMemoryState
<1>4. nLoggEnd' = nLoggEnd
  BY <1>2 DEF nLoggEnd
<1>5. \A i \in 1..Len(trans') : trans'[i].logged => InLog(trans[i])'
  <2> TAKE i \in 1..Len(trans')
  <2> HAVE trans'[i].logged
  <2>1. i \in 1..n /\ i # n /\ trans'[i] = trans[i] /\ trans[i].logged
    BY <1>1
  <2>2. InLog(trans[i])
    BY <1>3, <1>n, <2>1 DEF LogInPlace
  <2> QED BY <1>2, <1>4, <2>1, <2>2 DEF InLog
<1>6. superblock'.valid = LogSums(trans')[Len(trans') + (IF HasOpen' THEN 0 ELSE 1)]
  <2>1. superblock.valid = LogSums(trans)[n + 0]
    BY <1>1, <1>3, <1>n DEF LogInPlace
  <2>2. \A i \in 1..(n - 1) : trans[i].count = trans'[i].count
    BY <1>1
  <2>3. \A i \in 1..n : LogSums(trans')[i] = LogSums(trans)[i]
    BY <1>1, <1>n, <2>2, SumsLast
  <2>4. n + 0 = n
    BY <1>1
  <2> QED BY <1>1, <1>2, <2>1, <2>3, <2>4
<1>7. superblock'.start = IF trans' = <<>> THEN nLoggStart' ELSE Oldest'.start
  <2>1. superblock.start = Oldest.start
    BY <1>1, <1>3 DEF LogInPlace
  <2> QED BY <1>1, <1>2, <2>1
<1>8. superblock' = sb'
  BY <1>2, <1>3 DEF LogInPlace
<1> QED BY <1>5, <1>6, <1>7, <1>8 DEF LogInPlace

\* afs_merge_transactions keeps the invariant.
LEMMA MergeInv ==
  ASSUME Inv, nLoggStart = 1, afs_merge_transactions
  PROVE  Inv'
<1>n. PICK n : n = Len(trans)
  OBVIOUS
<1>1. /\ mode = "mounted" /\ todo # <<>> /\ todo[1] = "merge" /\ todo' = Tail(todo)
      /\ HasOpen /\ HasOpen' /\ trans' \in Seq(Transaction)
  BY <1>n, MergeIs
<1>2. /\ newBlocks' = <<>> /\ leave' = [leave EXCEPT !.got = {}]
      /\ UNCHANGED <<disk, superblock, mode, nLoggStart, cache, replay, nCalls, nCrash,
                     sb, started, fileBlocks, nextId>>
  BY DEF afs_merge_transactions, InMemory
<1>3. /\ leave' \in [blk : {0} \cup Block, run : 0..3, got : SUBSET Block]
      /\ leave'.blk = leave.blk /\ started' = started
  <2>1. /\ leave \in [blk : {0} \cup Block, run : 0..3, got : SUBSET Block]
        /\ leave.blk \in {0} \cup Block /\ leave.run \in 0..3
    BY LeaveIs DEF Inv
  <2>2. leave' = [blk |-> leave.blk, run |-> leave.run, got |-> {}]
    BY <1>2, <2>1
  <2> QED BY <1>2, <2>1, <2>2
<1>4. todo' \in Seq(StepNames) /\ CallShape' /\ StepsReady' /\ ~At("count")' /\ ~At("super")'
  BY <1>1, <1>3, Popped
<1>5. CountsAgree'
  BY MergeCounts
<1>6. HashFollows' /\ hash' \in [Block -> Entry]
  BY MergeHash
<1>7. TypeOK'
  <2>1. nOldBlockCount' \in Nat /\ nPendingLog' \in Nat
    <3>1. \A i \in 1..Len(trans') : trans'[i].count \in Nat
      BY <1>1, TransFields
    <3>2. Len(trans') \in Nat /\ Len(trans') \in 1..Len(trans')
      BY <1>1, EmptyIs DEF HasOpen
    <3>3. Current' = trans'[Len(trans')]
      BY DEF Current, Last
    <3>4. nOldBlockCount' = Current'.count
      BY <1>1, <1>5 DEF CountsAgree
    <3>5. Len(trans') + 1 \in 1..(Len(trans') + 1)
      BY <3>2
    <3>6. nPendingLog' = LogSums(trans')[Len(trans') + 1]
      BY <1>5 DEF CountsAgree
    <3>7. nPendingLog' \in Nat
      BY <1>1, <3>5, <3>6, SumsStep
    <3> QED BY <3>1, <3>2, <3>3, <3>4, <3>7
  <2>2. newBlocks' \in Seq(Block)
    BY <1>2
  <2> QED BY <1>1, <1>2, <1>3, <1>4, <1>6, <2>1, <2>2 DEF Inv, TypeOK
<1>8. ListInOrder' /\ OneCopyPerBlock'
  BY MergeOrder, MergeOnce
<1>9. CacheFollows' /\ LogInPlace'
  BY <1>4, MergeCache, MergeLog
<1>10. NothingInMemory'
  BY <1>1, <1>2 DEF NothingInMemory, InMemoryState
<1> QED BY <1>4, <1>5, <1>6, <1>7, <1>8, <1>9, <1>10 DEF Inv
-----------------------------------------------------------------------------
(* A volume that is not in memory: unmount, crash, mount and replay.       *)

NothingHeld ==
    /\ trans = <<>> /\ nOldBlockCount = 0 /\ nPendingLog = 0 /\ newBlocks = <<>>
    /\ hash = [b \in Block |-> NoEntry] /\ started = FALSE /\ todo = <<>>
    /\ cache = [b \in Block |-> Clean]

\* With no transactions, entries, steps and dirty blocks the parts of the
\* invariant that are about them hold.
LEMMA HeldIs ==
  TypeOK /\ NothingHeld =>
    /\ CallShape /\ StepsReady /\ CountsAgree /\ ListInOrder /\ CacheFollows
    /\ OneCopyPerBlock /\ HashFollows
<1> HAVE TypeOK /\ NothingHeld
<1>1. /\ trans = <<>> /\ nOldBlockCount = 0 /\ nPendingLog = 0 /\ newBlocks = <<>>
      /\ started = FALSE /\ todo = <<>> /\ Len(trans) = 0 /\ Len(todo) = 0 /\ Len(newBlocks) = 0
  BY DEF NothingHeld
<1>2. \A b \in Block : hash[b] = NoEntry /\ cache[b] = Clean
  BY DEF NothingHeld
<1>3. \A name : ~At(name) /\ ~Ahead(name)
  BY <1>1 DEF At, Ahead
<1>4. ~HasOpen /\ Handed = 0
  BY <1>1 DEF HasOpen, Handed
<1>5. \A b \in Block : cache[b].dirty = FALSE /\ cache[b].func = 0
  BY <1>2 DEF Clean
<1>6. CallShape
  BY <1>1, <1>3 DEF CallShape
<1>7. StepsReady
  BY <1>1, <1>3, <1>4 DEF StepsReady
<1>8. CountsAgree
  <2>1. trans \in Seq(Transaction)
    BY DEF TypeOK
  <2>2. LogSums(trans)[1] = 0
    BY <2>1, SumsStep
  <2>3. Len(trans) + 1 = 1 /\ 0 <= LogSize
    BY <1>1, SizesIs
  <2> QED BY <1>1, <1>4, <2>2, <2>3 DEF CountsAgree
<1>9. ListInOrder /\ OneCopyPerBlock
  BY <1>1 DEF ListInOrder, OneCopyPerBlock
<1>10. CacheFollows
  BY <1>1, <1>4, <1>5 DEF CacheFollows
<1>11. HashFollows
  <2>1. nextId \in Nat \ {0}
    BY LeaveIs
  <2>2. \A b \in Block : EntryOK(b, hash[b], IsIn(b, newBlocks), nextId)
    BY <1>1, <1>2, <2>1, NoEntryIs DEF EntryOK, IsIn
  <2>3. \A i, j \in 1..Len(newBlocks) : newBlocks[i] = newBlocks[j] => i = j
    BY <1>1
  <2>4. \A b \in Block : \A i \in 1..Len(trans) : PlaceOK(b, hash[b], i)
    BY <1>1
  <2> QED BY <2>2, <2>3, <2>4, HashIs
<1> QED BY <1>6, <1>7, <1>8, <1>9, <1>10, <1>11

\* A volume that is no longer in memory has the invariant.
LEMMA GoneInv ==
  ASSUME Inv, Gone, disk' \in [Addr -> DiskBlock], nCrash' \in Nat
  PROVE  Inv'
<1>1. /\ mode' = "down" /\ trans' = <<>> /\ nOldBlockCount' = 0 /\ nPendingLog' = 0 /\ newBlocks' = <<>>
      /\ hash' = [b \in Block |-> NoEntry] /\ started' = FALSE /\ todo' = <<>>
      /\ leave' = [blk |-> 0, run |-> 0, got |-> {}]
      /\ replay' = [pos |-> 0, left |-> 0, idx |-> <<>>]
      /\ cache' = [b \in Block |-> Clean] /\ fileBlocks' = {}
      /\ UNCHANGED <<superblock, nLoggStart, sb, nextId, nCalls>>
  BY DEF Gone
<1>2. TypeOK'
  <2>1. hash' \in [Block -> Entry]
    BY <1>1, NoEntryIs
  <2>2. cache' \in [Block -> [dirty : BOOLEAN, val : Nat, func : Nat]]
    BY <1>1 DEF Clean
  <2>3. leave' \in [blk : {0} \cup Block, run : 0..3, got : SUBSET Block]
    BY <1>1
  <2>4. replay' \in [pos : Nat, left : Int, idx : Seq(Block)]
    BY <1>1
  <2>5. /\ trans' \in Seq(Transaction) /\ newBlocks' \in Seq(Block) /\ todo' \in Seq(StepNames)
        /\ fileBlocks' \subseteq Block /\ started' \in BOOLEAN
        /\ nOldBlockCount' \in Nat /\ nPendingLog' \in Nat
    <3>1. /\ trans' = <<>> /\ newBlocks' = <<>> /\ todo' = <<>> /\ fileBlocks' = {}
          /\ started' = FALSE /\ nOldBlockCount' = 0 /\ nPendingLog' = 0
      BY <1>1
    <3>2. trans' \in Seq(Transaction)
      BY <3>1
    <3>3. newBlocks' \in Seq(Block) /\ todo' \in Seq(StepNames)
      BY <3>1
    <3> QED BY <3>1, <3>2, <3>3
  <2>6. disk' \in [Addr -> [val : Int, idx : Seq(Block)]]
    BY DEF DiskBlock
  <2>7. mode' \in {"mounted", "down", "replay", "panic in callback", "panic in log"}
    BY <1>1
  <2> QED BY <1>1, <2>1, <2>2, <2>3, <2>4, <2>5, <2>6, <2>7 DEF Inv, TypeOK
<1>3. NothingHeld'
  BY <1>1 DEF NothingHeld
<1>4. (TypeOK /\ NothingHeld)' =>
         (/\ CallShape /\ StepsReady /\ CountsAgree /\ ListInOrder /\ CacheFollows
          /\ OneCopyPerBlock /\ HashFollows)'
  BY HeldIs, PTL
<1>5. ~InMemoryState'
  BY <1>1 DEF InMemoryState
<1>6. LogInPlace'
  BY <1>5 DEF LogInPlace
<1>7. NothingInMemory'
  BY <1>1 DEF NothingInMemory
<1> QED BY <1>2, <1>3, <1>4, <1>6, <1>7 DEF Inv

\* Unmount and crash keep the invariant.
LEMMA StoppedInv ==
  ASSUME Inv, nLoggStart = 1, unmounted \/ Crash \/ CrashInLogWrite
  PROVE  Inv'
<1>1. disk \in [Addr -> DiskBlock] /\ nCrash \in Nat
  BY DEF Inv, TypeOK, DiskBlock
<1>2. CASE unmounted
  BY <1>1, <1>2, GoneInv DEF unmounted
<1>3. CASE Crash
  <2>1. nCrash' \in Nat /\ disk' = disk /\ Gone
    BY <1>1, <1>3 DEF Crash
  <2> QED BY <1>1, <2>1, GoneInv
<1>4. CASE CrashInLogWrite
  <2>1. nCrash' \in Nat /\ Gone /\ HasOpen
    BY <1>1, <1>4 DEF CrashInLogWrite
  <2>2. Len(trans) \in 1..Len(trans) /\ Current = trans[Len(trans)]
    BY <2>1, ListIs DEF Inv, HasOpen
  <2>3. \A a \in DOMAIN LogWrites(Current) : LogWrites(Current)[a] \in DiskBlock
    BY <2>2, LogWritesIs
  <2>4. PICK done \in SUBSET DOMAIN LogWrites(Current) :
           disk' = Overwritten([a \in done |-> LogWrites(Current)[a]])
    BY <1>4 DEF CrashInLogWrite
  <2>5. disk' = [a \in Addr |-> IF a \in done THEN LogWrites(Current)[a] ELSE disk[a]]
    BY <2>4 DEF Overwritten
  <2>6. \A a \in Addr : (IF a \in done THEN LogWrites(Current)[a] ELSE disk[a]) \in DiskBlock
    BY <1>1, <2>3, <2>4
  <2>7. disk' \in [Addr -> DiskBlock]
    BY <2>5, <2>6
  <2> QED BY <2>1, <2>7, GoneInv
<1> QED BY <1>2, <1>3, <1>4

\* Nothing of what is held in memory is there while a volume is not mounted.
LEMMA DownInv ==
  ASSUME Inv, ~InMemoryState, TypeOK', LogInPlace', NothingInMemory',
         UNCHANGED <<trans, nOldBlockCount, nPendingLog, newBlocks, hash, started, leave,
                     nextId, todo, cache>>
  PROVE  Inv'
<1>1. /\ trans = <<>> /\ trans' = <<>> /\ Len(trans') = 0 /\ todo = <<>> /\ todo' = <<>>
      /\ newBlocks = <<>> /\ newBlocks' = <<>> /\ ~started /\ ~started'
      /\ Len(todo') = 0 /\ Len(newBlocks') = 0
  BY DEF Inv, NothingInMemory
<1>2. /\ \A name : ~At(name)' /\ ~Ahead(name)'
      /\ ~HasOpen' /\ Handed' = 0
  BY <1>1 DEF At, Ahead, HasOpen, Handed
<1>3. CallShape'
  BY <1>1, <1>2 DEF CallShape
<1>4. StepsReady'
  BY <1>1, <1>2 DEF StepsReady
<1>5. CountsAgree'
  <2>1. ~HasOpen
    BY <1>1 DEF HasOpen
  <2>2. CountsAgree
    BY DEF Inv
  <2> QED BY <1>1, <1>2, <2>1, <2>2 DEF CountsAgree
<1>6. ListInOrder' /\ OneCopyPerBlock'
  BY <1>1 DEF ListInOrder, OneCopyPerBlock
<1>7. CacheFollows'
  <2>1. CacheFollows
    BY DEF Inv
  <2>2. \A b \in Block : ~cache[b].dirty /\ cache[b].func = 0
    BY <1>1, <2>1 DEF CacheFollows
  <2> QED BY <1>1, <1>2, <2>2 DEF CacheFollows
<1>8. HashFollows'
  <2>1. \A b \in Block : EntryOK(b, hash[b], IsIn(b, newBlocks), nextId)
    BY HashIs DEF Inv
  <2>2. \A b \in Block : EntryOK(b, hash'[b], IsIn(b, newBlocks'), nextId')
    BY <2>1
  <2> QED BY <1>1, <2>2 DEF HashFollows, EntryOK, IsIn
<1> QED BY <1>3, <1>4, <1>5, <1>6, <1>7, <1>8 DEF Inv

\* A mount that finds the log at its start keeps the invariant.
LEMMA MountInv ==
  ASSUME Inv, nLoggStart' = 1, afs_mount
  PROVE  Inv'
<1>1. /\ mode = "down" /\ sb' = superblock /\ nLoggStart' = superblock.start
      /\ mode' = IF superblock.valid = 0 THEN "mounted" ELSE "replay"
      /\ replay' = [pos |-> superblock.start, left |-> superblock.valid, idx |-> <<>>]
      /\ UNCHANGED <<disk, superblock, trans, nOldBlockCount, nPendingLog, newBlocks, hash,
                     started, leave, fileBlocks, nextId, todo, cache, nCalls, nCrash>>
  BY DEF afs_mount
<1>2. ~InMemoryState
  BY <1>1 DEF InMemoryState
<1>3. trans' = <<>> /\ newBlocks' = <<>> /\ todo' = <<>> /\ ~started'
  BY <1>1, <1>2 DEF Inv, NothingInMemory
<1>4. superblock \in [start : Nat, valid : Nat] /\ superblock.start \in Nat /\ superblock.valid \in Nat
  BY DEF Inv, TypeOK
<1>5. TypeOK'
  <2>1. replay' \in [pos : Nat, left : Int, idx : Seq(Block)]
    BY <1>1, <1>4
  <2>2. nLoggStart' \in Nat /\ sb' \in [start : Nat, valid : Nat]
    BY <1>1, <1>4
  <2>3. mode' \in {"mounted", "down", "replay", "panic in callback", "panic in log"}
    BY <1>1
  <2> QED BY <1>1, <2>1, <2>2, <2>3 DEF Inv, TypeOK
<1>6. LogInPlace'
  <2>0. InMemoryState' => superblock.valid = 0
    BY <1>1 DEF InMemoryState
  <2>1. LogSums(trans')[1] = 0
    <3>1. trans' \in Seq(Transaction)
      BY <1>5 DEF TypeOK
    <3> QED BY <3>1, SumsStep
  <2>2. ~HasOpen' /\ Len(trans') = 0 /\ 0 + 1 = 1 /\ ~At("super")'
    BY <1>3 DEF HasOpen, At
  <2> QED BY <1>1, <1>3, <2>0, <2>1, <2>2 DEF LogInPlace
<1>7. NothingInMemory'
  <2>1. replay'.pos = nLoggStart' /\ nLoggStart' \in nLoggStart'..nLoggEnd'
    BY <1>1, <1>4, SizesIs DEF nLoggEnd
  <2> QED BY <1>3, <2>1 DEF NothingInMemory
<1> QED BY <1>1, <1>2, <1>5, <1>6, <1>7, DownInv

\* A step of the replay keeps the invariant.
LEMMA ReplayInv ==
  ASSUME Inv, nLoggStart = 1, afs_replay_log
  PROVE  Inv'
<1>1. /\ mode = "replay"
      /\ UNCHANGED <<superblock, mode, nLoggStart, sb, trans, nOldBlockCount, nPendingLog, newBlocks,
                     hash, started, leave, fileBlocks, nextId, todo, cache, nCalls, nCrash>>
  BY DEF afs_replay_log, volume
<1>2. ~InMemoryState /\ ~InMemoryState'
  BY <1>1 DEF InMemoryState
<1>3. trans' = <<>> /\ newBlocks' = <<>> /\ todo' = <<>> /\ ~started'
  BY <1>1, <1>2 DEF Inv, NothingInMemory
<1>4. /\ replay.pos \in 1..LogSize /\ nLoggEnd = LogSize /\ nLoggEnd' = LogSize
      /\ replay.left \in Int /\ replay.idx \in Seq(Block)
      /\ disk \in [Addr -> [val : Int, idx : Seq(Block)]]
  <2>1. replay.pos \in nLoggStart..nLoggEnd
    BY <1>1 DEF Inv, NothingInMemory
  <2>2. nLoggEnd = LogSize /\ nLoggEnd' = LogSize
    BY <1>1, PosHere DEF nLoggEnd
  <2>3. /\ replay \in [pos : Nat, left : Int, idx : Seq(Block)]
        /\ disk \in [Addr -> [val : Int, idx : Seq(Block)]]
    BY DEF Inv, TypeOK
  <2> QED BY <2>1, <2>2, <2>3
<1>5. replay.pos \in Addr /\ disk[replay.pos] \in [val : Int, idx : Seq(Block)]
  BY <1>4, AddrIs
<1>6. disk[replay.pos].idx \in Seq(Block)
  BY <1>5
<1>7. LogPos(replay.pos, nLoggStart, nLoggEnd, 1) \in 1..LogSize
  <2>1. LogPos(replay.pos, nLoggStart, nLoggEnd, 1) = Pos(replay.pos, 1)
    BY PosHere
  <2>2. 1 \in 0..LogSize
    BY SizesIs
  <2> QED BY <1>4, <2>1, <2>2, PosIn
<1>8. /\ replay'.pos \in 1..LogSize
      /\ replay' \in [pos : Nat, left : Int, idx : Seq(Block)]
      /\ disk' \in [Addr -> [val : Int, idx : Seq(Block)]]
  <2>1. CASE /\ replay.idx = <<>> /\ replay.left > 0
             /\ replay' = [pos  |-> LogPos(replay.pos, nLoggStart, nLoggEnd, 1),
                           left |-> replay.left - 1,
                           idx  |-> disk[replay.pos].idx]
             /\ UNCHANGED disk
    BY <1>4, <1>6, <1>7, <2>1
  <2>2. CASE /\ replay.idx # <<>>
             /\ replay' = [pos  |-> LogPos(replay.pos, nLoggStart, nLoggEnd, 1),
                           left |-> replay.left - 1,
                           idx  |-> Tail(replay.idx)]
             /\ disk' = [disk EXCEPT ![Head(replay.idx)] = disk[replay.pos]]
    <3>1. Tail(replay.idx) \in Seq(Block)
      BY <1>4, <2>2
    <3>2. disk' \in [Addr -> [val : Int, idx : Seq(Block)]]
      BY <1>4, <1>5, <2>2
    <3> QED BY <1>4, <1>7, <2>2, <3>1, <3>2
  <2> QED BY <2>1, <2>2 DEF afs_replay_log
<1>9. TypeOK'
  BY <1>1, <1>8 DEF Inv, TypeOK
<1>10. LogInPlace'
  BY <1>2 DEF LogInPlace
<1>11. NothingInMemory'
  BY <1>1, <1>3, <1>4, <1>8 DEF NothingInMemory
<1> QED BY <1>1, <1>2, <1>9, <1>10, <1>11, DownInv

\* The end of the replay keeps the invariant.
LEMMA ReplayDoneInv ==
  ASSUME Inv, nLoggStart = 1, replay_done
  PROVE  Inv'
<1>1. /\ mode = "replay" /\ mode' = "mounted"
      /\ sb' = [start |-> nLoggStart, valid |-> 0] /\ superblock' = sb'
      /\ replay' = [pos |-> 0, left |-> 0, idx |-> <<>>]
      /\ UNCHANGED <<disk, nLoggStart, trans, nOldBlockCount, nPendingLog, newBlocks, hash,
                     started, leave, fileBlocks, nextId, todo, cache, nCalls, nCrash>>
  BY DEF replay_done
<1>2. ~InMemoryState
  BY <1>1 DEF InMemoryState
<1>3. trans' = <<>> /\ newBlocks' = <<>> /\ todo' = <<>> /\ ~started'
  BY <1>1, <1>2 DEF Inv, NothingInMemory
<1>4. TypeOK'
  <2>1. replay' \in [pos : Nat, left : Int, idx : Seq(Block)]
    BY <1>1
  <2>2. sb' \in [start : Nat, valid : Nat] /\ superblock' \in [start : Nat, valid : Nat]
    BY <1>1
  <2>3. mode' \in {"mounted", "down", "replay", "panic in callback", "panic in log"}
    BY <1>1
  <2> QED BY <1>1, <2>1, <2>2, <2>3 DEF Inv, TypeOK
<1>5. LogInPlace'
  <2>1. LogSums(trans')[1] = 0
    <3>1. trans' \in Seq(Transaction)
      BY <1>4 DEF TypeOK
    <3> QED BY <3>1, SumsStep
  <2>2. ~HasOpen' /\ Len(trans') = 0 /\ 0 + 1 = 1 /\ ~At("super")'
    BY <1>3 DEF HasOpen, At
  <2>3. superblock'.start = nLoggStart' /\ superblock'.valid = 0
    BY <1>1
  <2> QED BY <1>1, <1>3, <2>1, <2>2, <2>3 DEF LogInPlace
<1>6. NothingInMemory'
  BY <1>1, <1>3 DEF NothingInMemory, InMemoryState
<1> QED BY <1>1, <1>2, <1>4, <1>5, <1>6, DownInv
-----------------------------------------------------------------------------
(* The invariant of the journal.                                           *)

\* A formatted volume has the invariant.
LEMMA InitInv ==
  ASSUME Init
  PROVE  Inv
<1>1. /\ disk = [a \in Addr |-> Data(0)]
      /\ superblock = [start |-> 1, valid |-> 0]
      /\ mode = "mounted" /\ nLoggStart = 1 /\ sb = superblock
      /\ leave = [blk |-> 0, run |-> 0, got |-> {}]
      /\ replay = [pos |-> 0, left |-> 0, idx |-> <<>>]
      /\ fileBlocks = {} /\ nextId = 1 /\ nCalls = 0 /\ nCrash = 0
  BY DEF Init
<1>2. NothingHeld
  BY DEF Init, NothingHeld
<1>3. /\ trans = <<>> /\ newBlocks = <<>> /\ todo = <<>> /\ started = FALSE
      /\ nOldBlockCount = 0 /\ nPendingLog = 0
      /\ hash = [b \in Block |-> NoEntry] /\ cache = [b \in Block |-> Clean]
  BY DEF Init
<1>4. TypeOK
  <2>1. disk \in [Addr -> [val : Int, idx : Seq(Block)]]
    <3>1. Data(0) \in [val : Int, idx : Seq(Block)]
      BY DEF Data
    <3> QED BY <1>1, <3>1
  <2>2. hash \in [Block -> Entry]
    BY <1>3, NoEntryIs
  <2>3. cache \in [Block -> [dirty : BOOLEAN, val : Nat, func : Nat]]
    BY <1>3 DEF Clean
  <2>4. leave \in [blk : {0} \cup Block, run : 0..3, got : SUBSET Block]
    BY <1>1
  <2>5. replay \in [pos : Nat, left : Int, idx : Seq(Block)]
    BY <1>1
  <2>6. trans \in Seq(Transaction)
    BY <1>3
  <2>7. newBlocks \in Seq(Block) /\ todo \in Seq(StepNames)
    BY <1>3
  <2>8. superblock \in [start : Nat, valid : Nat] /\ sb \in [start : Nat, valid : Nat]
    BY <1>1
  <2>9. /\ fileBlocks \subseteq Block /\ started \in BOOLEAN /\ nLoggStart \in Nat
        /\ nOldBlockCount \in Nat /\ nPendingLog \in Nat
        /\ nextId \in Nat \ {0} /\ nCalls \in Nat /\ nCrash \in Nat
    <3>1. /\ fileBlocks = {} /\ started = FALSE /\ nLoggStart = 1 /\ nOldBlockCount = 0
          /\ nPendingLog = 0 /\ nextId = 1 /\ nCalls = 0 /\ nCrash = 0
      BY <1>1, <1>3
    <3>2. started \in BOOLEAN /\ fileBlocks \subseteq Block
      BY <3>1, Zenon
    <3>3. /\ nLoggStart \in Nat /\ nOldBlockCount \in Nat /\ nPendingLog \in Nat
          /\ nextId \in Nat \ {0} /\ nCalls \in Nat /\ nCrash \in Nat
      <4>1. /\ nLoggStart = 1 /\ nOldBlockCount = 0 /\ nPendingLog = 0
            /\ nextId = 1 /\ nCalls = 0 /\ nCrash = 0
        BY <3>1
      <4> QED BY <4>1
    <3> QED BY <3>2, <3>3
  <2>10. mode \in {"mounted", "down", "replay", "panic in callback", "panic in log"}
    BY <1>1
  <2> QED BY <2>1, <2>2, <2>3, <2>4, <2>5, <2>6, <2>7, <2>8, <2>9, <2>10 DEF TypeOK
<1>5. LogInPlace
  <2>1. LogSums(trans)[1] = 0
    <3>1. trans \in Seq(Transaction)
      BY <1>4 DEF TypeOK
    <3> QED BY <3>1, SumsStep
  <2>2. ~HasOpen /\ Len(trans) = 0 /\ 0 + 1 = 1 /\ ~At("super")
    BY <1>3 DEF HasOpen, At
  <2>3. superblock.start = nLoggStart /\ superblock.valid = 0
    BY <1>1
  <2> QED BY <1>1, <1>3, <2>1, <2>2, <2>3 DEF LogInPlace
<1>6. NothingInMemory
  BY <1>1, <1>3 DEF NothingInMemory, InMemoryState
<1> QED BY <1>2, <1>4, <1>5, <1>6, HeldIs DEF Inv

\* A step that changes nothing keeps the invariant.
LEMMA StutterInv ==
  ASSUME Inv, UNCHANGED vars
  PROVE  Inv'
<1>1. UNCHANGED <<disk, superblock, mode, nLoggStart, sb, trans, nOldBlockCount, nPendingLog, newBlocks,
                  hash, started, leave, fileBlocks, nextId, todo, replay, cache, nCalls, nCrash>>
  BY DEF vars, volume
<1>2. TypeOK'
  BY <1>1 DEF Inv, TypeOK
<1>3. CallShape' /\ StepsReady'
  BY <1>1 DEF Inv, CallShape, StepsReady, Ahead, At, HasOpen, Current, Oldest, NeedsDisk
<1>4. CountsAgree' /\ ListInOrder' /\ OneCopyPerBlock'
  BY <1>1 DEF Inv, CountsAgree, ListInOrder, OneCopyPerBlock, HasOpen, Current, nLoggEnd
<1>5. CacheFollows'
  BY <1>1 DEF Inv, CacheFollows, Handed, At, Oldest, CachedRead
<1>6. HashFollows'
  BY <1>1 DEF Inv, HashFollows, Holds, Newest
<1>7. LogInPlace' /\ NothingInMemory'
  BY <1>1 DEF Inv, LogInPlace, NothingInMemory, InMemoryState, HasOpen, Current, Oldest, At, InLog, nLoggEnd
<1> QED BY <1>2, <1>3, <1>4, <1>5, <1>6, <1>7 DEF Inv

\* Every step keeps the invariant, as long as the log is where the format put it.
LEMMA NextInv ==
  ASSUME Inv, nLoggStart = 1, nLoggStart' = 1, [Next]_vars
  PROVE  Inv'
<1>1. CASE FileSystemCall
  <2>1. CASE afs_begin_transaction
    BY <2>1, BeginInv
  <2>2. CASE \E b \in Block : afs_logged_write(b)
    BY <2>2, WriteInv
  <2>3. CASE \E bSubmitChanges \in BOOLEAN : afs_end_transaction(bSubmitChanges)
    BY <2>3, EndInv
  <2>4. CASE afs_checkpoint_journal
    BY <2>4, CheckpointInv
  <2>5. CASE \E b \in Block : afs_wait_for_block_to_leave_log(b)
    BY <2>5, WaitLeaveInv
  <2>6. CASE afs_sync \/ afs_unmount
    BY <2>6, SyncInv
  <2> QED BY <1>1, <2>1, <2>2, <2>3, <2>4, <2>5, <2>6 DEF FileSystemCall
<1>2. CASE afs_journal_flusher
  BY <1>2, FlusherInv
<1>3. CASE CallStep
  <2>1. CASE flush_device_cache \/ afs_force_flush_transaction
    BY <2>1, FlushesInv
  <2>2. CASE write_log_blocks
    BY <2>2, LogInv
  <2>3. CASE write_log_superblock
    BY <2>3, SuperInv
  <2>4. CASE write_logged_blocks
    BY <2>4, HandOverInv
  <2>5. CASE count_written_block
    BY <2>5, CountInv
  <2>6. CASE written_to_disk
    BY <2>6, WrittenInv
  <2>7. CASE afs_discard_flushed_journal_entries
    BY <2>7, DiscardInv
  <2>8. CASE afs_wait_for_log_space
    BY <2>8, SpaceInv
  <2>9. CASE wait_for_block_to_leave_log_round
    BY <2>9, LeaveRoundInv
  <2>10. CASE create_next_transaction
    BY <2>10, CreateNextInv
  <2>11. CASE afs_merge_transactions
    BY <2>11, MergeInv
  <2>12. CASE merge_fails
    BY <2>12, MergeFailsInv
  <2>13. CASE afs_discard_transactions
    BY <2>13, RevertInv
  <2>14. CASE transaction_ended
    BY <2>14, EndedInv
  <2>15. CASE unmounted
    BY <2>15, StoppedInv
  <2> QED BY <1>3, <2>1, <2>2, <2>3, <2>4, <2>5, <2>6, <2>7, <2>8, <2>9, <2>10, <2>11, <2>12,
             <2>13, <2>14, <2>15 DEF CallStep
<1>4. CASE \E b \in Block : cache_flusher(b)
  BY <1>4, FlushesInv
<1>5. CASE Mount
  BY <1>5, MountInv, ReplayInv, ReplayDoneInv DEF Mount
<1>6. CASE Crash \/ CrashInLogWrite
  BY <1>6, StoppedInv
<1>7. CASE UNCHANGED vars
  BY <1>7, StutterInv
<1> QED BY <1>1, <1>2, <1>3, <1>4, <1>5, <1>6, <1>7 DEF Next

\* In every state of the journal the lists, the counters, the hash table, the
\* cache and the log on disk agree as Inv says, as long as a mount finds the
\* log where the format put it.
THEOREM JournalInvariant == Spec /\ []LogStaysInItsArea => []Inv
<1>1. Init => Inv
  BY InitInv
<1>2. Inv /\ [Next]_vars /\ LogStaysInItsArea /\ LogStaysInItsArea' => Inv'
  BY NextInv DEF LogStaysInItsArea
<1> QED BY <1>1, <1>2, PTL DEF Spec

\* The valid range that the superblock on disk gives is exactly the logged
\* transactions that are not yet in place, in their order, under the same
\* condition: a mount replays what it must and nothing else.
THEOREM LogKeepsUnflushed == Spec /\ []LogStaysInItsArea => []LogHoldsUnflushed
<1>1. Inv /\ LogStaysInItsArea => LogHoldsUnflushed
  BY InvLog DEF LogStaysInItsArea
<1> QED BY <1>1, JournalInvariant, PTL
=============================================================================
