---------------------------- MODULE FlockProofs ------------------------------
(***************************************************************************)
(* Proofs about Flock for any number of threads and files and any requests *)
(* whose range is not empty.                                               *)
(*                                                                         *)
(* The first half is about one list: where insert_lock cuts it (Before,    *)
(* After), that both sides of the hole are in order and clear of the range *)
(* (Halves), that this stays so when the new lock grows into its           *)
(* neighbours (Grown), and what that does to the rings of waiters (Rings)  *)
(* and to single bytes (Holds).  The second half is about the actions: who *)
(* waits for whom after a step (Shifts), hence Inv and NoDeadlock          *)
(* together (Ordered), and which bytes change, hence the refinement.       *)
(***************************************************************************)
EXTENDS Flock, SequenceTheorems, WellFoundedInduction, TLAPS

-----------------------------------------------------------------------------
(* Numbers.                                                                *)

\* Every set of naturals that is not empty has a least element.
LEMMA Least ==
  ASSUME NEW T \in SUBSET Nat, T # {}
  PROVE  \E x \in T : \A y \in T : x <= y
<1>1. PICK x \in T : \A y \in T : ~(<<y, x>> \in OpToRel(<, Nat))
  BY NatLessThanWellFounded, WFMin
<1>2. \A y \in T : ~(y < x)
  BY <1>1 DEF OpToRel
<1> QED BY <1>2

\* Every set of positions that is not empty has a least and a greatest element.
LEMMA LeastPosition ==
  ASSUME NEW m \in Nat, NEW T \in SUBSET (1..m), T # {}
  PROVE  /\ (CHOOSE k \in T : \A j \in T : k <= j) \in T
         /\ \A j \in T : (CHOOSE k \in T : \A j_1 \in T : k <= j_1) <= j
<1>1. \E x \in T : \A y \in T : x <= y
  BY Least
<1> QED BY <1>1

\* Every set of positions that is not empty has a last one.
LEMMA GreatestPosition ==
  ASSUME NEW m \in Nat, NEW T \in SUBSET (1..m), T # {}
  PROVE  /\ (CHOOSE k \in T : \A j \in T : j <= k) \in T
         /\ \A j \in T : j <= (CHOOSE k \in T : \A j_1 \in T : j_1 <= k)
<1> DEFINE D == {d \in Nat : m - d \in T}
<1>1. D # {}
  <2>1. PICK x \in T : TRUE
    OBVIOUS
  <2>2. m - x \in D
    BY <2>1
  <2> QED BY <2>2
<1>2. PICK d \in D : \A e \in D : d <= e
  BY <1>1, Least
<1>3. \A y \in T : y <= m - d
  <2>1. TAKE y \in T
  <2>2. m - y \in Nat /\ m - (m - y) = y
    OBVIOUS
  <2>3. m - y \in D
    BY <2>2
  <2> QED BY <1>2, <2>3
<1>4. \E x \in T : \A y \in T : y <= x
  BY <1>2, <1>3
<1> QED BY <1>4

-----------------------------------------------------------------------------
(* Where insert_lock cuts the list L of a file for the range n.            *)

IsRange(n) ==
  n.owner \in Threads /\ n.start \in Offsets /\ n.end \in Offsets /\ n.start <= n.end

\* The fields of a lock in a list, with their types.
LEMMA LockFields ==
  ASSUME NEW L \in Seq(Lock), NEW k \in 1..Len(L)
  PROVE  /\ L[k] \in Lock /\ L[k].owner \in Threads /\ L[k].mode \in {"F_RDLCK", "F_WRLCK"}
         /\ L[k].start \in Int /\ L[k].end \in Int /\ L[k].waiters \in SUBSET Threads
         /\ L[k].start \in Offsets /\ L[k].end \in Offsets
<1>1. L[k] \in Lock
  OBVIOUS
<1> QED BY <1>1, FlockTypes DEF Lock, Offsets

\* The owner's locks before the point of insertion start before n, those after
\* it do not, and no other owner has locks on both sides.
LEMMA BeforeCuts ==
  ASSUME NEW L \in Seq(Lock), Sorted(L), NEW n, IsRange(n)
  PROVE  /\ Before(L, n) \in 0..Len(L)
         /\ \A k \in 1..Before(L, n) : L[k].owner = n.owner =>
              L[k].start < n.start /\ L[Before(L, n)].owner = n.owner
         /\ \A k \in 1..Before(L, n) : k # Before(L, n) /\ L[k].owner = n.owner => L[k].end < n.start
         /\ \A k \in (Before(L, n) + 1)..Len(L) : L[k].owner = n.owner => n.start <= L[k].start
         /\ \A k \in (Before(L, n) + 1)..Len(L) : L[k].owner = n.owner =>
              \A j \in (Before(L, n) + 1)..k : L[j].owner = n.owner
         /\ \A j \in 1..Before(L, n), k \in (Before(L, n) + 1)..Len(L) :
              L[j].owner = L[k].owner => L[j].owner = n.owner
<1> DEFINE Mine == {k \in 1..Len(L) : L[k].owner = n.owner}
           Left == {k \in Mine : L[k].start <= n.end /\ L[k].start < n.start}
           p    == Before(L, n)
<1>0. Len(L) \in Nat /\ n.start \in Int /\ n.end \in Int /\ n.start <= n.end
  BY FlockTypes DEF IsRange, Offsets
<1>1. \A k \in 1..Len(L) : L[k].start \in Int /\ L[k].end \in Int /\ L[k].start <= L[k].end
  BY LockFields DEF Sorted
<1>2. \A j, k \in 1..Len(L) : j < k /\ L[j].owner = L[k].owner =>
        L[j].end < L[k].start /\ \A h \in j..k : L[h].owner = L[j].owner
  BY DEF Sorted
<1>3. CASE Left # {}
  <2>1. p = CHOOSE k \in Left : \A j \in Left : j <= k
    BY <1>3 DEF Before
  <2>2. p \in Left /\ \A j \in Left : j <= p
    <3>1. Left \in SUBSET (1..Len(L))
      OBVIOUS
    <3> HIDE DEF Left, p
    <3> QED BY <1>0, <1>3, <2>1, <3>1, GreatestPosition
  <2>3. \A k \in 1..Len(L) : L[k].owner = n.owner => (k <= p <=> L[k].start < n.start)
    <3>1. TAKE k \in 1..Len(L)
    <3>2. HAVE L[k].owner = n.owner
    <3>3. CASE k <= p
      <4>1. k = p \/ L[k].end < L[p].start
        BY <1>2, <2>2, <3>2, <3>3
      <4> QED BY <1>1, <2>2, <3>3, <4>1, <1>0
    <3>4. CASE ~(k <= p)
      <4>1. k \notin Left
        BY <2>2, <3>4
      <4> QED BY <1>0, <1>1, <3>2, <3>4, <4>1
    <3> QED BY <3>3, <3>4
  <2>4. p \in 1..Len(L) /\ L[p].owner = n.owner
    BY <2>2
  <2>5. \A k \in 1..p : k # p /\ L[k].owner = n.owner => L[k].end < n.start
    BY <1>0, <1>1, <1>2, <2>2, <2>4
  <2>6. \A j \in 1..p, k \in (p + 1)..Len(L) : L[j].owner = L[k].owner => L[j].owner = n.owner
    BY <1>0, <1>2, <2>4
  <2>7. \A k \in (p + 1)..Len(L) : L[k].owner = n.owner => \A j \in (p + 1)..k : L[j].owner = n.owner
    BY <1>0, <1>2, <2>4
  <2> HIDE DEF p
  <2>8. \A k \in 1..p : k \in 1..Len(L)
    BY <2>4, <1>0
  <2>9. \A k \in (p + 1)..Len(L) : k \in 1..Len(L) /\ ~(k <= p)
    BY <2>4, <1>0
  <2>10. \A k \in (p + 1)..Len(L) : L[k].owner = n.owner => n.start <= L[k].start
    BY <1>0, <1>1, <2>3, <2>9
  <2>11. \A k \in 1..p : L[k].owner = n.owner => L[k].start < n.start /\ L[p].owner = n.owner
    BY <2>3, <2>4, <2>8
  <2> QED BY <2>4, <2>5, <2>6, <2>7, <2>10, <2>11, <1>0 DEF p
<1>4. CASE Left = {} /\ Mine # {}
  <2> DEFINE c == CHOOSE k \in Mine : \A j \in Mine : k <= j
  <2>1. p = c - 1
    BY <1>4 DEF Before
  <2>0. c \in Mine /\ (\A j \in Mine : c <= j) /\ c \in 1..Len(L)
    <3>1. Mine \in SUBSET (1..Len(L))
      OBVIOUS
    <3>2. /\ (CHOOSE k \in Mine : \A j \in Mine : k <= j) \in Mine
          /\ \A j \in Mine : (CHOOSE k \in Mine : \A j_1 \in Mine : k <= j_1) <= j
      <4> HIDE DEF Mine, p, Left
      <4> QED BY <1>0, <1>4, <3>1, LeastPosition
    <3> QED BY <3>1, <3>2
  <2> HIDE DEF c, p
  <2>2. c = p + 1 /\ p \in 0..Len(L) /\ p + 1 \in 1..Len(L)
    BY <2>0, <2>1, <1>0
  <2>3. p \in 0..Len(L) /\ p + 1 \in 1..Len(L) /\ p + 1 \in Mine /\ \A j \in Mine : p + 1 <= j
    BY <2>0, <2>2
  <2>4. \A k \in 1..p : L[k].owner # n.owner
    BY <2>3, <1>0
  <2>5. \A k \in 1..Len(L) : L[k].owner = n.owner => n.start <= L[k].start
    BY <1>0, <1>1, <1>4
  <2>6. L[p + 1].owner = n.owner
    BY <2>3
  <2>7. \A k \in (p + 1)..Len(L) : L[k].owner = n.owner => \A j \in (p + 1)..k : L[j].owner = n.owner
    BY <1>2, <2>3, <2>6
  <2>8. \A j \in 1..p, k \in (p + 1)..Len(L) : L[j].owner = L[k].owner => L[j].owner = n.owner
    BY <1>2, <2>3, <2>6
  <2>9. \A k \in (p + 1)..Len(L) : k \in 1..Len(L)
    BY <2>3
  <2> QED BY <2>3, <2>4, <2>5, <2>7, <2>8, <2>9 DEF p
<1>5. CASE Mine = {}
  <2>1. p = Len(L)
    BY <1>5 DEF Before
  <2>2. \A k \in 1..Len(L) : L[k].owner # n.owner
    BY <1>5
  <2> QED BY <1>0, <2>1, <2>2
<1> QED BY <1>3, <1>4, <1>5

\* The owner's locks behind the hole end behind n, and but for the first of them
\* start behind it.
LEMMA AfterCuts ==
  ASSUME NEW L \in Seq(Lock), Sorted(L), NEW n, IsRange(n)
  PROVE  /\ After(L, n) \in Before(L, n)..Len(L)
         /\ \A k \in (Before(L, n) + 1)..After(L, n) : Covered(L[k], n)
         /\ \A k \in (After(L, n) + 1)..Len(L) : L[k].owner = n.owner => n.end < L[k].end
         /\ \A k \in (After(L, n) + 2)..Len(L) : L[k].owner = n.owner => n.end < L[k].start
<1> DEFINE p == Before(L, n)
           N == {k \in (p + 1)..Len(L) : ~Covered(L[k], n)}
           Q(k) == /\ \A j \in (p + 1)..k : Covered(L[j], n)
                   /\ k < Len(L) => ~Covered(L[k + 1], n)
<1>0. Len(L) \in Nat /\ n.start \in Int /\ n.end \in Int /\ n.start <= n.end
  BY FlockTypes DEF IsRange, Offsets
<1>1. p \in 0..Len(L)
  BY BeforeCuts
<1>2. \A k \in (p + 1)..Len(L) : L[k].owner = n.owner =>
        n.start <= L[k].start /\ \A j \in (p + 1)..k : L[j].owner = n.owner
  BY BeforeCuts
<1>3. \A k \in 1..Len(L) : L[k].start \in Int /\ L[k].end \in Int /\ L[k].start <= L[k].end
  BY LockFields DEF Sorted
<1>4. \A j, k \in 1..Len(L) : j < k /\ L[j].owner = L[k].owner => L[j].end < L[k].start
  BY DEF Sorted
<1>5. After(L, n) = CHOOSE k \in p..Len(L) : Q(k)
  BY DEF After
<1> HIDE DEF p
<1>6. \E k \in p..Len(L) : Q(k)
  <2>1. CASE N = {}
    <3>1. Q(Len(L))
      BY <1>0, <2>1
    <3> QED BY <1>0, <1>1, <3>1
  <2>2. CASE N # {}
    <3>1. PICK x \in N : \A y \in N : x <= y
      <4>1. N \in SUBSET Nat
        BY <1>0, <1>1
      <4> HIDE DEF N
      <4> QED BY <2>2, <4>1, Least
    <3>2. x - 1 \in p..Len(L) /\ (x - 1) + 1 = x
      BY <1>0, <1>1
    <3>3. Q(x - 1)
      BY <1>0, <1>1, <3>1, <3>2
    <3> QED BY <3>2, <3>3
  <2> QED BY <2>1, <2>2
<1> DEFINE q == After(L, n)
<1>7. q \in p..Len(L) /\ Q(q)
  <2> HIDE DEF Q
  <2> QED BY <1>5, <1>6
<1> HIDE DEF q
<1>8. q \in Int /\ q >= p /\ q <= Len(L)
  BY <1>0, <1>1, <1>7
<1>9. ASSUME NEW k \in (q + 1)..Len(L), L[k].owner = n.owner
      PROVE  n.end < L[k].end /\ (k > q + 1 => n.end < L[k].start)
  <2>1. k \in (p + 1)..Len(L) /\ q + 1 \in (p + 1)..k /\ q + 1 \in (p + 1)..Len(L) /\ k \in 1..Len(L) /\ q + 1 \in 1..Len(L)
    BY <1>0, <1>1, <1>8
  <2>2. L[q + 1].owner = n.owner /\ n.start <= L[q + 1].start
    BY <1>2, <1>9, <2>1
  <2>3. ~Covered(L[q + 1], n)
    BY <1>7, <1>8, <2>1, <1>0
  <2>4. n.end < L[q + 1].end
    BY <1>0, <1>3, <2>1, <2>2, <2>3 DEF Covered, Cut
  <2>5. k > q + 1 => L[q + 1].end < L[k].start
    BY <1>4, <1>9, <2>1, <2>2
  <2> QED BY <1>0, <1>3, <1>8, <2>1, <2>4, <2>5
<1>10. \A k \in (q + 2)..Len(L) : k \in (q + 1)..Len(L) /\ k > q + 1
  BY <1>8, <1>0
<1>11. \A k \in (q + 1)..Len(L) : L[k].owner = n.owner => n.end < L[k].end
  BY <1>9
<1>12. \A k \in (q + 2)..Len(L) : L[k].owner = n.owner => n.end < L[k].start
  BY <1>9, <1>10
<1> QED BY <1>7, <1>11, <1>12 DEF p, q

-----------------------------------------------------------------------------
(* The parts of the list on both sides of the hole.                        *)

\* A lock that is shortened keeps its owner, its mode and its ring.
LEMMA ShortenedIs ==
  ASSUME NEW l \in Lock, l.start <= l.end, NEW n, IsRange(n), ~Covered(l, n)
  PROVE  /\ Shortened(l, n) \in Lock
         /\ Shortened(l, n).owner = l.owner /\ Shortened(l, n).mode = l.mode
         /\ Shortened(l, n).waiters = l.waiters
         /\ ~Cut(l, n) => Shortened(l, n) = l
         /\ Cut(l, n) /\ l.start < n.start =>
              Shortened(l, n).start = l.start /\ Shortened(l, n).end = n.start - 1
         /\ Cut(l, n) /\ ~(l.start < n.start) =>
              Shortened(l, n).start = n.end + 1 /\ Shortened(l, n).end = l.end
<1>0. /\ l.owner \in Threads /\ l.mode \in {"F_RDLCK", "F_WRLCK"} /\ l.waiters \in SUBSET Threads
      /\ l.start \in 0..MaxOffset /\ l.end \in 0..MaxOffset
      /\ l = [owner |-> l.owner, mode |-> l.mode, start |-> l.start, end |-> l.end, waiters |-> l.waiters]
  BY DEF Lock, Offsets
<1>1. MaxOffset \in Nat /\ n.start \in 0..MaxOffset /\ n.end \in 0..MaxOffset /\ n.start <= n.end
  BY FlockTypes DEF IsRange, Offsets
<1>2. CASE ~Cut(l, n)
  BY <1>2 DEF Shortened
<1>3. CASE Cut(l, n) /\ l.start < n.start
  <2>1. Shortened(l, n) = [owner |-> l.owner, mode |-> l.mode, start |-> l.start, end |-> n.start - 1, waiters |-> l.waiters]
    BY <1>0, <1>3 DEF Shortened
  <2>2. n.start - 1 \in 0..MaxOffset
    BY <1>0, <1>1, <1>3
  <2>3. Shortened(l, n) \in Lock
    BY <1>0, <2>1, <2>2 DEF Lock, Offsets
  <2> QED BY <1>3, <2>1, <2>3
<1>4. CASE Cut(l, n) /\ ~(l.start < n.start)
  <2>1. Shortened(l, n) = [owner |-> l.owner, mode |-> l.mode, start |-> n.end + 1, end |-> l.end, waiters |-> l.waiters]
    BY <1>0, <1>4 DEF Shortened
  <2>2. n.end + 1 \in 0..MaxOffset
    <3>1. n.end < l.end
      BY <1>0, <1>1, <1>4 DEF Covered, Cut
    <3> QED BY <1>0, <1>1, <3>1
  <2>3. Shortened(l, n) \in Lock
    BY <1>0, <2>1, <2>2 DEF Lock, Offsets
  <2> QED BY <1>4, <2>1, <2>3
<1> QED BY <1>2, <1>3, <1>4

\* Below: the owner's locks end before n.
LEMMA BelowIs ==
  ASSUME NEW L \in Seq(Lock), Sorted(L), NEW n, IsRange(n)
  PROVE  /\ Below(L, n) \in Seq(Lock) /\ Len(Below(L, n)) = Before(L, n)
         /\ \A k \in 1..Before(L, n) :
              LET a == Below(L, n)[k] IN
              /\ a.owner = L[k].owner /\ a.mode = L[k].mode /\ a.waiters = L[k].waiters
              /\ a.start = L[k].start /\ a.end <= L[k].end /\ a.start <= a.end
              /\ L[k].owner = n.owner => a.end < n.start /\ (a.end = L[k].end \/ a.end = n.start - 1)
              /\ ~Cut(L[k], n) => a = L[k]
<1> DEFINE p == Before(L, n)
<1>0. p \in 0..Len(L) /\ Len(L) \in Nat
  BY BeforeCuts
<1>1. n.start \in Int /\ n.end \in Int /\ n.start <= n.end
  BY FlockTypes DEF IsRange, Offsets
<1>2. ASSUME NEW k \in 1..p
      PROVE  LET a == Shortened(L[k], n) IN
             /\ a \in Lock
             /\ a.owner = L[k].owner /\ a.mode = L[k].mode /\ a.waiters = L[k].waiters
             /\ a.start = L[k].start /\ a.end <= L[k].end /\ a.start <= a.end
             /\ L[k].owner = n.owner => a.end < n.start /\ (a.end = L[k].end \/ a.end = n.start - 1)
             /\ ~Cut(L[k], n) => a = L[k]
  <2>1. k \in 1..Len(L)
    BY <1>0
  <2>2. L[k] \in Lock /\ L[k].start \in Int /\ L[k].end \in Int /\ L[k].start <= L[k].end
    BY <2>1, LockFields DEF Sorted
  <2>3. L[k].owner = n.owner => L[k].start < n.start
    BY BeforeCuts
  <2>4. ~Covered(L[k], n)
    BY <1>1, <2>2, <2>3 DEF Covered, Cut
  <2> DEFINE a == Shortened(L[k], n)
  <2>5. /\ a \in Lock /\ a.owner = L[k].owner /\ a.mode = L[k].mode /\ a.waiters = L[k].waiters
        /\ ~Cut(L[k], n) => a = L[k]
        /\ Cut(L[k], n) /\ L[k].start < n.start => a.start = L[k].start /\ a.end = n.start - 1
    BY <2>2, <2>4, ShortenedIs
  <2> HIDE DEF a
  <2>6. /\ a.start = L[k].start /\ a.end <= L[k].end /\ a.start <= a.end
        /\ L[k].owner = n.owner => a.end < n.start /\ (a.end = L[k].end \/ a.end = n.start - 1)
    <3>1. CASE Cut(L[k], n)
      BY <1>1, <2>2, <2>3, <2>5, <3>1 DEF Cut
    <3>2. CASE ~Cut(L[k], n)
      BY <1>1, <2>2, <2>3, <2>5, <3>2 DEF Cut
    <3> QED BY <3>1, <3>2
  <2> QED BY <2>5, <2>6 DEF a
<1>3. Below(L, n) = [k \in 1..p |-> Shortened(L[k], n)]
  BY DEF Below
<1> HIDE DEF p
<1>4. Below(L, n) \in Seq(Lock) /\ Len(Below(L, n)) = p
  <2>1. Below(L, n) \in [1..p -> Lock]
    BY <1>2, <1>3
  <2>2. p \in Nat
    BY <1>0
  <2> QED BY <2>1, <2>2
<1>5. \A k \in 1..p : Below(L, n)[k] = Shortened(L[k], n)
  BY <1>3
<1> QED BY <1>2, <1>4, <1>5 DEF p

\* Beyond: the owner's locks start behind n.
LEMMA BeyondIs ==
  ASSUME NEW L \in Seq(Lock), Sorted(L), NEW n, IsRange(n)
  PROVE  /\ Beyond(L, n) \in Seq(Lock) /\ Len(Beyond(L, n)) = Len(L) - After(L, n)
         /\ \A k \in 1..(Len(L) - After(L, n)) :
              LET a == Beyond(L, n)[k]
                  l == L[k + After(L, n)]
              IN
              /\ a.owner = l.owner /\ a.mode = l.mode /\ a.waiters = l.waiters
              /\ l.start <= a.start /\ a.end = l.end /\ a.start <= a.end
              /\ l.owner = n.owner => n.end < a.start /\ (a.start = l.start \/ a.start = n.end + 1)
              /\ ~Cut(l, n) => a = l
<1> DEFINE p == Before(L, n)
           q == After(L, n)
<1>0. p \in 0..Len(L) /\ Len(L) \in Nat /\ q \in p..Len(L)
  BY BeforeCuts, AfterCuts
<1>1. n.start \in Int /\ n.end \in Int /\ n.start <= n.end
  BY FlockTypes DEF IsRange, Offsets
<1>2. ASSUME NEW k \in 1..(Len(L) - q)
      PROVE  LET a == Shortened(L[k + q], n)
                 l == L[k + q]
             IN
             /\ a \in Lock
             /\ a.owner = l.owner /\ a.mode = l.mode /\ a.waiters = l.waiters
             /\ l.start <= a.start /\ a.end = l.end /\ a.start <= a.end
             /\ l.owner = n.owner => n.end < a.start /\ (a.start = l.start \/ a.start = n.end + 1)
             /\ ~Cut(l, n) => a = l
  <2> DEFINE l == L[k + q]
             a == Shortened(L[k + q], n)
  <2>1. k + q \in 1..Len(L) /\ k + q \in (p + 1)..Len(L) /\ k + q \in (q + 1)..Len(L)
    BY <1>0
  <2>2. l \in Lock /\ l.start \in Int /\ l.end \in Int /\ l.start <= l.end
    BY <2>1, LockFields DEF Sorted
  <2>3. l.owner = n.owner => n.start <= l.start /\ n.end < l.end
    BY <2>1, BeforeCuts, AfterCuts
  <2>4. ~Covered(l, n)
    BY <1>1, <2>2, <2>3 DEF Covered, Cut
  <2>5. /\ a \in Lock /\ a.owner = l.owner /\ a.mode = l.mode /\ a.waiters = l.waiters
        /\ ~Cut(l, n) => a = l
        /\ Cut(l, n) /\ ~(l.start < n.start) => a.start = n.end + 1 /\ a.end = l.end
    BY <2>2, <2>4, ShortenedIs
  <2> HIDE DEF a, l
  <2>6. /\ l.start <= a.start /\ a.end = l.end /\ a.start <= a.end
        /\ l.owner = n.owner => n.end < a.start /\ (a.start = l.start \/ a.start = n.end + 1)
    <3>1. CASE Cut(l, n)
      BY <1>1, <2>2, <2>3, <2>5, <3>1 DEF Cut
    <3>2. CASE ~Cut(l, n)
      BY <1>1, <2>2, <2>3, <2>5, <3>2 DEF Cut
    <3> QED BY <3>1, <3>2
  <2> QED BY <2>5, <2>6 DEF a, l
<1>3. Beyond(L, n) = [k \in 1..(Len(L) - q) |-> Shortened(L[k + q], n)]
  BY DEF Beyond
<1> HIDE DEF p, q
<1>4. Beyond(L, n) \in Seq(Lock) /\ Len(Beyond(L, n)) = Len(L) - q
  <2>1. Beyond(L, n) \in [1..(Len(L) - q) -> Lock]
    BY <1>2, <1>3
  <2>2. Len(L) - q \in Nat
    BY <1>0
  <2> QED BY <2>1, <2>2
<1>5. \A k \in 1..(Len(L) - q) : Beyond(L, n)[k] = Shortened(L[k + q], n)
  BY <1>3
<1> QED BY <1>2, <1>4, <1>5 DEF q

\* Extra: the upper part of a lock that n splits, the last one below the hole.
LEMMA ExtraIs ==
  ASSUME NEW L \in Seq(Lock), Sorted(L), NEW n, IsRange(n)
  PROVE  /\ Extra(L, n) \in Seq(Lock) /\ Len(Extra(L, n)) \in {0, 1}
         /\ Len(Extra(L, n)) = 0 => ~(Before(L, n) > 0 /\ Split(L[Before(L, n)], n))
         /\ Len(Extra(L, n)) = 1 =>
              LET a == Extra(L, n)[1]
                  l == L[Before(L, n)]
              IN
              /\ Before(L, n) \in 1..Len(L) /\ Split(l, n)
              /\ a.owner = n.owner /\ l.owner = n.owner /\ a.mode = l.mode /\ a.waiters = {}
              /\ a.start = n.end + 1 /\ a.end = l.end /\ a.start <= a.end
<1> DEFINE p == Before(L, n)
           l == L[p]
           a == [owner |-> n.owner, mode |-> l.mode, start |-> n.end + 1, end |-> l.end, waiters |-> {}]
<1>0. p \in 0..Len(L) /\ Len(L) \in Nat
  BY BeforeCuts
<1>1. MaxOffset \in Nat /\ n.start \in 0..MaxOffset /\ n.end \in 0..MaxOffset /\ n.start <= n.end
  BY FlockTypes DEF IsRange, Offsets
<1>2. Extra(L, n) = IF p > 0 /\ Split(l, n) THEN <<a>> ELSE <<>>
  BY DEF Extra
<1>3. CASE ~(p > 0 /\ Split(l, n))
  BY <1>2, <1>3
<1>4. CASE p > 0 /\ Split(l, n)
  <2>1. p \in 1..Len(L)
    BY <1>0, <1>4
  <2>2. /\ l.owner \in Threads /\ l.mode \in {"F_RDLCK", "F_WRLCK"} /\ l.waiters \in SUBSET Threads
        /\ l.start \in 0..MaxOffset /\ l.end \in 0..MaxOffset
    <3>1. l \in Lock
      BY <2>1, LockFields
    <3> QED BY <3>1 DEF Lock, Offsets
  <2> HIDE DEF l
  <2>4. l.owner = n.owner /\ n.end < l.end
    BY <1>4 DEF Split, Cut
  <2>5. n.end + 1 \in 0..MaxOffset
    BY <1>1, <2>2, <2>4
  <2>6. a \in Lock /\ a.owner = n.owner /\ a.mode = l.mode /\ a.waiters = {} /\ a.start = n.end + 1 /\ a.end = l.end
    BY <2>2, <2>4, <2>5 DEF Lock, Offsets
  <2> HIDE DEF a
  <2>7. Extra(L, n) = <<a>>
    BY <1>2, <1>4
  <2>8. Extra(L, n) \in Seq(Lock) /\ Len(Extra(L, n)) = 1 /\ Extra(L, n)[1] = a
    BY <2>6, <2>7
  <2>9. a.start <= a.end
    BY <1>1, <2>2, <2>4, <2>6
  <2> QED BY <1>4, <2>1, <2>4, <2>6, <2>8, <2>9 DEF l
<1> QED BY <1>3, <1>4

\* What the two sides of a hole n are: in order, on their side of n, and no owner
\* but n's on both.
Halves(A, U, n) ==
  /\ A \in Seq(Lock) /\ U \in Seq(Lock) /\ Sorted(A) /\ Sorted(U)
  /\ \A j \in 1..Len(A) : A[j].owner = n.owner =>
       A[j].end < n.start /\ \A h \in j..Len(A) : A[h].owner = n.owner
  /\ \A k \in 1..Len(U) : U[k].owner = n.owner =>
       n.end < U[k].start /\ \A h \in 1..k : U[h].owner = n.owner
  /\ \A j \in 1..Len(A), k \in 1..Len(U) : A[j].owner = U[k].owner => A[j].owner = n.owner

\* The part of a list below a range is sorted, and the owner's locks in it
\* end before the range.
LEMMA BelowSorted ==
  ASSUME NEW L \in Seq(Lock), Sorted(L), NEW n, IsRange(n)
  PROVE  /\ Sorted(Below(L, n))
         /\ \A j \in 1..Len(Below(L, n)) : Below(L, n)[j].owner = n.owner =>
              /\ Below(L, n)[j].end < n.start
              /\ \A h \in j..Len(Below(L, n)) : Below(L, n)[h].owner = n.owner
<1> DEFINE p == Before(L, n)
           A == Below(L, n)
<1>0. p \in 0..Len(L) /\ Len(L) \in Nat /\ A \in Seq(Lock) /\ Len(A) = p
  BY BeforeCuts, BelowIs
<1>1. \A k \in 1..p : /\ A[k].owner = L[k].owner
                      /\ A[k].start = L[k].start /\ A[k].end <= L[k].end /\ A[k].start <= A[k].end
                      /\ L[k].owner = n.owner => A[k].end < n.start
  BY BelowIs
<1>2. \A k \in 1..p : L[k].owner = n.owner => L[p].owner = n.owner
  BY BeforeCuts
<1>3. \A k \in 1..p : A[k].end \in Int /\ L[k].end \in Int /\ L[k].start \in Int
  BY <1>0, LockFields
<1>4. \A j, k \in 1..Len(L) : j < k /\ L[j].owner = L[k].owner =>
        L[j].end < L[k].start /\ \A h \in j..k : L[h].owner = L[j].owner
  BY DEF Sorted
<1> HIDE DEF p, A
<1>5. ASSUME NEW j \in 1..p, NEW k \in 1..p, j < k, A[j].owner = A[k].owner
      PROVE  A[j].end < A[k].start /\ \A h \in j..k : A[h].owner = A[j].owner
  <2>1. j \in 1..Len(L) /\ k \in 1..Len(L) /\ j..k \subseteq 1..p
    BY <1>0
  <2>2. L[j].end < L[k].start /\ \A h \in j..k : L[h].owner = L[j].owner
    BY <1>1, <1>4, <1>5, <2>1
  <2>3. A[j].end < A[k].start
    BY <1>1, <1>3, <2>2
  <2> QED BY <1>1, <2>1, <2>2, <2>3
<1>6. Sorted(A)
  BY <1>0, <1>1, <1>5 DEF Sorted
<1>7. ASSUME NEW j \in 1..p, A[j].owner = n.owner
      PROVE  A[j].end < n.start /\ \A h \in j..p : A[h].owner = n.owner
  <2>1. L[p].owner = n.owner /\ p \in 1..p /\ L[j].owner = n.owner
    BY <1>0, <1>1, <1>2, <1>7
  <2>2. \A h \in j..p : h \in 1..p /\ L[h].owner = n.owner
    BY <1>0, <1>4, <2>1
  <2> QED BY <1>1, <2>1, <2>2
<1> QED BY <1>0, <1>6, <1>7 DEF A

\* Where the locks above the hole come from.
LEMMA AboveIs ==
  ASSUME NEW L \in Seq(Lock), Sorted(L), NEW n, IsRange(n)
  PROVE  /\ Above(L, n) \in Seq(Lock)
         /\ Len(Above(L, n)) = Len(Extra(L, n)) + (Len(L) - After(L, n))
         /\ \A k \in 1..Len(Above(L, n)) : k <= Len(Extra(L, n)) => Above(L, n)[k] = Extra(L, n)[k]
         /\ \A k \in 1..Len(Above(L, n)) : ~(k <= Len(Extra(L, n))) =>
              /\ k - Len(Extra(L, n)) \in 1..(Len(L) - After(L, n))
              /\ Above(L, n)[k] = Beyond(L, n)[k - Len(Extra(L, n))]
<1> DEFINE E == Extra(L, n)
           B == Beyond(L, n)
           q == After(L, n)
<1>1. E \in Seq(Lock) /\ Len(E) \in {0, 1} /\ B \in Seq(Lock) /\ Len(B) = Len(L) - q
  BY ExtraIs, BeyondIs
<1>2. q \in 0..Len(L) /\ Len(L) \in Nat
  BY BeforeCuts, AfterCuts
<1>3. Above(L, n) = E \o B
  BY DEF Above
<1> HIDE DEF E, B, q
<1>4. /\ E \o B \in Seq(Lock) /\ Len(E \o B) = Len(E) + Len(B)
      /\ \A k \in 1..(Len(E) + Len(B)) : (E \o B)[k] = IF k <= Len(E) THEN E[k] ELSE B[k - Len(E)]
  BY <1>1, ConcatProperties
<1>5. \A k \in 1..(Len(E) + Len(B)) : ~(k <= Len(E)) => k - Len(E) \in 1..Len(B)
  BY <1>1, <1>2
<1> QED BY <1>1, <1>3, <1>4, <1>5 DEF E, B, q

\* The part above it is sorted, and the owner's locks in it start after the
\* range.
LEMMA AboveSorted ==
  ASSUME NEW L \in Seq(Lock), Sorted(L), NEW n, IsRange(n)
  PROVE  /\ Sorted(Above(L, n))
         /\ \A k \in 1..Len(Above(L, n)) : Above(L, n)[k].owner = n.owner =>
              /\ n.end < Above(L, n)[k].start
              /\ \A h \in 1..k : Above(L, n)[h].owner = n.owner
<1> DEFINE p == Before(L, n)
           q == After(L, n)
           E == Extra(L, n)
           e == Len(E)
           B == Beyond(L, n)
           U == Above(L, n)
           s == Len(L) - q
<1>0. p \in 0..Len(L) /\ Len(L) \in Nat /\ q \in p..Len(L) /\ e \in {0, 1}
  BY BeforeCuts, AfterCuts, ExtraIs
<1>1. n.start \in Int /\ n.end \in Int /\ n.start <= n.end
  BY FlockTypes DEF IsRange, Offsets
<1>2. /\ U \in Seq(Lock) /\ Len(U) = e + s
      /\ \A k \in 1..(e + s) : k <= e => U[k] = E[k]
      /\ \A k \in 1..(e + s) : ~(k <= e) => k - e \in 1..s /\ U[k] = B[k - e]
  BY AboveIs
<1>3. \A k \in 1..s : /\ B[k].owner = L[k + q].owner
                      /\ L[k + q].start <= B[k].start /\ B[k].end = L[k + q].end /\ B[k].start <= B[k].end
                      /\ L[k + q].owner = n.owner => n.end < B[k].start
  BY BeyondIs
<1>4. e = 1 => /\ p \in 1..Len(L) /\ L[p].owner = n.owner /\ E[1].owner = n.owner
               /\ E[1].start = n.end + 1 /\ E[1].end = L[p].end /\ E[1].start <= E[1].end
  BY ExtraIs
<1>5. \A j, k \in 1..Len(L) : j < k /\ L[j].owner = L[k].owner =>
        L[j].end < L[k].start /\ \A h \in j..k : L[h].owner = L[j].owner
  BY DEF Sorted
<1>6. \A k \in (p + 1)..Len(L) : L[k].owner = n.owner => \A j \in (p + 1)..k : L[j].owner = n.owner
  BY BeforeCuts
<1>7. \A k \in 1..Len(L) : L[k].start \in Int /\ L[k].end \in Int
  BY LockFields
<1>8. \A k \in 1..(e + s) : U[k].start \in Int /\ U[k].end \in Int
  BY <1>2, LockFields
<1> HIDE DEF p, q, E, e, B, U, s
<1>9. s \in Nat /\ s + q = Len(L)
  BY <1>0 DEF s
<1>10. ASSUME NEW k \in 1..(e + s)
       PROVE  /\ k <= e => k = 1 /\ e = 1
              /\ ~(k <= e) => /\ k - e \in 1..s /\ k - e + q \in 1..Len(L) /\ k - e + q \in (p + 1)..Len(L)
                              /\ k - e + q > p
                              /\ U[k].owner = L[k - e + q].owner /\ L[k - e + q].start <= U[k].start
                              /\ U[k].end = L[k - e + q].end /\ U[k].start <= U[k].end
                              /\ L[k - e + q].owner = n.owner => n.end < U[k].start
  <2>1. k <= e => k = 1 /\ e = 1
    BY <1>0, <1>9
  <2>2. ASSUME ~(k <= e)
        PROVE  k - e \in 1..s /\ U[k] = B[k - e] /\ k - e + q \in 1..Len(L) /\ k - e + q \in (p + 1)..Len(L) /\ k - e + q > p
    <3>1. k - e \in 1..s /\ U[k] = B[k - e]
      BY <1>2, <2>2
    <3>2. \A i \in 1..s : i + q \in 1..Len(L) /\ i + q \in (p + 1)..Len(L) /\ i + q > p
      BY <1>0, <1>9
    <3> QED BY <3>1, <3>2
  <2> QED BY <1>3, <2>1, <2>2
<1>11. \A k \in 1..(e + s) : U[k].start <= U[k].end
  BY <1>2, <1>4, <1>10
<1>12. ASSUME NEW k \in 1..(e + s), U[k].owner = n.owner
       PROVE  n.end < U[k].start /\ \A h \in 1..k : U[h].owner = n.owner
  <2>1. CASE k <= e
    <3>1. k = 1 /\ e = 1 /\ U[1] = E[1] /\ 1..k = {1}
      BY <1>2, <1>10, <2>1
    <3> QED BY <1>1, <1>4, <3>1
  <2>2. CASE ~(k <= e)
    <3>1. n.end < U[k].start
      BY <1>10, <1>12, <2>2
    <3>2. ASSUME NEW h \in 1..k PROVE U[h].owner = n.owner
      <4>0. h \in 1..(e + s)
        BY <1>0, <1>9
      <4>1. CASE h <= e
        BY <1>2, <1>4, <1>10, <4>0, <4>1
      <4>2. CASE ~(h <= e)
        <5>1. h - e + q \in (p + 1)..(k - e + q)
          BY <1>0, <1>9, <1>10, <2>2, <4>0, <4>2
        <5>2. L[h - e + q].owner = n.owner
          BY <1>6, <1>10, <1>12, <2>2, <5>1
        <5> QED BY <1>10, <4>0, <4>2, <5>2
      <4> QED BY <4>1, <4>2
    <3> QED BY <3>1, <3>2
  <2> QED BY <2>1, <2>2
<1>13. ASSUME NEW j \in 1..(e + s), NEW k \in 1..(e + s), j < k, U[j].owner = U[k].owner
       PROVE  U[j].end < U[k].start /\ \A h \in j..k : U[h].owner = U[j].owner
  <2>0. ~(k <= e)
    BY <1>0, <1>9, <1>10, <1>13
  <2>1. CASE j <= e
    <3>1. j = 1 /\ e = 1 /\ U[1] = E[1]
      BY <1>2, <1>10, <2>1
    <3>2. U[j].owner = n.owner /\ U[j].end = L[p].end /\ p \in 1..Len(L) /\ L[p].owner = n.owner
      BY <1>4, <3>1
    <3>3. L[p].end < L[k - e + q].start /\ L[k - e + q].start <= U[k].start
      <4>1. L[k - e + q].owner = n.owner /\ k - e + q \in 1..Len(L) /\ p < k - e + q
        BY <1>10, <1>13, <2>0, <3>2
      <4>2. L[k - e + q].start <= U[k].start
        BY <1>10, <2>0
      <4> QED BY <1>5, <3>2, <4>1, <4>2
    <3>4. U[j].end < U[k].start
      BY <1>7, <1>8, <1>10, <2>0, <3>2, <3>3
    <3>5. \A h \in j..k : h \in 1..k
      BY <3>1
    <3> QED BY <1>12, <1>13, <3>2, <3>4, <3>5
  <2>2. CASE ~(j <= e)
    <3>1. j - e + q < k - e + q
      BY <1>0, <1>9, <1>13
    <3>2. /\ L[j - e + q].end < L[k - e + q].start
          /\ \A h \in (j - e + q)..(k - e + q) : L[h].owner = L[j - e + q].owner
      BY <1>5, <1>10, <1>13, <2>0, <2>2, <3>1
    <3>3. U[j].end < U[k].start
      BY <1>7, <1>8, <1>10, <2>0, <2>2, <3>2
    <3>4. ASSUME NEW h \in j..k PROVE U[h].owner = U[j].owner
      <4>0. e \in Nat /\ q \in Nat /\ s \in Nat
        BY <1>0, <1>9
      <4>1. h \in 1..(e + s) /\ ~(h <= e) /\ h - e + q \in (j - e + q)..(k - e + q)
        BY <4>0, <2>2
      <4> QED BY <1>10, <2>2, <3>2, <4>1
    <3> QED BY <3>3, <3>4
  <2> QED BY <2>1, <2>2
<1>14. Sorted(U)
  BY <1>2, <1>11, <1>13 DEF Sorted
<1> QED BY <1>2, <1>12, <1>14 DEF U

\* insert_lock "cuts a hole" for n.
LEMMA HoleHalves ==
  ASSUME NEW L \in Seq(Lock), Sorted(L), NEW n, IsRange(n)
  PROVE  Halves(Below(L, n), Above(L, n), n)
<1> DEFINE p == Before(L, n)
           q == After(L, n)
           e == Len(Extra(L, n))
           A == Below(L, n)
           U == Above(L, n)
<1>0. p \in 0..Len(L) /\ Len(L) \in Nat /\ q \in p..Len(L) /\ e \in {0, 1}
  BY BeforeCuts, AfterCuts, ExtraIs
<1>1. A \in Seq(Lock) /\ Len(A) = p /\ \A k \in 1..p : A[k].owner = L[k].owner
  BY BelowIs
<1>2. /\ U \in Seq(Lock)
      /\ \A k \in 1..Len(U) : k <= e => U[k] = Extra(L, n)[k]
      /\ \A k \in 1..Len(U) : ~(k <= e) => k - e \in 1..(Len(L) - q) /\ U[k] = Beyond(L, n)[k - e]
  BY AboveIs
<1>3. \A k \in 1..(Len(L) - q) : Beyond(L, n)[k].owner = L[k + q].owner
  BY BeyondIs
<1>4. e = 1 => Extra(L, n)[1].owner = n.owner
  BY ExtraIs
<1>5. \A j \in 1..p, k \in (p + 1)..Len(L) : L[j].owner = L[k].owner => L[j].owner = n.owner
  BY BeforeCuts
<1>6. Sorted(A) /\ Sorted(U)
  BY BelowSorted, AboveSorted
<1>7. ASSUME NEW j \in 1..Len(A), NEW k \in 1..Len(U), A[j].owner = U[k].owner
      PROVE  A[j].owner = n.owner
  <2> HIDE DEF p, q, e, A, U
  <2>1. CASE k <= e
    <3>1. k = 1 /\ e = 1
      BY <1>0, <2>1
    <3> QED BY <1>2, <1>4, <1>7, <3>1
  <2>2. CASE ~(k <= e)
    <3>1. U[k].owner = L[(k - e) + q].owner
      BY <1>2, <1>3, <2>2
    <3>2. \A i \in 1..(Len(L) - q) : i + q \in (p + 1)..Len(L)
      BY <1>0
    <3>3. (k - e) + q \in (p + 1)..Len(L)
      BY <1>2, <2>2, <3>2
    <3> QED BY <1>1, <1>5, <1>7, <3>1, <3>3
  <2> QED BY <2>1, <2>2
<1>8. /\ \A j \in 1..Len(A) : A[j].owner = n.owner =>
           A[j].end < n.start /\ \A h \in j..Len(A) : A[h].owner = n.owner
      /\ \A k \in 1..Len(U) : U[k].owner = n.owner =>
           n.end < U[k].start /\ \A h \in 1..k : U[h].owner = n.owner
  BY BelowSorted, AboveSorted
<1> HIDE DEF A, U
<1>9. Halves(A, U, n)
  BY <1>1, <1>2, <1>6, <1>7, <1>8 DEF Halves
<1> QED BY <1>9 DEF A, U

\* The two sides without a lock between them, and with one, are in order.
LEMMA HalvesConcat ==
  ASSUME NEW A, NEW U, NEW n, n.start \in Int, n.end \in Int, n.start <= n.end + 1, Halves(A, U, n)
  PROVE  /\ A \o U \in Seq(Lock) /\ Len(A \o U) = Len(A) + Len(U)
         /\ \A k \in 1..(Len(A) + Len(U)) : (A \o U)[k] = IF k <= Len(A) THEN A[k] ELSE U[k - Len(A)]
         /\ Sorted(A \o U)
<1> DEFINE M == A \o U
           a == Len(A)
           u == Len(U)
<1>0. A \in Seq(Lock) /\ U \in Seq(Lock) /\ a \in Nat /\ u \in Nat /\ Sorted(A) /\ Sorted(U)
  BY DEF Halves
<1>1. M \in Seq(Lock) /\ Len(M) = a + u /\ \A k \in 1..(a + u) : M[k] = IF k <= a THEN A[k] ELSE U[k - a]
  BY <1>0, ConcatProperties
<1>2. /\ \A k \in 1..a : A[k].start \in Int /\ A[k].end \in Int /\ A[k].start <= A[k].end
      /\ \A k \in 1..u : U[k].start \in Int /\ U[k].end \in Int /\ U[k].start <= U[k].end
  BY <1>0, LockFields DEF Sorted
<1>3. /\ \A j, k \in 1..a : j < k /\ A[j].owner = A[k].owner => A[j].end < A[k].start /\ \A h \in j..k : A[h].owner = A[j].owner
      /\ \A j, k \in 1..u : j < k /\ U[j].owner = U[k].owner => U[j].end < U[k].start /\ \A h \in j..k : U[h].owner = U[j].owner
  BY <1>0 DEF Sorted
<1>4. /\ \A j \in 1..a : A[j].owner = n.owner => A[j].end < n.start /\ \A h \in j..a : A[h].owner = n.owner
      /\ \A k \in 1..u : U[k].owner = n.owner => n.end < U[k].start /\ \A h \in 1..k : U[h].owner = n.owner
      /\ \A j \in 1..a, k \in 1..u : A[j].owner = U[k].owner => A[j].owner = n.owner
  BY DEF Halves
<1> HIDE DEF M, a, u
<1>5. \A k \in 1..(a + u) : (k <= a => k \in 1..a /\ M[k] = A[k]) /\ (~(k <= a) => k - a \in 1..u /\ M[k] = U[k - a])
  BY <1>0, <1>1
<1>6. \A k \in 1..(a + u) : M[k].start <= M[k].end
  BY <1>2, <1>5
<1>7. ASSUME NEW j \in 1..(a + u), NEW k \in 1..(a + u), j < k, M[j].owner = M[k].owner
      PROVE  M[j].end < M[k].start /\ \A h \in j..k : M[h].owner = M[j].owner
  <2>0. \A h \in j..k : h \in 1..(a + u) /\ (k <= a => h <= a) /\ (~(j <= a) => ~(h <= a))
    BY <1>0
  <2>1. CASE k <= a
    <3>1. j <= a
      BY <1>0, <1>7, <2>1
    <3>2. A[j].end < A[k].start /\ \A h \in j..k : A[h].owner = A[j].owner
      BY <1>3, <1>5, <1>7, <2>1, <3>1
    <3> QED BY <1>5, <2>0, <2>1, <3>1, <3>2
  <2>2. CASE ~(j <= a)
    <3>1. ~(k <= a) /\ j - a < k - a
      BY <1>0, <1>7, <2>2
    <3>2. U[j - a].end < U[k - a].start /\ \A h \in (j - a)..(k - a) : U[h].owner = U[j - a].owner
      BY <1>3, <1>5, <1>7, <2>2, <3>1
    <3>3. \A h \in j..k : h - a \in (j - a)..(k - a)
      BY <1>0
    <3> QED BY <1>5, <2>0, <2>2, <3>1, <3>2, <3>3
  <2>3. CASE j <= a /\ ~(k <= a)
    <3>1. A[j].owner = n.owner /\ U[k - a].owner = n.owner
      BY <1>4, <1>5, <1>7, <2>3
    <3>2. A[j].end < n.start /\ n.end < U[k - a].start
      BY <1>4, <1>5, <2>3, <3>1
    <3>3. M[j].end < M[k].start
      BY <1>2, <1>5, <2>3, <3>2
    <3>4. ASSUME NEW h \in j..k PROVE M[h].owner = n.owner
      <4>1. CASE h <= a
        <5>1. h \in j..a
          BY <1>0, <4>1
        <5> QED BY <1>4, <1>5, <2>0, <2>3, <3>1, <4>1, <5>1
      <4>2. CASE ~(h <= a)
        <5>1. h - a \in 1..(k - a)
          BY <1>0, <4>2
        <5> QED BY <1>4, <1>5, <2>0, <2>3, <3>1, <4>2, <5>1
      <4> QED BY <4>1, <4>2
    <3> QED BY <1>5, <2>3, <3>1, <3>3, <3>4
  <2> QED BY <2>1, <2>2, <2>3
<1>8. Sorted(M)
  BY <1>1, <1>6, <1>7 DEF Sorted
<1> QED BY <1>1, <1>8 DEF M, a, u

-----------------------------------------------------------------------------
(* insert_lock with a lock in the hole, joined with its neighbours.        *)

\* The lock w, which is n grown by x neighbours below and y above, between what is
\* left of the two sides, A1 and U1.
Grown(A, U, n, x, y, A1, w, U1) ==
  /\ x \in {0, 1} /\ y \in {0, 1}
  /\ A1 \in Seq(Lock) /\ U1 \in Seq(Lock) /\ w \in Lock
  /\ Len(A1) = Len(A) - x /\ \A k \in 1..Len(A1) : A1[k] = A[k]
  /\ Len(U1) = Len(U) - y /\ \A k \in 1..Len(U1) : U1[k] = U[k + y]
  /\ w.owner = n.owner /\ w.mode = n.mode
  /\ x = 0 => w.start = n.start /\ w.waiters = {}
  /\ x = 1 => /\ Len(A) \in 1..Len(A) /\ A[Len(A)].owner = n.owner /\ A[Len(A)].mode = n.mode
              /\ A[Len(A)].end + 1 = n.start
              /\ w.start = A[Len(A)].start /\ w.waiters = A[Len(A)].waiters
  /\ y = 0 => w.end = n.end
  /\ y = 1 => /\ 1 \in 1..Len(U) /\ U[1].owner = n.owner /\ U[1].mode = n.mode
              /\ n.end + 1 = U[1].start /\ w.end = U[1].end

\* A new lock grows by the neighbours it touches, and wakes the waiters of
\* the upper one.
LEMMA JoinedGrows ==
  ASSUME NEW A, NEW U, NEW n \in Lock, n.waiters = {}, Halves(A, U, n)
  PROVE  \E x, y, A1, w, U1 :
           /\ Grown(A, U, n, x, y, A1, w, U1)
           /\ Joined(A, n, U).list = A1 \o <<w>> \o U1
           /\ Joined(A, n, U).wake = IF y = 1 THEN U[1].waiters ELSE {}
<1> DEFINE left  == A # <<>> /\ Joins(A[Len(A)], n)
           right == U # <<>> /\ Joins(n, U[1])
           low   == IF left THEN A[Len(A)] ELSE n
           end   == IF right THEN U[1].end ELSE n.end
           w     == [low EXCEPT !.end = end]
           A1    == IF left THEN SubSeq(A, 1, Len(A) - 1) ELSE A
           U1    == IF right THEN Tail(U) ELSE U
           x     == IF left THEN 1 ELSE 0
           y     == IF right THEN 1 ELSE 0
<1>0. A \in Seq(Lock) /\ U \in Seq(Lock) /\ Len(A) \in Nat /\ Len(U) \in Nat
  BY DEF Halves
<1>1. /\ Joined(A, n, U).list = A1 \o <<w>> \o U1
      /\ Joined(A, n, U).wake = IF right THEN U[1].waiters ELSE {}
  BY DEF Joined
<1>2. left => Len(A) \in 1..Len(A) /\ A[Len(A)] \in Lock
  BY <1>0
<1>3. right => 1 \in 1..Len(U) /\ U[1] \in Lock
  BY <1>0
<1>4. A1 \in Seq(Lock) /\ Len(A1) = Len(A) - x /\ \A k \in 1..Len(A1) : A1[k] = A[k]
  <2>1. CASE left
    <3>1. \A k \in 1..(Len(A) - 1) : A[k] \in Lock
      BY <1>0
    <3>2. A1 = SubSeq(A, 1, Len(A) - 1) /\ x = 1
      BY <2>1
    <3>3. /\ SubSeq(A, 1, Len(A) - 1) \in Seq(Lock)
          /\ Len(SubSeq(A, 1, Len(A) - 1)) = Len(A) - 1
          /\ \A k \in 1..(Len(A) - 1) : SubSeq(A, 1, Len(A) - 1)[k] = A[k]
      <4> DEFINE m == Len(A) - 1
      <4>1. m \in Nat /\ 1 \in Int /\ m \in Int /\ \A k \in 1..m : A[k] \in Lock
        BY <1>0, <1>2, <2>1
      <4> HIDE DEF m
      <4>2. /\ SubSeq(A, 1, m) \in Seq(Lock)
            /\ Len(SubSeq(A, 1, m)) = IF 1 <= m THEN m - 1 + 1 ELSE 0
            /\ \A k \in 1..(m - 1 + 1) : SubSeq(A, 1, m)[k] = A[1 + k - 1]
        BY <4>1, SubSeqProperties
      <4>3. /\ Len(SubSeq(A, 1, m)) = m
            /\ \A k \in 1..m : SubSeq(A, 1, m)[k] = A[k]
        BY <4>1, <4>2
      <4> QED BY <4>2, <4>3 DEF m
    <3> HIDE DEF A1, x
    <3> QED BY <1>0, <3>2, <3>3
  <2>2. CASE ~left
    BY <1>0, <2>2
  <2> QED BY <2>1, <2>2
<1>5. U1 \in Seq(Lock) /\ Len(U1) = Len(U) - y /\ \A k \in 1..Len(U1) : U1[k] = U[k + y]
  <2>1. CASE right
    <3>1. /\ Tail(U) \in Seq(Lock) /\ Len(Tail(U)) = Len(U) - 1
          /\ \A k \in 1..Len(Tail(U)) : Tail(U)[k] = U[k + 1]
      BY <1>0, <2>1, HeadTailProperties
    <3>2. U1 = Tail(U) /\ y = 1
      BY <2>1
    <3> HIDE DEF U1, y
    <3> QED BY <3>1, <3>2
  <2>2. CASE ~right
    <3>1. U1 = U /\ y = 0
      BY <2>2
    <3> HIDE DEF U1, y
    <3>2. \A k \in 1..Len(U) : k + y = k
      BY <1>0, <3>1
    <3> QED BY <1>0, <3>1, <3>2
  <2> QED BY <2>1, <2>2
<1>6. low \in Lock /\ end \in Offsets
  <2>1. low \in Lock
    BY <1>2
  <2>2. end \in Offsets
    BY <1>3 DEF Lock
  <2> QED BY <2>1, <2>2
<1>7. /\ w \in Lock /\ w.owner = low.owner /\ w.mode = low.mode /\ w.start = low.start
      /\ w.waiters = low.waiters /\ w.end = end
  <2> HIDE DEF low, end
  <2> QED BY <1>6 DEF Lock
<1>8. /\ left => A[Len(A)].owner = n.owner /\ A[Len(A)].mode = n.mode /\ A[Len(A)].end + 1 = n.start
      /\ right => n.owner = U[1].owner /\ n.mode = U[1].mode /\ n.end + 1 = U[1].start
  BY DEF Joins
<1>9. Grown(A, U, n, x, y, A1, w, U1)
  <2>1. CASE left /\ right
    <3>1. low = A[Len(A)] /\ end = U[1].end /\ x = 1 /\ y = 1
      BY <2>1
    <3> HIDE DEF w, A1, U1, x, y, low, end, left, right
    <3> QED BY <1>2, <1>3, <1>4, <1>5, <1>7, <1>8, <2>1, <3>1 DEF Grown
  <2>2. CASE left /\ ~right
    <3>1. low = A[Len(A)] /\ end = n.end /\ x = 1 /\ y = 0
      BY <2>2
    <3> HIDE DEF w, A1, U1, x, y, low, end, left, right
    <3> QED BY <1>2, <1>3, <1>4, <1>5, <1>7, <1>8, <2>2, <3>1 DEF Grown
  <2>3. CASE ~left /\ right
    <3>1. low = n /\ end = U[1].end /\ x = 0 /\ y = 1
      BY <2>3
    <3> HIDE DEF w, A1, U1, x, y, low, end, left, right
    <3> QED BY <1>2, <1>3, <1>4, <1>5, <1>7, <1>8, <2>3, <3>1 DEF Grown
  <2>4. CASE ~left /\ ~right
    <3>1. low = n /\ end = n.end /\ x = 0 /\ y = 0
      BY <2>4
    <3> HIDE DEF w, A1, U1, x, y, low, end, left, right
    <3> QED BY <1>2, <1>3, <1>4, <1>5, <1>7, <1>8, <2>4, <3>1 DEF Grown
  <2> QED BY <2>1, <2>2, <2>3, <2>4
<1>10. Joined(A, n, U).wake = IF y = 1 THEN U[1].waiters ELSE {}
  BY <1>1
<1> HIDE DEF w, A1, U1, x, y
<1> QED BY <1>1, <1>9, <1>10

\* What is left of the two sides is on both sides of w.
LEMMA GrownHalves ==
  ASSUME NEW A, NEW U, NEW n \in Lock, n.start <= n.end, Halves(A, U, n),
         NEW x, NEW y, NEW A1, NEW w, NEW U1, Grown(A, U, n, x, y, A1, w, U1)
  PROVE  Halves(A1, U1, w) /\ w.start \in Int /\ w.end \in Int /\ w.start <= n.start /\ n.end <= w.end
<1> DEFINE a == Len(A)
           u == Len(U)
           a1 == Len(A1)
           u1 == Len(U1)
<1>0. /\ A \in Seq(Lock) /\ U \in Seq(Lock) /\ a \in Nat /\ u \in Nat
      /\ A1 \in Seq(Lock) /\ U1 \in Seq(Lock) /\ a1 \in Nat /\ u1 \in Nat
      /\ x \in {0, 1} /\ y \in {0, 1} /\ a1 = a - x /\ u1 = u - y
  BY DEF Halves, Grown
<1>1. n.start \in Int /\ n.end \in Int /\ w.start \in Int /\ w.end \in Int /\ w.owner = n.owner
  BY FlockTypes DEF Lock, Offsets, Grown
<1>2. /\ \A k \in 1..a : A[k].start \in Int /\ A[k].end \in Int /\ A[k].start <= A[k].end
      /\ \A k \in 1..u : U[k].start \in Int /\ U[k].end \in Int /\ U[k].start <= U[k].end
  BY <1>0, LockFields DEF Sorted, Halves
<1>3. /\ \A j, k \in 1..a : j < k /\ A[j].owner = A[k].owner => A[j].end < A[k].start /\ \A h \in j..k : A[h].owner = A[j].owner
      /\ \A j, k \in 1..u : j < k /\ U[j].owner = U[k].owner => U[j].end < U[k].start /\ \A h \in j..k : U[h].owner = U[j].owner
  BY DEF Halves, Sorted
<1>4. /\ \A j \in 1..a : A[j].owner = n.owner => A[j].end < n.start /\ \A h \in j..a : A[h].owner = n.owner
      /\ \A k \in 1..u : U[k].owner = n.owner => n.end < U[k].start /\ \A h \in 1..k : U[h].owner = n.owner
      /\ \A j \in 1..a, k \in 1..u : A[j].owner = U[k].owner => A[j].owner = n.owner
  BY DEF Halves
<1>5. (\A k \in 1..a1 : A1[k] = A[k]) /\ \A k \in 1..u1 : U1[k] = U[k + y]
  BY DEF Grown
<1>6. /\ x = 0 => w.start = n.start
      /\ x = 1 => a \in 1..a /\ A[a].owner = n.owner /\ A[a].end + 1 = n.start /\ w.start = A[a].start
      /\ y = 0 => w.end = n.end
      /\ y = 1 => 1 \in 1..u /\ U[1].owner = n.owner /\ n.end + 1 = U[1].start /\ w.end = U[1].end
  BY DEF Grown
<1> HIDE DEF a, u, a1, u1
<1>7. /\ \A k \in 1..a1 : k \in 1..a /\ (x = 1 => k < a)
      /\ \A k \in 1..u1 : k + y \in 1..u /\ (y = 1 => 1 < k + y)
  BY <1>0
<1>8. w.start <= n.start /\ n.end <= w.end
  BY <1>0, <1>1, <1>2, <1>6
<1>9. Sorted(A1)
  <2>1. \A j, k \in 1..a1 : j < k /\ A1[j].owner = A1[k].owner =>
          A1[j].end < A1[k].start /\ \A h \in j..k : A1[h].owner = A1[j].owner
    <3>1. SUFFICES ASSUME NEW j \in 1..a1, NEW k \in 1..a1, j < k, A1[j].owner = A1[k].owner
                   PROVE  A1[j].end < A1[k].start /\ \A h \in j..k : A1[h].owner = A1[j].owner
      OBVIOUS
    <3>2. \A h \in j..k : h \in 1..a1
      BY <1>0
    <3> QED BY <1>3, <1>5, <1>7, <3>1, <3>2
  <2>2. \A k \in 1..a1 : A1[k].start <= A1[k].end
    BY <1>2, <1>5, <1>7
  <2> QED BY <2>1, <2>2 DEF Sorted, a1
<1>10. Sorted(U1)
  <2>1. \A j, k \in 1..u1 : j < k /\ U1[j].owner = U1[k].owner =>
          U1[j].end < U1[k].start /\ \A h \in j..k : U1[h].owner = U1[j].owner
    <3>1. SUFFICES ASSUME NEW j \in 1..u1, NEW k \in 1..u1, j < k, U1[j].owner = U1[k].owner
                   PROVE  U1[j].end < U1[k].start /\ \A h \in j..k : U1[h].owner = U1[j].owner
      OBVIOUS
    <3>2. j + y < k + y /\ \A h \in j..k : h \in 1..u1 /\ h + y \in (j + y)..(k + y)
      BY <1>0, <3>1
    <3>3. U[j + y].end < U[k + y].start /\ \A h \in (j + y)..(k + y) : U[h].owner = U[j + y].owner
      BY <1>3, <1>5, <1>7, <3>1, <3>2
    <3> QED BY <1>5, <3>2, <3>3
  <2>2. \A k \in 1..u1 : U1[k].start <= U1[k].end
    BY <1>2, <1>5, <1>7
  <2> QED BY <2>1, <2>2 DEF Sorted, u1
<1>11. ASSUME NEW j \in 1..a1, A1[j].owner = w.owner
       PROVE  A1[j].end < w.start /\ \A h \in j..a1 : A1[h].owner = w.owner
  <2>1. A[j].owner = n.owner /\ j \in 1..a /\ A1[j] = A[j]
    BY <1>1, <1>5, <1>7, <1>11
  <2>2. A[j].end < n.start /\ \A h \in j..a : A[h].owner = n.owner
    BY <1>4, <2>1
  <2>3. A[j].end < w.start
    <3>1. CASE x = 0
      BY <1>6, <2>2, <3>1
    <3>2. CASE x = 1
      <4>1. j < a /\ a \in 1..a /\ A[a].owner = n.owner /\ w.start = A[a].start
        BY <1>6, <1>7, <3>2
      <4> QED BY <1>3, <2>1, <4>1
    <3> QED BY <1>0, <3>1, <3>2
  <2>4. \A h \in j..a1 : h \in j..a /\ h \in 1..a1
    BY <1>0
  <2> QED BY <1>1, <1>5, <2>1, <2>2, <2>3, <2>4
<1>12. ASSUME NEW k \in 1..u1, U1[k].owner = w.owner
       PROVE  w.end < U1[k].start /\ \A h \in 1..k : U1[h].owner = w.owner
  <2>1. U[k + y].owner = n.owner /\ k + y \in 1..u /\ U1[k] = U[k + y]
    BY <1>1, <1>5, <1>7, <1>12
  <2>2. n.end < U[k + y].start /\ \A h \in 1..(k + y) : U[h].owner = n.owner
    BY <1>4, <2>1
  <2>3. w.end < U[k + y].start
    <3>1. CASE y = 0
      BY <1>6, <2>2, <3>1
    <3>2. CASE y = 1
      <4>1. 1 < k + y /\ 1 \in 1..u /\ U[1].owner = n.owner /\ w.end = U[1].end
        BY <1>6, <1>7, <3>2
      <4> QED BY <1>3, <2>1, <4>1
    <3> QED BY <1>0, <3>1, <3>2
  <2>4. \A h \in 1..k : h + y \in 1..(k + y) /\ h \in 1..u1
    BY <1>0
  <2> QED BY <1>1, <1>5, <2>1, <2>2, <2>3, <2>4
<1>13. \A j \in 1..a1, k \in 1..u1 : A1[j].owner = U1[k].owner => A1[j].owner = w.owner
  BY <1>1, <1>4, <1>5, <1>7
<1>14. Halves(A1, U1, w)
  BY <1>0, <1>9, <1>10, <1>11, <1>12, <1>13 DEF Halves, a1, u1
<1> QED BY <1>1, <1>8, <1>14

\* A lock between two sides.
Spliced(M, A, w, U) ==
  /\ M \in Seq(Lock) /\ Len(M) = Len(A) + 1 + Len(U) /\ Sorted(M)
  /\ \A k \in 1..Len(A) : M[k] = A[k]
  /\ M[Len(A) + 1] = w
  /\ \A k \in 1..Len(U) : M[Len(A) + 1 + k] = U[k]

\* A lock between the two parts of a list makes a sorted list.
LEMMA LockBetween ==
  ASSUME NEW A, NEW U, NEW w \in Lock, w.start <= w.end, Halves(A, U, w)
  PROVE  Spliced(A \o <<w>> \o U, A, w, U)
<1> DEFINE W == <<w>>
           B == A \o W
           M == B \o U
           a == Len(A)
           n0 == [owner |-> w.owner, start |-> w.start, end |-> w.start - 1]
           n1 == [owner |-> w.owner, start |-> w.end + 1, end |-> w.end]
<1>0. A \in Seq(Lock) /\ U \in Seq(Lock) /\ a \in Nat /\ Len(U) \in Nat /\ Sorted(A) /\ Sorted(U)
  BY DEF Halves
<1>1. w.start \in Int /\ w.end \in Int
  BY FlockTypes DEF Lock, Offsets
<1>2. W \in Seq(Lock) /\ Len(W) = 1 /\ W[1] = w
  OBVIOUS
<1>3. /\ \A j \in 1..a : A[j].owner = w.owner => A[j].end < w.start /\ \A h \in j..a : A[h].owner = w.owner
      /\ \A k \in 1..Len(U) : U[k].owner = w.owner => w.end < U[k].start /\ \A h \in 1..k : U[h].owner = w.owner
      /\ \A j \in 1..a, k \in 1..Len(U) : A[j].owner = U[k].owner => A[j].owner = w.owner
  BY DEF Halves
<1>4. n0.owner = w.owner /\ n0.start = w.start /\ n0.end = w.start - 1
  OBVIOUS
<1>5. n1.owner = w.owner /\ n1.start = w.end + 1 /\ n1.end = w.end
  OBVIOUS
<1> HIDE DEF W, n0, n1
<1>6. Halves(A, W, n0)
  <2>1. 1..Len(W) = {1} /\ \A k \in 1..Len(W) : W[k] = w /\ k = 1
    BY <1>2
  <2>2. Sorted(W)
    BY <1>1, <2>1 DEF Sorted
  <2>3. n0.end < w.start
    BY <1>1, <1>4
  <2> QED BY <1>0, <1>2, <1>3, <1>4, <2>1, <2>2, <2>3 DEF Halves, a
<1>7. /\ B \in Seq(Lock) /\ Len(B) = a + 1 /\ Sorted(B)
      /\ \A k \in 1..(a + 1) : B[k] = IF k <= a THEN A[k] ELSE W[k - a]
  <2>1. n0.start \in Int /\ n0.end \in Int /\ n0.start <= n0.end + 1
    BY <1>1, <1>4
  <2> QED BY <1>2, <1>6, <2>1, HalvesConcat DEF B, a
<1> HIDE DEF B
<1>8. (\A k \in 1..a : k \in 1..(a + 1) /\ B[k] = A[k]) /\ B[a + 1] = w
  BY <1>0, <1>2, <1>7
<1>9. \A k \in 1..(a + 1) : k \in 1..a \/ k = a + 1
  BY <1>0
<1>10. Halves(B, U, n1)
  <2>1. ASSUME NEW j \in 1..Len(B), B[j].owner = n1.owner
        PROVE  B[j].end < n1.start /\ \A h \in j..Len(B) : B[h].owner = n1.owner
    <3>1. \A h \in j..Len(B) : (h \in j..a /\ h \in 1..a) \/ h = a + 1
      BY <1>0, <1>7
    <3>2. CASE j \in 1..a
      <4>1. A[j].end < w.start /\ \A h \in j..a : A[h].owner = w.owner
        BY <1>3, <1>5, <1>8, <2>1, <3>2
      <4>2. A[j].end \in Int
        BY <1>0, <3>2, LockFields
      <4>3. B[j].end < n1.start
        BY <1>1, <1>5, <1>8, <3>2, <4>1, <4>2
      <4> QED BY <1>5, <1>8, <3>1, <4>1, <4>3
    <3>3. CASE j = a + 1
      <4>1. \A h \in j..Len(B) : h = a + 1
        BY <1>0, <1>7, <3>3
      <4> QED BY <1>1, <1>5, <1>8, <3>3, <4>1
    <3> QED BY <1>7, <1>9, <3>2, <3>3
  <2>2. \A j \in 1..Len(B), k \in 1..Len(U) : B[j].owner = U[k].owner => B[j].owner = n1.owner
    BY <1>3, <1>5, <1>7, <1>8, <1>9
  <2>3. \A k \in 1..Len(U) : U[k].owner = n1.owner => n1.end < U[k].start /\ \A h \in 1..k : U[h].owner = n1.owner
    BY <1>3, <1>5
  <2> QED BY <1>0, <1>7, <2>1, <2>2, <2>3 DEF Halves
<1>11. /\ M \in Seq(Lock) /\ Len(M) = Len(B) + Len(U) /\ Sorted(M)
       /\ \A k \in 1..(Len(B) + Len(U)) : M[k] = IF k <= Len(B) THEN B[k] ELSE U[k - Len(B)]
  <2>1. n1.start \in Int /\ n1.end \in Int /\ n1.start <= n1.end + 1
    BY <1>1, <1>5
  <2> QED BY <1>10, <2>1, HalvesConcat DEF M
<1> HIDE DEF M
<1>12. \A k \in 1..a : M[k] = A[k]
  BY <1>0, <1>7, <1>8, <1>11
<1>13. M[a + 1] = w
  BY <1>0, <1>7, <1>8, <1>11
<1>14. \A k \in 1..Len(U) : M[a + 1 + k] = U[k]
  <2>1. TAKE k \in 1..Len(U)
  <2>2. a + 1 + k \in 1..(a + 1 + Len(U)) /\ ~(a + 1 + k <= a + 1) /\ (a + 1 + k) - (a + 1) = k
    BY <1>0
  <2> QED BY <1>7, <1>11, <2>2
<1>15. /\ M \in Seq(Lock) /\ Len(M) = a + 1 + Len(U) /\ Sorted(M)
       /\ (\A k \in 1..a : M[k] = A[k]) /\ M[a + 1] = w /\ \A k \in 1..Len(U) : M[a + 1 + k] = U[k]
  BY <1>7, <1>11, <1>12, <1>13, <1>14
<1> QED BY <1>15 DEF M, B, W, a, Spliced

-----------------------------------------------------------------------------
(* What insert_lock does to the rings of waiters and to single bytes.      *)

\* a is in the way of whatever b is in the way of.
Wider(a, b) == a.mode = b.mode /\ a.start <= b.start /\ b.end <= a.end

\* Nobody waits for two locks of L.
Once(L) ==
  \A j, k \in 1..Len(L) : \A t : t \in L[j].waiters /\ t \in L[k].waiters => j = k

\* From L to M nobody comes to wait for another thread or for two locks, and all
\* but W go on waiting, all but T of these for a lock that is as wide as before.
Rings(L, M, W, T) ==
  /\ \A k \in 1..Len(M) : \A t \in M[k].waiters :
       \E j \in 1..Len(L) : t \in L[j].waiters /\ L[j].owner = M[k].owner
  /\ Once(L) => Once(M)
  /\ \A j \in 1..Len(L) : \A t \in L[j].waiters :
       t \in W \/ \E k \in 1..Len(M) : t \in M[k].waiters /\ (t \in T \/ Wider(M[k], L[j]))

\* Thread u has mode m on byte b.
Holds(L, u, b, m) ==
  \E k \in 1..Len(L) : L[k].owner = u /\ L[k].mode = m /\ L[k].start <= b /\ b <= L[k].end

\* What two changes of a list do to the rings of waiters, one after the
\* other.
LEMMA RingsCompose ==
  ASSUME NEW L, NEW C, NEW M, NEW W1, NEW W2, NEW T1, NEW T2, NEW T,
         L \in Seq(Lock), C \in Seq(Lock), M \in Seq(Lock),
         Rings(L, C, W1, T1), Rings(C, M, W2, T2), T1 \subseteq T, T2 \subseteq T
  PROVE  Rings(L, M, W1 \cup W2, T)
<1>1. \A k \in 1..Len(M) : \A t \in M[k].waiters :
        \E j \in 1..Len(L) : t \in L[j].waiters /\ L[j].owner = M[k].owner
  <2>1. TAKE k \in 1..Len(M)
  <2>2. TAKE t \in M[k].waiters
  <2>3. PICK i \in 1..Len(C) : t \in C[i].waiters /\ C[i].owner = M[k].owner
    BY DEF Rings
  <2>4. PICK j \in 1..Len(L) : t \in L[j].waiters /\ L[j].owner = C[i].owner
    BY <2>3 DEF Rings
  <2> QED BY <2>3, <2>4
<1>2. Once(L) => Once(M)
  BY DEF Rings
<1>3. ASSUME NEW j \in 1..Len(L), NEW t \in L[j].waiters
      PROVE  t \in W1 \cup W2 \/ \E k \in 1..Len(M) : t \in M[k].waiters /\ (t \in T \/ Wider(M[k], L[j]))
  <2>1. SUFFICES ASSUME t \notin W1, t \notin W2
                 PROVE  \E k \in 1..Len(M) : t \in M[k].waiters /\ (t \in T \/ Wider(M[k], L[j]))
    OBVIOUS
  <2>2. PICK i \in 1..Len(C) : t \in C[i].waiters /\ (t \in T \/ Wider(C[i], L[j]))
    BY <2>1 DEF Rings
  <2>3. PICK k \in 1..Len(M) : t \in M[k].waiters /\ (t \in T \/ Wider(M[k], C[i]))
    BY <2>1, <2>2 DEF Rings
  <2>4. Wider(C[i], L[j]) /\ Wider(M[k], C[i]) => Wider(M[k], L[j])
    <3>1. /\ L[j].start \in Int /\ L[j].end \in Int /\ C[i].start \in Int /\ C[i].end \in Int
          /\ M[k].start \in Int /\ M[k].end \in Int
      BY LockFields
    <3> QED BY <2>3, <3>1 DEF Wider
  <2> QED BY <2>2, <2>3, <2>4
<1> QED BY <1>1, <1>2, <1>3 DEF Rings

\* The list with the hole, in terms of the list before.
LEMMA CarvedIs ==
  ASSUME NEW L \in Seq(Lock), Sorted(L), NEW n, IsRange(n)
  PROVE  LET C == Below(L, n) \o Above(L, n)
             p == Before(L, n)
             q == After(L, n)
             e == Len(Extra(L, n))
             s == Len(L) - q
         IN
         /\ C \in Seq(Lock) /\ Sorted(C) /\ Len(C) = p + e + s
         /\ \A k \in 1..p : C[k] = Below(L, n)[k]
         /\ e = 1 => C[p + 1] = Extra(L, n)[1]
         /\ \A k \in 1..s : C[p + e + k] = Beyond(L, n)[k]
<1> DEFINE A == Below(L, n)
           U == Above(L, n)
           C == A \o U
           p == Before(L, n)
           q == After(L, n)
           e == Len(Extra(L, n))
           s == Len(L) - q
<1>0. p \in 0..Len(L) /\ Len(L) \in Nat /\ q \in p..Len(L) /\ e \in {0, 1} /\ Len(A) = p
  BY BeforeCuts, AfterCuts, ExtraIs, BelowIs
<1>1. n.start \in Int /\ n.end \in Int /\ n.start <= n.end + 1
  BY FlockTypes DEF IsRange, Offsets
<1>2. /\ Len(U) = e + s
      /\ \A k \in 1..(e + s) : k <= e => U[k] = Extra(L, n)[k]
      /\ \A k \in 1..(e + s) : ~(k <= e) => U[k] = Beyond(L, n)[k - e]
  BY AboveIs
<1>3. Halves(A, U, n)
  BY HoleHalves
<1> HIDE DEF A, U, p, q, e, s
<1>4. /\ C \in Seq(Lock) /\ Len(C) = Len(A) + Len(U) /\ Sorted(C)
      /\ \A k \in 1..(Len(A) + Len(U)) : C[k] = IF k <= Len(A) THEN A[k] ELSE U[k - Len(A)]
  BY <1>1, <1>3, HalvesConcat
<1> HIDE DEF C
<1>5. s \in Nat
  BY <1>0 DEF s
<1>6. Len(C) = p + e + s
  BY <1>0, <1>2, <1>4, <1>5
<1>7. \A k \in 1..p : C[k] = A[k]
  BY <1>0, <1>2, <1>4, <1>5
<1>8. e = 1 => C[p + 1] = Extra(L, n)[1]
  <2>1. HAVE e = 1
  <2>2. p + 1 \in 1..(p + (e + s)) /\ ~(p + 1 <= p) /\ (p + 1) - p = 1 /\ 1 \in 1..(e + s) /\ 1 <= e
    BY <1>0, <1>5, <2>1
  <2> QED BY <1>0, <1>2, <1>4, <2>2
<1>9. \A k \in 1..s : C[p + e + k] = Beyond(L, n)[k]
  <2>1. TAKE k \in 1..s
  <2>2. /\ p + e + k \in 1..(p + (e + s)) /\ ~(p + e + k <= p) /\ (p + e + k) - p = e + k
        /\ e + k \in 1..(e + s) /\ ~(e + k <= e) /\ (e + k) - e = k
    BY <1>0, <1>5
  <2> QED BY <1>0, <1>2, <1>4, <2>2
<1>10. /\ C \in Seq(Lock) /\ Sorted(C) /\ Len(C) = p + e + s
       /\ (\A k \in 1..p : C[k] = A[k]) /\ (e = 1 => C[p + 1] = Extra(L, n)[1])
       /\ \A k \in 1..s : C[p + e + k] = Beyond(L, n)[k]
  BY <1>4, <1>6, <1>7, <1>8, <1>9
<1> QED BY <1>10 DEF C, A, U, p, q, e, s

\* A position of the list before is below the hole, in it, or beyond it, and one
\* of the list with the hole is below it, that of the extra lock, or beyond.
LEMMA Positions ==
  ASSUME NEW l \in Nat, NEW p \in 0..l, NEW q \in p..l, NEW e \in {0, 1}, NEW s, s = l - q
  PROVE  /\ s \in Nat
         /\ \A j \in 1..l : j \in 1..p \/ j \in (p + 1)..q \/ \E k \in 1..s : j = k + q
         /\ \A i \in 1..(p + e + s) : \/ i \in 1..p
                                      \/ e = 1 /\ i = p + 1
                                      \/ \E k \in 1..s : i = p + e + k
         /\ \A k \in 1..p : k \in 1..(p + e + s) /\ k \in 1..l
         /\ e = 1 => p + 1 \in 1..(p + e + s)
         /\ \A k \in 1..s : p + e + k \in 1..(p + e + s) /\ k + q \in 1..l
<1>1. s \in Nat
  OBVIOUS
<1>2. ASSUME NEW j \in 1..l, j \notin 1..p, j \notin (p + 1)..q PROVE \E k \in 1..s : j = k + q
  <2>1. j - q \in 1..s /\ j = (j - q) + q
    BY <1>2
  <2> QED BY <2>1
<1>3. ASSUME NEW i \in 1..(p + e + s), i \notin 1..p, ~(e = 1 /\ i = p + 1)
      PROVE  \E k \in 1..s : i = p + e + k
  <2>1. i - p - e \in 1..s /\ i = p + e + (i - p - e)
    BY <1>1, <1>3
  <2> QED BY <2>1
<1>4. /\ \A k \in 1..p : k \in 1..(p + e + s) /\ k \in 1..l
      /\ e = 1 => p + 1 \in 1..(p + e + s)
      /\ \A k \in 1..s : p + e + k \in 1..(p + e + s) /\ k + q \in 1..l
  BY <1>1
<1> QED BY <1>1, <1>2, <1>3, <1>4

CutWaiters(L, n) == UNION {l.waiters : l \in {m \in Members(L) : Cut(m, n)}}

\* The hole drops the rings of the locks it covers and leaves the others alone.
LEMMA CarvedRings ==
  ASSUME NEW L \in Seq(Lock), Sorted(L), NEW n, IsRange(n)
  PROVE  Rings(L, Below(L, n) \o Above(L, n), CoveredWaiters(L, n), CutWaiters(L, n))
<1> DEFINE A == Below(L, n)
           B == Beyond(L, n)
           E == Extra(L, n)
           C == A \o Above(L, n)
           p == Before(L, n)
           q == After(L, n)
           e == Len(E)
           s == Len(L) - q
<1>0. p \in 0..Len(L) /\ Len(L) \in Nat /\ q \in p..Len(L) /\ e \in {0, 1}
  BY BeforeCuts, AfterCuts, ExtraIs
<1>1. /\ C \in Seq(Lock) /\ Len(C) = p + e + s
      /\ \A k \in 1..p : C[k] = A[k]
      /\ e = 1 => C[p + 1] = E[1]
      /\ \A k \in 1..s : C[p + e + k] = B[k]
  BY CarvedIs
<1>2. \A k \in 1..p : A[k].owner = L[k].owner /\ A[k].waiters = L[k].waiters /\ (~Cut(L[k], n) => A[k] = L[k])
  BY BelowIs
<1>3. \A k \in 1..s : B[k].owner = L[k + q].owner /\ B[k].waiters = L[k + q].waiters /\ (~Cut(L[k + q], n) => B[k] = L[k + q])
  BY BeyondIs
<1>4. e = 1 => E[1].waiters = {}
  BY ExtraIs
<1>5. \A k \in (p + 1)..q : Covered(L[k], n)
  BY AfterCuts
<1>6. \A k \in 1..Len(L) : L[k].start \in Int /\ L[k].end \in Int
  BY LockFields
<1> HIDE DEF A, B, E, C, p, q, e, s
<1>7. /\ s \in Nat
      /\ \A j \in 1..Len(L) : j \in 1..p \/ j \in (p + 1)..q \/ \E k \in 1..s : j = k + q
      /\ \A i \in 1..(p + e + s) : i \in 1..p \/ (e = 1 /\ i = p + 1) \/ \E k \in 1..s : i = p + e + k
      /\ \A k \in 1..p : k \in 1..(p + e + s) /\ k \in 1..Len(L)
      /\ \A k \in 1..s : p + e + k \in 1..(p + e + s) /\ k + q \in 1..Len(L)
  BY <1>0, Positions DEF s
<1>8. ASSUME NEW i \in 1..Len(C), NEW t \in C[i].waiters
      PROVE  \/ i \in 1..p /\ t \in L[i].waiters /\ L[i].owner = C[i].owner
             \/ \E k \in 1..s : i = p + e + k /\ t \in L[k + q].waiters /\ L[k + q].owner = C[i].owner
  <2>1. CASE i \in 1..p
    BY <1>1, <1>2, <1>8, <2>1
  <2>2. CASE e = 1 /\ i = p + 1
    BY <1>1, <1>4, <1>8, <2>2
  <2>3. ASSUME NEW k \in 1..s, i = p + e + k
        PROVE  t \in L[k + q].waiters /\ L[k + q].owner = C[i].owner
    BY <1>1, <1>3, <1>8, <2>3
  <2> QED BY <1>1, <1>7, <2>1, <2>2, <2>3
<1>9. \A k \in 1..Len(C) : \A t \in C[k].waiters :
        \E j \in 1..Len(L) : t \in L[j].waiters /\ L[j].owner = C[k].owner
  BY <1>7, <1>8
<1>10. ASSUME Once(L), NEW i \in 1..Len(C), NEW j \in 1..Len(C), NEW t, t \in C[i].waiters, t \in C[j].waiters
       PROVE  i = j
  <2>0. \A a \in 1..p, k \in 1..s : a # k + q
    BY <1>0, <1>7
  <2>1. \A a, k \in 1..s : a + q = k + q => a = k
    BY <1>0, <1>7
  <2>2. CASE i \in 1..p /\ t \in L[i].waiters
    <3>1. \A k \in 1..Len(L) : t \in L[k].waiters => k = i
      BY <1>7, <1>10, <2>2 DEF Once
    <3>2. j \in 1..p /\ t \in L[j].waiters
      BY <1>7, <1>8, <1>10, <2>0, <2>2, <3>1
    <3> QED BY <1>7, <3>1, <3>2
  <2>3. ASSUME NEW k \in 1..s, i = p + e + k, t \in L[k + q].waiters PROVE i = j
    <3>1. \A h \in 1..Len(L) : t \in L[h].waiters => h = k + q
      BY <1>7, <1>10, <2>3 DEF Once
    <3>2. ~(j \in 1..p /\ t \in L[j].waiters)
      BY <1>7, <2>0, <3>1
    <3>3. PICK h \in 1..s : j = p + e + h /\ t \in L[h + q].waiters
      BY <1>8, <1>10, <3>2
    <3>4. h = k
      BY <1>7, <2>1, <3>1, <3>3
    <3> QED BY <2>3, <3>3, <3>4
  <2> QED BY <1>8, <1>10, <2>2, <2>3
<1>11. ASSUME NEW j \in 1..Len(L), NEW t \in L[j].waiters
       PROVE  \/ t \in CoveredWaiters(L, n)
              \/ \E k \in 1..Len(C) : t \in C[k].waiters /\ (t \in CutWaiters(L, n) \/ Wider(C[k], L[j]))
  <2>0. Cut(L[j], n) => t \in CutWaiters(L, n)
    BY DEF CutWaiters, Members
  <2>1. ASSUME NEW k \in 1..Len(C), C[k].waiters = L[j].waiters, ~Cut(L[j], n) => C[k] = L[j]
        PROVE  t \in C[k].waiters /\ (t \in CutWaiters(L, n) \/ Wider(C[k], L[j]))
    BY <1>6, <2>0, <2>1 DEF Wider
  <2>2. CASE j \in 1..p
    <3>1. j \in 1..Len(C) /\ C[j].waiters = L[j].waiters /\ (~Cut(L[j], n) => C[j] = L[j])
      BY <1>1, <1>2, <1>7, <2>2
    <3> QED BY <2>1, <3>1
  <2>3. CASE j \in (p + 1)..q
    BY <1>5, <2>3 DEF CoveredWaiters, Members
  <2>4. ASSUME NEW k \in 1..s, j = k + q
        PROVE  \E h \in 1..Len(C) : t \in C[h].waiters /\ (t \in CutWaiters(L, n) \/ Wider(C[h], L[j]))
    <3>1. p + e + k \in 1..Len(C) /\ C[p + e + k].waiters = L[j].waiters /\ (~Cut(L[j], n) => C[p + e + k] = L[j])
      BY <1>1, <1>3, <1>7, <2>4
    <3> QED BY <2>1, <3>1
  <2> QED BY <1>7, <2>2, <2>3, <2>4
<1>12. Once(L) => Once(C)
  BY <1>10 DEF Once
<1>13. Rings(L, C, CoveredWaiters(L, n), CutWaiters(L, n))
  BY <1>9, <1>11, <1>12 DEF Rings
<1> QED BY <1>13 DEF C, A

\* The hole takes the bytes of n from n's owner and changes no other byte.
LEMMA CarvedBytes ==
  ASSUME NEW L \in Seq(Lock), Sorted(L), NEW n, IsRange(n), NEW u, NEW b \in Int, NEW m
  PROVE  Holds(Below(L, n) \o Above(L, n), u, b, m)
           <=> Holds(L, u, b, m) /\ ~(u = n.owner /\ n.start <= b /\ b <= n.end)
<1> DEFINE A == Below(L, n)
           B == Beyond(L, n)
           E == Extra(L, n)
           C == A \o Above(L, n)
           p == Before(L, n)
           q == After(L, n)
           e == Len(E)
           s == Len(L) - q
           hole == u = n.owner /\ n.start <= b /\ b <= n.end
<1>0. p \in 0..Len(L) /\ Len(L) \in Nat /\ q \in p..Len(L) /\ e \in {0, 1}
  BY BeforeCuts, AfterCuts, ExtraIs
<1>1. /\ C \in Seq(Lock) /\ Len(C) = p + e + s
      /\ \A k \in 1..p : C[k] = A[k]
      /\ e = 1 => C[p + 1] = E[1]
      /\ \A k \in 1..s : C[p + e + k] = B[k]
  BY CarvedIs
<1>2. \A k \in 1..p : /\ A[k].owner = L[k].owner /\ A[k].mode = L[k].mode
                      /\ A[k].start = L[k].start /\ A[k].end <= L[k].end
                      /\ L[k].owner = n.owner => A[k].end < n.start /\ (A[k].end = L[k].end \/ A[k].end = n.start - 1)
                      /\ ~Cut(L[k], n) => A[k] = L[k]
  BY BelowIs
<1>3. \A k \in 1..s : LET l == L[k + q] IN
                      /\ B[k].owner = l.owner /\ B[k].mode = l.mode
                      /\ l.start <= B[k].start /\ B[k].end = l.end
                      /\ l.owner = n.owner => n.end < B[k].start /\ (B[k].start = l.start \/ B[k].start = n.end + 1)
                      /\ ~Cut(l, n) => B[k] = l
  BY BeyondIs
<1>4. /\ e = 1 => /\ p \in 1..Len(L) /\ Split(L[p], n) /\ E[1].owner = n.owner /\ L[p].owner = n.owner
                  /\ E[1].mode = L[p].mode /\ E[1].start = n.end + 1 /\ E[1].end = L[p].end
      /\ e = 0 => ~(p > 0 /\ Split(L[p], n))
  BY ExtraIs
<1>5. \A k \in (p + 1)..q : Covered(L[k], n)
  BY AfterCuts
<1>6. \A k \in 1..Len(L) : L[k].start \in Int /\ L[k].end \in Int
  BY LockFields
<1>7. \A k \in 1..Len(C) : C[k].start \in Int /\ C[k].end \in Int
  BY <1>1, LockFields
<1>8. n.start \in Int /\ n.end \in Int /\ n.start <= n.end
  BY FlockTypes DEF IsRange, Offsets
<1>9. /\ \A k \in 1..p : L[k].owner = n.owner => L[k].start < n.start
      /\ \A k \in 1..p : k # p /\ L[k].owner = n.owner => L[k].end < n.start
      /\ \A k \in (p + 1)..Len(L) : L[k].owner = n.owner => n.start <= L[k].start
  BY BeforeCuts
<1> HIDE DEF A, B, E, C, p, q, e, s
<1>10. /\ s \in Nat
       /\ \A j \in 1..Len(L) : j \in 1..p \/ j \in (p + 1)..q \/ \E k \in 1..s : j = k + q
       /\ \A i \in 1..(p + e + s) : i \in 1..p \/ (e = 1 /\ i = p + 1) \/ \E k \in 1..s : i = p + e + k
       /\ \A k \in 1..p : k \in 1..(p + e + s) /\ k \in 1..Len(L)
       /\ e = 1 => p + 1 \in 1..(p + e + s)
       /\ \A k \in 1..s : p + e + k \in 1..(p + e + s) /\ k + q \in 1..Len(L)
  BY <1>0, Positions DEF s
<1>11. ASSUME NEW i \in 1..Len(C), C[i].owner = u, C[i].mode = m, C[i].start <= b, b <= C[i].end
       PROVE  Holds(L, u, b, m) /\ ~hole
  <2>1. CASE i \in 1..p
    <3>1. i \in 1..Len(L) /\ C[i] = A[i]
      BY <1>1, <1>10, <2>1
    <3>2. L[i].owner = u /\ L[i].mode = m /\ L[i].start <= b /\ b <= L[i].end
      BY <1>2, <1>6, <1>7, <1>11, <2>1, <3>1
    <3>3. ~hole
      BY <1>2, <1>7, <1>8, <1>11, <2>1, <3>1, <3>2
    <3> QED BY <3>1, <3>2, <3>3 DEF Holds
  <2>2. CASE e = 1 /\ i = p + 1
    <3>1. C[i] = E[1] /\ p \in 1..Len(L) /\ Split(L[p], n)
      BY <1>1, <1>4, <2>2
    <3>2. L[p].owner = u /\ L[p].mode = m /\ L[p].start <= b /\ b <= L[p].end /\ ~hole
      BY <1>4, <1>6, <1>7, <1>8, <1>11, <2>2, <3>1 DEF Split
    <3> QED BY <3>1, <3>2 DEF Holds
  <2>3. ASSUME NEW k \in 1..s, i = p + e + k PROVE Holds(L, u, b, m) /\ ~hole
    <3>1. k + q \in 1..Len(L) /\ C[i] = B[k]
      BY <1>1, <1>10, <2>3
    <3>2. L[k + q].owner = u /\ L[k + q].mode = m /\ L[k + q].start <= b /\ b <= L[k + q].end
      BY <1>3, <1>6, <1>7, <1>11, <3>1
    <3>3. ~hole
      BY <1>3, <1>7, <1>8, <1>11, <3>1, <3>2
    <3> QED BY <3>1, <3>2, <3>3 DEF Holds
  <2> QED BY <1>1, <1>10, <2>1, <2>2, <2>3
<1>12. ASSUME NEW j \in 1..Len(L), L[j].owner = u, L[j].mode = m, L[j].start <= b, b <= L[j].end, ~hole
       PROVE  Holds(C, u, b, m)
  <2>1. CASE j \in 1..p
    <3>1. j \in 1..Len(C) /\ C[j] = A[j] /\ C[j].owner = u /\ C[j].mode = m /\ C[j].start <= b
      BY <1>1, <1>2, <1>10, <1>12, <2>1
    <3>2. CASE b <= C[j].end
      BY <3>1, <3>2 DEF Holds
    <3>3. CASE ~(b <= C[j].end)
      <4>1. u = n.owner
        BY <1>2, <1>12, <2>1, <3>1, <3>3 DEF Cut
      <4>2. C[j].end = n.start - 1 /\ n.end < b /\ n.start <= b
        BY <1>2, <1>7, <1>8, <1>12, <2>1, <3>1, <3>3, <4>1
      <4>3. j = p
        BY <1>6, <1>8, <1>9, <1>12, <2>1, <4>1, <4>2
      <4>4. L[p].start < n.start /\ n.end < L[p].end /\ p > 0
        BY <1>0, <1>6, <1>8, <1>9, <1>12, <2>1, <4>1, <4>2, <4>3
      <4>5. Split(L[p], n)
        BY <1>6, <1>8, <1>12, <4>1, <4>3, <4>4 DEF Split, Cut
      <4>6. e = 1
        BY <1>0, <1>4, <4>4, <4>5
      <4>7. p + 1 \in 1..Len(C) /\ C[p + 1] = E[1]
        BY <1>1, <1>10, <4>6
      <4>8. C[p + 1].owner = u /\ C[p + 1].mode = m /\ C[p + 1].start <= b /\ b <= C[p + 1].end
        BY <1>4, <1>8, <1>12, <4>1, <4>2, <4>3, <4>6, <4>7
      <4> QED BY <4>7, <4>8 DEF Holds
    <3> QED BY <3>2, <3>3
  <2>2. CASE j \in (p + 1)..q
    <3>1. Covered(L[j], n)
      BY <1>5, <2>2
    <3> QED BY <1>6, <1>8, <1>12, <3>1 DEF Covered, Cut
  <2>3. ASSUME NEW k \in 1..s, j = k + q PROVE Holds(C, u, b, m)
    <3> DEFINE i == p + e + k
    <3>1. i \in 1..Len(C) /\ C[i] = B[k] /\ j \in (p + 1)..Len(L)
      <4>1. k + q \in (p + 1)..Len(L)
        BY <1>0, <1>10, <2>3
      <4> QED BY <1>1, <1>10, <2>3, <4>1
    <3> HIDE DEF i
    <3>2. C[i].owner = u /\ C[i].mode = m /\ b <= C[i].end
      BY <1>3, <1>12, <2>3, <3>1
    <3>3. C[i].start <= b
      <4>1. CASE u = n.owner
        <5>1. n.end < b
          BY <1>6, <1>8, <1>9, <1>12, <3>1, <4>1
        <5> QED BY <1>3, <1>8, <1>12, <2>3, <3>1, <4>1, <5>1
      <4>2. CASE u # n.owner
        <5>1. ~Cut(L[j], n)
          BY <1>12, <4>2 DEF Cut
        <5> QED BY <1>3, <1>12, <2>3, <3>1, <5>1
      <4> QED BY <4>1, <4>2
    <3> QED BY <3>1, <3>2, <3>3 DEF Holds
  <2> QED BY <1>10, <2>1, <2>2, <2>3
<1>13. Holds(C, u, b, m) <=> Holds(L, u, b, m) /\ ~hole
  BY <1>11, <1>12 DEF Holds
<1> QED BY <1>13 DEF C, A

\* How the list M with the grown lock w follows from the list C with the hole
\* after position a: x locks below the hole and y beyond it are gone.
Glued(C, M, a, a1, u1, x, y, w) ==
  /\ x \in {0, 1} /\ y \in {0, 1} /\ a \in Nat /\ a1 \in Nat /\ u1 \in Nat
  /\ C \in Seq(Lock) /\ M \in Seq(Lock)
  /\ \A k \in 1..a1 : M[k] = C[k]
  /\ M[a1 + 1] = w
  /\ \A k \in 1..u1 : M[a1 + 1 + k] = C[a + y + k]
  /\ \A k \in 1..a1 : k \in 1..Len(C) /\ k \in 1..Len(M) /\ k < a1 + 1 /\ k < a + y + 1 /\ (x = 1 => k < a)
  /\ a1 + 1 \in 1..Len(M)
  /\ x = 1 => a \in 1..Len(C)
  /\ y = 1 => a + 1 \in 1..Len(C)
  /\ \A k \in 1..u1 : a1 + 1 + k \in 1..Len(M) /\ a + y + k \in 1..Len(C) /\ a1 + 1 + k > a1 + 1 /\ a + y + k > a
  /\ \A i \in 1..Len(M) : i \in 1..a1 \/ i = a1 + 1 \/ \E k \in 1..u1 : i = a1 + 1 + k
  /\ \A i \in 1..Len(C) : \/ i \in 1..a1 \/ (x = 1 /\ i = a) \/ (y = 1 /\ i = a + 1)
                          \/ \E k \in 1..u1 : i = a + y + k

\* The positions of the list with the new lock in it.
LEMMA GluedPositions ==
  ASSUME NEW a \in Nat, NEW u \in Nat, NEW x \in {0, 1}, NEW y \in {0, 1}, NEW a1 \in Nat, NEW u1 \in Nat,
         a = a1 + x, u = u1 + y
  PROVE  /\ \A k \in 1..a1 : k \in 1..(a + u) /\ k \in 1..(a1 + 1 + u1) /\ k < a1 + 1 /\ k < a + y + 1 /\ (x = 1 => k < a)
         /\ a1 + 1 \in 1..(a1 + 1 + u1)
         /\ x = 1 => a \in 1..(a + u)
         /\ y = 1 => a + 1 \in 1..(a + u)
         /\ \A k \in 1..u1 : a1 + 1 + k \in 1..(a1 + 1 + u1) /\ a + y + k \in 1..(a + u) /\ a1 + 1 + k > a1 + 1 /\ a + y + k > a
         /\ \A i \in 1..(a1 + 1 + u1) : i \in 1..a1 \/ i = a1 + 1 \/ \E k \in 1..u1 : i = a1 + 1 + k
         /\ \A i \in 1..(a + u) : \/ i \in 1..a1 \/ (x = 1 /\ i = a) \/ (y = 1 /\ i = a + 1)
                                  \/ \E k \in 1..u1 : i = a + y + k
<1>1. /\ \A k \in 1..a1 : k \in 1..(a + u) /\ k \in 1..(a1 + 1 + u1) /\ k < a1 + 1 /\ k < a + y + 1 /\ (x = 1 => k < a)
      /\ a1 + 1 \in 1..(a1 + 1 + u1)
      /\ x = 1 => a \in 1..(a + u)
      /\ y = 1 => a + 1 \in 1..(a + u)
      /\ \A k \in 1..u1 : a1 + 1 + k \in 1..(a1 + 1 + u1) /\ a + y + k \in 1..(a + u) /\ a1 + 1 + k > a1 + 1 /\ a + y + k > a
  OBVIOUS
<1>2. ASSUME NEW i \in 1..(a1 + 1 + u1), i \notin 1..a1, i # a1 + 1
      PROVE  \E k \in 1..u1 : i = a1 + 1 + k
  <2>1. i - a1 - 1 \in 1..u1 /\ i = a1 + 1 + (i - a1 - 1)
    BY <1>2
  <2> QED BY <2>1
<1>3. ASSUME NEW i \in 1..(a + u), i \notin 1..a1, ~(x = 1 /\ i = a), ~(y = 1 /\ i = a + 1)
      PROVE  \E k \in 1..u1 : i = a + y + k
  <2>1. i - a - y \in 1..u1 /\ i = a + y + (i - a - y)
    BY <1>3
  <2> QED BY <2>1
<1> QED BY <1>1, <1>2, <1>3

\* The list with the grown lock is sorted and holds the other locks as they
\* were.
LEMMA GrownIs ==
  ASSUME NEW A, NEW U, NEW n \in Lock, n.start <= n.end, Halves(A, U, n),
         NEW x, NEW y, NEW A1, NEW w, NEW U1, Grown(A, U, n, x, y, A1, w, U1)
  PROVE  /\ Glued(A \o U, A1 \o <<w>> \o U1, Len(A), Len(A1), Len(U1), x, y, w)
         /\ Sorted(A1 \o <<w>> \o U1)
         /\ x = 1 => (A \o U)[Len(A)] = A[Len(A)]
         /\ y = 1 => (A \o U)[Len(A) + 1] = U[1]
<1> DEFINE C  == A \o U
           M  == A1 \o <<w>> \o U1
           a  == Len(A)
           a1 == Len(A1)
           u  == Len(U)
           u1 == Len(U1)
<1>0. /\ A \in Seq(Lock) /\ U \in Seq(Lock) /\ a \in Nat /\ u \in Nat /\ w \in Lock
      /\ A1 \in Seq(Lock) /\ U1 \in Seq(Lock)
      /\ x \in {0, 1} /\ y \in {0, 1} /\ a1 = a - x /\ u1 = u - y
  BY DEF Halves, Grown
<1>1. (\A k \in 1..a1 : A1[k] = A[k]) /\ \A k \in 1..u1 : U1[k] = U[k + y]
  BY <1>0 DEF Grown
<1>2. /\ C \in Seq(Lock) /\ Len(C) = a + u
      /\ \A k \in 1..(a + u) : C[k] = IF k <= a THEN A[k] ELSE U[k - a]
  BY <1>0, ConcatProperties
<1>3. n.start \in Int /\ n.end \in Int
  BY FlockTypes DEF Lock, Offsets
<1>4. Halves(A1, U1, w) /\ w.start \in Int /\ w.end \in Int /\ w.start <= n.start /\ n.end <= w.end
  BY GrownHalves
<1>5. w.start <= w.end
  BY <1>3, <1>4
<1>7. a1 \in Nat /\ u1 \in Nat /\ a = a1 + x /\ u = u1 + y
  <2>1. a1 \in Nat /\ u1 \in Nat
    BY <1>0
  <2> HIDE DEF a, a1, u, u1
  <2> QED BY <1>0, <2>1
<1>8. /\ M \in Seq(Lock) /\ Len(M) = a1 + 1 + u1 /\ Sorted(M)
      /\ \A k \in 1..a1 : M[k] = A1[k]
      /\ M[a1 + 1] = w
      /\ \A k \in 1..u1 : M[a1 + 1 + k] = U1[k]
  <2>1. w \in Lock
    BY <1>0
  <2>2. Spliced(M, A1, w, U1)
    BY ONLY <1>4, <1>5, <2>1, LockBetween
  <2> HIDE DEF M
  <2> QED BY ONLY <2>2 DEF Spliced
<1> HIDE DEF C, M, a, a1, u, u1
<1>9. \A k \in 1..a1 : M[k] = C[k]
  <2>1. TAKE k \in 1..a1
  <2>2. k \in 1..(a + u) /\ k <= a
    BY ONLY <1>0, <1>7, <2>1
  <2> QED BY ONLY <1>1, <1>2, <1>8, <2>1, <2>2
<1>10. \A k \in 1..u1 : M[a1 + 1 + k] = C[a + y + k]
  <2>1. TAKE k \in 1..u1
  <2>2. a + y + k \in 1..(a + u) /\ ~(a + y + k <= a) /\ (a + y + k) - a = k + y
    BY ONLY <1>0, <1>7, <2>1
  <2> QED BY ONLY <1>1, <1>2, <1>8, <2>1, <2>2
<1>11. (x = 1 => C[a] = A[a]) /\ (y = 1 => C[a + 1] = U[1])
  <2>1. x = 1 => a \in 1..(a + u) /\ a <= a
    BY ONLY <1>0, <1>7
  <2>2. y = 1 => a + 1 \in 1..(a + u) /\ ~(a + 1 <= a) /\ (a + 1) - a = 1
    BY ONLY <1>0, <1>7
  <2> QED BY ONLY <1>2, <2>1, <2>2
<1>12. Glued(C, M, a, a1, u1, x, y, w)
  <2>1. /\ \A k \in 1..a1 : k \in 1..(a + u) /\ k \in 1..(a1 + 1 + u1) /\ k < a1 + 1 /\ k < a + y + 1 /\ (x = 1 => k < a)
        /\ a1 + 1 \in 1..(a1 + 1 + u1)
        /\ x = 1 => a \in 1..(a + u)
        /\ y = 1 => a + 1 \in 1..(a + u)
        /\ \A k \in 1..u1 : a1 + 1 + k \in 1..(a1 + 1 + u1) /\ a + y + k \in 1..(a + u) /\ a1 + 1 + k > a1 + 1 /\ a + y + k > a
        /\ \A i \in 1..(a1 + 1 + u1) : i \in 1..a1 \/ i = a1 + 1 \/ \E k \in 1..u1 : i = a1 + 1 + k
        /\ \A i \in 1..(a + u) : \/ i \in 1..a1 \/ (x = 1 /\ i = a) \/ (y = 1 /\ i = a + 1)
                                 \/ \E k \in 1..u1 : i = a + y + k
    BY ONLY <1>0, <1>7, GluedPositions
  <2>2. a + u = Len(C) /\ a1 + 1 + u1 = Len(M)
    BY ONLY <1>2, <1>8
  <2> QED BY ONLY <1>0, <1>2, <1>7, <1>8, <1>9, <1>10, <2>1, <2>2 DEF Glued
<1> QED BY ONLY <1>8, <1>11, <1>12 DEF C, M, a, a1, u1

\* The joined lock keeps the ring of the neighbour below; that of the neighbour
\* above is dropped.
LEMMA GrownRings ==
  ASSUME NEW A, NEW U, NEW n \in Lock, n.start <= n.end, Halves(A, U, n),
         NEW x, NEW y, NEW A1, NEW w, NEW U1, Grown(A, U, n, x, y, A1, w, U1)
  PROVE  Rings(A \o U, A1 \o <<w>> \o U1, IF y = 1 THEN U[1].waiters ELSE {}, {})
<1> DEFINE C  == A \o U
           M  == A1 \o <<w>> \o U1
           a  == Len(A)
           a1 == Len(A1)
           u1 == Len(U1)
           W  == IF y = 1 THEN U[1].waiters ELSE {}
<1>g. Glued(C, M, a, a1, u1, x, y, w) /\ (x = 1 => C[a] = A[a]) /\ (y = 1 => C[a + 1] = U[1])
  BY GrownIs
<1> HIDE DEF C, M, a, a1, u1
<1>0. /\ x \in {0, 1} /\ y \in {0, 1} /\ a \in Nat /\ a1 \in Nat /\ u1 \in Nat /\ C \in Seq(Lock) /\ M \in Seq(Lock)
      /\ \A k \in 1..a1 : M[k] = C[k]
      /\ M[a1 + 1] = w
      /\ \A k \in 1..u1 : M[a1 + 1 + k] = C[a + y + k]
      /\ x = 1 => C[a] = A[a]
      /\ y = 1 => C[a + 1] = U[1]
  BY <1>g DEF Glued
<1>1. /\ \A k \in 1..a1 : k \in 1..Len(C) /\ k \in 1..Len(M) /\ k < a1 + 1 /\ k < a + y + 1 /\ (x = 1 => k < a)
      /\ a1 + 1 \in 1..Len(M)
      /\ x = 1 => a \in 1..Len(C)
      /\ \A k \in 1..u1 : a1 + 1 + k \in 1..Len(M) /\ a + y + k \in 1..Len(C) /\ a1 + 1 + k > a1 + 1 /\ a + y + k > a
  BY <1>g DEF Glued
<1>2. /\ \A i \in 1..Len(M) : i \in 1..a1 \/ i = a1 + 1 \/ \E k \in 1..u1 : i = a1 + 1 + k
      /\ \A i \in 1..Len(C) : \/ i \in 1..a1 \/ (x = 1 /\ i = a) \/ (y = 1 /\ i = a + 1)
                              \/ \E k \in 1..u1 : i = a + y + k
  BY <1>g DEF Glued
<1>3. /\ x = 0 => w.waiters = {}
      /\ x = 1 => /\ w.waiters = A[a].waiters /\ w.owner = A[a].owner /\ w.mode = A[a].mode
                  /\ w.start = A[a].start /\ A[a].end + 1 = n.start
  BY DEF Grown, a
<1>4. \A k \in 1..Len(C) : C[k].start \in Int /\ C[k].end \in Int
  BY <1>0, LockFields
<1>5. n.start \in Int /\ n.end \in Int /\ w.end \in Int /\ n.end <= w.end
  BY FlockTypes, GrownHalves DEF Lock, Offsets
<1> HIDE DEF C, M, a, a1, u1, W
\* where the ring of M[i] was
<1>6. ASSUME NEW i \in 1..Len(M), NEW t \in M[i].waiters
      PROVE  \/ i \in 1..a1 /\ t \in C[i].waiters /\ C[i].owner = M[i].owner
             \/ x = 1 /\ i = a1 + 1 /\ t \in C[a].waiters /\ C[a].owner = M[i].owner
             \/ \E k \in 1..u1 : i = a1 + 1 + k /\ t \in C[a + y + k].waiters /\ C[a + y + k].owner = M[i].owner
  <2>1. CASE i \in 1..a1
    BY <1>0, <1>6, <2>1
  <2>2. CASE i = a1 + 1
    BY <1>0, <1>3, <1>6, <2>2
  <2>3. ASSUME NEW k \in 1..u1, i = a1 + 1 + k
        PROVE  t \in C[a + y + k].waiters /\ C[a + y + k].owner = M[i].owner
    BY <1>0, <1>6, <2>3
  <2> QED BY <1>2, <2>1, <2>2, <2>3
<1>7. \A i \in 1..Len(M) : \A t \in M[i].waiters :
        \E j \in 1..Len(C) : t \in C[j].waiters /\ C[j].owner = M[i].owner
  BY <1>1, <1>6
<1>8. ASSUME Once(C), NEW i \in 1..Len(M), NEW j \in 1..Len(M), NEW t, t \in M[i].waiters, t \in M[j].waiters
      PROVE  i = j
  <2>1. \A k, h \in 1..Len(C) : t \in C[k].waiters /\ t \in C[h].waiters => k = h
    BY <1>8 DEF Once
  <2>2. \A k, h \in 1..u1 : a + y + k = a + y + h => k = h
    BY <1>0
  <2>3. CASE i \in 1..a1 /\ t \in C[i].waiters
    <3>1. ~(x = 1 /\ t \in C[a].waiters) /\ \A k \in 1..u1 : t \notin C[a + y + k].waiters
      <4>1. (x = 1 => i # a) /\ \A k \in 1..u1 : i # a + y + k
        BY <1>0, <1>1, <2>3
      <4> QED BY <1>1, <2>1, <2>3, <4>1
    <3>2. j \in 1..a1 /\ t \in C[j].waiters
      BY <1>6, <1>8, <3>1
    <3> QED BY <1>1, <2>1, <2>3, <3>2
  <2>4. CASE x = 1 /\ i = a1 + 1 /\ t \in C[a].waiters
    <3>1. (\A k \in 1..a1 : t \notin C[k].waiters) /\ \A k \in 1..u1 : t \notin C[a + y + k].waiters
      <4>1. (\A k \in 1..a1 : k # a) /\ \A k \in 1..u1 : a # a + y + k
        BY <1>0, <1>1, <2>4
      <4> QED BY <1>1, <2>1, <2>4, <4>1
    <3> QED BY <1>6, <1>8, <2>4, <3>1
  <2>5. ASSUME NEW k \in 1..u1, i = a1 + 1 + k, t \in C[a + y + k].waiters PROVE i = j
    <3>1. ~(x = 1 /\ t \in C[a].waiters) /\ \A h \in 1..a1 : t \notin C[h].waiters
      <4>1. a + y + k > a /\ a + y + k >= a + y + 1 /\ a + y + k \in Int /\ a + y + 1 \in Int
        BY <1>0, <1>1
      <4>2. a + y + k # a
        BY <1>0, <4>1
      <4>3. \A h \in 1..a1 : h # a + y + k
        BY <1>1, <4>1
      <4> QED BY <1>1, <2>1, <2>5, <4>2, <4>3
    <3>2. PICK h \in 1..u1 : j = a1 + 1 + h /\ t \in C[a + y + h].waiters
      BY <1>6, <1>8, <3>1
    <3> QED BY <1>1, <2>1, <2>2, <2>5, <3>2
  <2> QED BY <1>6, <1>8, <2>3, <2>4, <2>5
<1>9. ASSUME NEW j \in 1..Len(C), NEW t \in C[j].waiters, t \notin W
      PROVE  \E k \in 1..Len(M) : t \in M[k].waiters /\ Wider(M[k], C[j])
  <2>1. \A k \in 1..Len(M) : M[k] = C[j] => t \in M[k].waiters /\ Wider(M[k], C[j])
    BY <1>4 DEF Wider
  <2>2. CASE j \in 1..a1
    BY <1>0, <1>1, <2>1, <2>2
  <2>3. CASE x = 1 /\ j = a
    <3>1. a1 + 1 \in 1..Len(M) /\ M[a1 + 1] = w /\ C[j] = A[a]
      BY <1>0, <1>1, <2>3
    <3>2. t \in w.waiters /\ w.mode = C[j].mode /\ w.start <= C[j].start
      BY <1>3, <1>4, <2>3, <3>1
    <3>3. C[j].end <= w.end
      BY <1>3, <1>4, <1>5, <2>3, <3>1
    <3> QED BY <3>1, <3>2, <3>3 DEF Wider
  <2>4. CASE y = 1 /\ j = a + 1
    BY <1>0, <1>9, <2>4 DEF W
  <2>5. ASSUME NEW k \in 1..u1, j = a + y + k
        PROVE  \E h \in 1..Len(M) : t \in M[h].waiters /\ Wider(M[h], C[j])
    BY <1>0, <1>1, <2>1, <2>5
  <2> QED BY <1>2, <2>2, <2>3, <2>4, <2>5
<1>10. Once(C) => Once(M)
  BY <1>8 DEF Once
<1>11. Rings(C, M, W, {})
  BY <1>7, <1>9, <1>10 DEF Rings
<1> QED BY <1>11 DEF C, M, W

\* The grown lock gives n's owner the bytes of n and changes no other byte.
LEMMA GrownBytes ==
  ASSUME NEW A, NEW U, NEW n \in Lock, n.start <= n.end, Halves(A, U, n),
         NEW x, NEW y, NEW A1, NEW w, NEW U1, Grown(A, U, n, x, y, A1, w, U1),
         NEW v, NEW b \in Int, NEW m
  PROVE  Holds(A1 \o <<w>> \o U1, v, b, m)
           <=> Holds(A \o U, v, b, m) \/ (v = n.owner /\ m = n.mode /\ n.start <= b /\ b <= n.end)
<1> DEFINE C  == A \o U
           M  == A1 \o <<w>> \o U1
           a  == Len(A)
           a1 == Len(A1)
           u1 == Len(U1)
           hole == v = n.owner /\ m = n.mode /\ n.start <= b /\ b <= n.end
           At(l) == l.owner = v /\ l.mode = m /\ l.start <= b /\ b <= l.end
<1>g. Glued(C, M, a, a1, u1, x, y, w) /\ (x = 1 => C[a] = A[a]) /\ (y = 1 => C[a + 1] = U[1])
  BY GrownIs
<1> HIDE DEF C, M, a, a1, u1
<1>0. /\ x \in {0, 1} /\ y \in {0, 1} /\ C \in Seq(Lock) /\ M \in Seq(Lock)
      /\ \A k \in 1..a1 : M[k] = C[k]
      /\ M[a1 + 1] = w
      /\ \A k \in 1..u1 : M[a1 + 1 + k] = C[a + y + k]
      /\ x = 1 => C[a] = A[a]
      /\ y = 1 => C[a + 1] = U[1]
  BY <1>g DEF Glued
<1>1. /\ \A k \in 1..a1 : k \in 1..Len(C) /\ k \in 1..Len(M)
      /\ a1 + 1 \in 1..Len(M)
      /\ x = 1 => a \in 1..Len(C)
      /\ y = 1 => a + 1 \in 1..Len(C)
      /\ \A k \in 1..u1 : a1 + 1 + k \in 1..Len(M) /\ a + y + k \in 1..Len(C)
  BY <1>g DEF Glued
<1>2. /\ \A i \in 1..Len(M) : i \in 1..a1 \/ i = a1 + 1 \/ \E k \in 1..u1 : i = a1 + 1 + k
      /\ \A i \in 1..Len(C) : \/ i \in 1..a1 \/ (x = 1 /\ i = a) \/ (y = 1 /\ i = a + 1)
                              \/ \E k \in 1..u1 : i = a + y + k
  BY <1>g DEF Glued
<1>3. /\ w.owner = n.owner /\ w.mode = n.mode
      /\ x = 0 => w.start = n.start
      /\ x = 1 => /\ A[a].owner = n.owner /\ A[a].mode = n.mode
                  /\ A[a].end + 1 = n.start /\ w.start = A[a].start
      /\ y = 0 => w.end = n.end
      /\ y = 1 => /\ U[1].owner = n.owner /\ U[1].mode = n.mode
                  /\ n.end + 1 = U[1].start /\ w.end = U[1].end
  BY DEF Grown, a
<1>4. n.start \in Int /\ n.end \in Int /\ w.start \in Int /\ w.end \in Int /\ w.start <= n.start /\ n.end <= w.end
  BY FlockTypes, GrownHalves DEF Lock, Offsets
<1>5. /\ x = 1 => A[a].start \in Int /\ A[a].end \in Int
      /\ y = 1 => U[1].start \in Int /\ U[1].end \in Int
  BY <1>0, <1>1, LockFields
<1> HIDE DEF C, M, a, a1, u1
<1>6. At(w) <=> hole \/ (x = 1 /\ At(A[a])) \/ (y = 1 /\ At(U[1]))
  <2>1. CASE x = 0 /\ y = 0
    BY <1>3, <1>4, <2>1
  <2>2. CASE x = 1 /\ y = 0
    BY <1>3, <1>4, <1>5, <2>2
  <2>3. CASE x = 0 /\ y = 1
    BY <1>3, <1>4, <1>5, <2>3
  <2>4. CASE x = 1 /\ y = 1
    BY <1>3, <1>4, <1>5, <2>4
  <2> QED BY <1>0, <2>1, <2>2, <2>3, <2>4
<1> HIDE DEF hole, At
<1>7. Holds(C, v, b, m) <=> \E i \in 1..Len(C) : At(C[i])
  BY DEF Holds, At
<1>8. Holds(M, v, b, m) <=> \E i \in 1..Len(M) : At(M[i])
  BY DEF Holds, At
<1>9. ASSUME NEW i \in 1..Len(M), At(M[i]) PROVE Holds(C, v, b, m) \/ hole
  <2>1. CASE i \in 1..a1
    BY <1>0, <1>1, <1>7, <1>9, <2>1
  <2>2. CASE i = a1 + 1
    BY <1>0, <1>1, <1>6, <1>7, <1>9, <2>2
  <2>3. ASSUME NEW k \in 1..u1, i = a1 + 1 + k PROVE Holds(C, v, b, m)
    BY <1>0, <1>1, <1>7, <1>9, <2>3
  <2> QED BY <1>2, <2>1, <2>2, <2>3
<1>10. ASSUME NEW i \in 1..Len(C), At(C[i]) PROVE Holds(M, v, b, m)
  <2>1. CASE i \in 1..a1
    BY <1>0, <1>1, <1>8, <1>10, <2>1
  <2>2. CASE (x = 1 /\ i = a) \/ (y = 1 /\ i = a + 1)
    BY <1>0, <1>1, <1>6, <1>8, <1>10, <2>2
  <2>3. ASSUME NEW k \in 1..u1, i = a + y + k PROVE Holds(M, v, b, m)
    BY <1>0, <1>1, <1>8, <1>10, <2>3
  <2> QED BY <1>2, <2>1, <2>2, <2>3
<1>11. hole => Holds(M, v, b, m)
  BY <1>0, <1>1, <1>6, <1>8
<1>12. Holds(M, v, b, m) <=> Holds(C, v, b, m) \/ hole
  BY <1>7, <1>8, <1>9, <1>10, <1>11
<1> QED BY <1>12 DEF M, C, hole

-----------------------------------------------------------------------------
(* The list that a call leaves behind.                                     *)

\* From L to M: the rings, and the bytes of range B of thread t, which get mode
\* m, or are unlocked if m is not a mode of a lock.
Becomes(L, M, W, T) == M \in Seq(Lock) /\ Sorted(M) /\ Rings(L, M, W, T)
Writes(L, M, n, mode) ==
  \A u, m : \A b \in Int :
    Holds(M, u, b, m) <=> IF u = n.owner /\ n.start <= b /\ b <= n.end THEN m = mode ELSE Holds(L, u, b, m)

\* Inserting a lock gives its owner the range in its mode, and changes nobody
\* else's bytes.
LEMMA InsertIs ==
  ASSUME NEW L \in Seq(Lock), Sorted(L), NEW n \in Lock, n.waiters = {}, n.start <= n.end
  PROVE  LET j == Joined(Below(L, n), n, Above(L, n)) IN
         /\ Becomes(L, j.list, CoveredWaiters(L, n) \cup j.wake, CutWaiters(L, n))
         /\ Writes(L, j.list, n, n.mode)
<1> DEFINE A == Below(L, n)
           U == Above(L, n)
           C == A \o U
           j == Joined(A, n, U)
<1>1. IsRange(n)
  BY DEF IsRange, Lock
<1>2. Halves(A, U, n)
  BY <1>1, HoleHalves
<1>3. C \in Seq(Lock) /\ Sorted(C)
  BY <1>1, CarvedIs
<1>4. Rings(L, C, CoveredWaiters(L, n), CutWaiters(L, n))
  BY <1>1, CarvedRings
<1>5. \A u, m : \A b \in Int : Holds(C, u, b, m) <=> Holds(L, u, b, m) /\ ~(u = n.owner /\ n.start <= b /\ b <= n.end)
  BY <1>1, CarvedBytes
<1> HIDE DEF A, U
<1>6. PICK x, y, A1, w, U1 :
        /\ Grown(A, U, n, x, y, A1, w, U1)
        /\ j.list = A1 \o <<w>> \o U1
        /\ j.wake = IF y = 1 THEN U[1].waiters ELSE {}
  BY <1>2, JoinedGrows
<1>7. Rings(C, j.list, j.wake, {})
  BY <1>2, <1>6, GrownRings
<1>8. \A u, m : \A b \in Int :
        Holds(j.list, u, b, m) <=> Holds(C, u, b, m) \/ (u = n.owner /\ m = n.mode /\ n.start <= b /\ b <= n.end)
  BY <1>2, <1>6, GrownBytes
<1>9. j.list \in Seq(Lock) /\ Sorted(j.list)
  <2>1. Glued(C, j.list, Len(A), Len(A1), Len(U1), x, y, w) /\ Sorted(j.list)
    BY <1>2, <1>6, GrownIs
  <2> QED BY <2>1 DEF Glued
<1> HIDE DEF C, j
<1>10. Rings(L, j.list, CoveredWaiters(L, n) \cup j.wake, CutWaiters(L, n))
  <2>1. CutWaiters(L, n) \subseteq CutWaiters(L, n) /\ {} \subseteq CutWaiters(L, n)
    OBVIOUS
  <2> QED BY <1>3, <1>4, <1>7, <1>9, <2>1, RingsCompose
<1>11. Becomes(L, j.list, CoveredWaiters(L, n) \cup j.wake, CutWaiters(L, n))
  BY <1>9, <1>10 DEF Becomes
<1>12. Writes(L, j.list, n, n.mode)
  BY <1>5, <1>8 DEF Writes
<1> QED BY <1>11, <1>12 DEF A, U, j

\* Carving a range out frees the owner's bytes in it and no others.
LEMMA CarveIs ==
  ASSUME NEW L \in Seq(Lock), Sorted(L), NEW n, IsRange(n)
  PROVE  /\ Becomes(L, Below(L, n) \o Above(L, n), CoveredWaiters(L, n), CutWaiters(L, n))
         /\ \A u, m : \A b \in Int :
              Holds(Below(L, n) \o Above(L, n), u, b, m)
                <=> Holds(L, u, b, m) /\ ~(u = n.owner /\ n.start <= b /\ b <= n.end)
<1>1. Below(L, n) \o Above(L, n) \in Seq(Lock) /\ Sorted(Below(L, n) \o Above(L, n))
  BY CarvedIs
<1>2. Becomes(L, Below(L, n) \o Above(L, n), CoveredWaiters(L, n), CutWaiters(L, n))
  BY <1>1, CarvedRings DEF Becomes
<1> QED BY <1>2, CarvedBytes

\* Lists that differ in their rings only.
Alike(L, M) ==
  /\ Len(M) = Len(L)
  /\ \A k \in 1..Len(L) : /\ M[k].owner = L[k].owner /\ M[k].mode = L[k].mode
                          /\ M[k].start = L[k].start /\ M[k].end = L[k].end

\* Lists that differ in their waiters only hold the same bytes.
LEMMA AlikeIs ==
  ASSUME NEW L \in Seq(Lock), Sorted(L), NEW M \in Seq(Lock), Alike(L, M)
  PROVE  /\ Sorted(M)
         /\ \A u, m : \A b \in Int : Holds(M, u, b, m) <=> Holds(L, u, b, m)
<1>1. Sorted(M)
  <2>1. \A j, k \in 1..Len(L) : \A h \in j..k : h \in 1..Len(L)
    OBVIOUS
  <2> QED BY <2>1 DEF Sorted, Alike
<1>2. ASSUME NEW u, NEW m, NEW b \in Int PROVE Holds(M, u, b, m) <=> Holds(L, u, b, m)
  BY DEF Holds, Alike
<1> QED BY <1>1, <1>2

\* rem_lock_waiter takes one thread out of every ring and changes nothing
\* else.
LEMMA RemIs ==
  ASSUME NEW L \in Seq(Lock), NEW t \in Threads
  PROVE  LET M == rem_lock_waiter(L, t) IN
         /\ M \in Seq(Lock) /\ Alike(L, M)
         /\ \A k \in 1..Len(L) : M[k].waiters = L[k].waiters \ {t}
<1> DEFINE M == rem_lock_waiter(L, t)
<1>1. \A k \in 1..Len(L) : L[k] \in Lock
  BY LockFields
<1>2. ASSUME NEW k \in 1..Len(L)
      PROVE  /\ [L[k] EXCEPT !.waiters = @ \ {t}] \in Lock
             /\ [L[k] EXCEPT !.waiters = @ \ {t}].owner = L[k].owner
             /\ [L[k] EXCEPT !.waiters = @ \ {t}].mode = L[k].mode
             /\ [L[k] EXCEPT !.waiters = @ \ {t}].start = L[k].start
             /\ [L[k] EXCEPT !.waiters = @ \ {t}].end = L[k].end
             /\ [L[k] EXCEPT !.waiters = @ \ {t}].waiters = L[k].waiters \ {t}
  BY <1>1 DEF Lock
<1>3. M = [k \in 1..Len(L) |-> [L[k] EXCEPT !.waiters = @ \ {t}]]
  BY DEF rem_lock_waiter
<1>4. Len(L) \in Nat
  OBVIOUS
<1> HIDE DEF M
<1>5. M \in Seq(Lock) /\ Len(M) = Len(L)
  BY <1>2, <1>3, <1>4, IsASeq, LenProperties
<1>6. \A k \in 1..Len(L) : M[k] = [L[k] EXCEPT !.waiters = @ \ {t}]
  BY <1>3
<1>7. Alike(L, M)
  BY <1>2, <1>5, <1>6 DEF Alike
<1>8. \A k \in 1..Len(L) : M[k].waiters = L[k].waiters \ {t}
  BY <1>2, <1>6
<1> QED BY <1>5, <1>7, <1>8 DEF M

-----------------------------------------------------------------------------
(* Whom a thread waits for.                                                *)

\* Nobody waits for two locks.
OneRing(F) ==
  \A i, j \in Inodes : \A k \in 1..Len(F[i]), h \in 1..Len(F[j]) : \A u :
    u \in F[i][k].waiters /\ u \in F[j][h].waiters => i = j /\ k = h

\* Holder in the lists F.
HolderIn(F, u) ==
  IF \E l \in UNION {Members(F[i]) : i \in Inodes} : u \in l.waiters
  THEN (CHOOSE l \in UNION {Members(F[i]) : i \in Inodes} : u \in l.waiters).owner ELSE NoThread

\* A thread in a ring waits for the owner of that lock.
LEMMA HolderLinked ==
  ASSUME NEW F, OneRing(F), NEW i \in Inodes, NEW k \in 1..Len(F[i]), NEW u \in F[i][k].waiters
  PROVE  HolderIn(F, u) = F[i][k].owner
<1> DEFINE Ls == UNION {Members(F[j]) : j \in Inodes}
<1>1. F[i][k] \in Ls
  BY DEF Members
<1>2. ASSUME NEW l \in Ls, u \in l.waiters PROVE l = F[i][k]
  <2>1. PICK j \in Inodes : l \in Members(F[j])
    OBVIOUS
  <2>2. PICK h \in 1..Len(F[j]) : l = F[j][h]
    BY <2>1 DEF Members
  <2>3. j = i /\ h = k
    BY <1>2, <2>2 DEF OneRing
  <2> QED BY <2>2, <2>3
<1>3. HolderIn(F, u) = IF \E l \in Ls : u \in l.waiters THEN (CHOOSE l \in Ls : u \in l.waiters).owner ELSE NoThread
  BY DEF HolderIn
<1> HIDE DEF Ls
<1>4. (CHOOSE l \in Ls : u \in l.waiters) = F[i][k]
  BY <1>1, <1>2
<1> QED BY <1>1, <1>3, <1>4

\* A thread in no ring waits for nobody.
LEMMA HolderFree ==
  ASSUME NEW F, NEW u, \A i \in Inodes : \A k \in 1..Len(F[i]) : u \notin F[i][k].waiters
  PROVE  HolderIn(F, u) = NoThread
<1>1. ~ \E l \in UNION {Members(F[i]) : i \in Inodes} : u \in l.waiters
  BY DEF Members
<1> QED BY <1>1 DEF HolderIn

\* A step from the lists F to the lists G after which nobody but t waits for a
\* thread that he did not wait for before.
LEMMA HolderKept ==
  ASSUME NEW F, OneRing(F), NEW G, OneRing(G), NEW u,
         \A i \in Inodes : \A k \in 1..Len(G[i]) : u \in G[i][k].waiters =>
           \E j \in 1..Len(F[i]) : u \in F[i][j].waiters /\ F[i][j].owner = G[i][k].owner
  PROVE  HolderIn(G, u) = HolderIn(F, u) \/ HolderIn(G, u) = NoThread
<1>1. CASE \A i \in Inodes : \A k \in 1..Len(G[i]) : u \notin G[i][k].waiters
  BY <1>1, HolderFree
<1>2. CASE \E i \in Inodes : \E k \in 1..Len(G[i]) : u \in G[i][k].waiters
  <2>0. PICK i \in Inodes : \E k \in 1..Len(G[i]) : u \in G[i][k].waiters
    BY <1>2
  <2>1. PICK k \in 1..Len(G[i]) : u \in G[i][k].waiters
    BY <2>0
  <2>2. PICK j \in 1..Len(F[i]) : u \in F[i][j].waiters /\ F[i][j].owner = G[i][k].owner
    BY <2>1
  <2>3. HolderIn(G, u) = G[i][k].owner
    BY <2>1, HolderLinked
  <2>4. HolderIn(F, u) = F[i][j].owner
    BY <2>2, HolderLinked
  <2> QED BY <2>2, <2>3, <2>4
<1> QED BY <1>1, <1>2

\* No set of threads waits for one another.
NoCircle(F) == \A S \in (SUBSET Threads) \ {{}} : \E u \in S : HolderIn(F, u) \notin S

\* If a step lets nobody wait for another thread than before, it closes no circle.
LEMMA CircleKept ==
  ASSUME NEW F, NEW G,
         NoCircle(F),
         \A u \in Threads : HolderIn(G, u) = HolderIn(F, u) \/ HolderIn(G, u) = NoThread
  PROVE  NoCircle(G)
<1>1. SUFFICES ASSUME NEW S \in (SUBSET Threads) \ {{}} PROVE \E u \in S : HolderIn(G, u) \notin S
  BY DEF NoCircle
<1>2. PICK u \in S : HolderIn(F, u) \notin S
  BY DEF NoCircle
<1>3. NoThread \notin S
  BY FlockTypes
<1> QED BY <1>2, <1>3

\* Nor does t if it begins to wait for h, from whom there is no chain to t.
LEMMA CircleAvoided ==
  ASSUME NEW F, NEW G, NEW t \in Threads, NEW h,
         NoCircle(F),
         \A u \in Threads \ {t} : HolderIn(G, u) = HolderIn(F, u) \/ HolderIn(G, u) = NoThread,
         HolderIn(G, t) = h,
         NEW C \in SUBSET Threads, h \in C, t \notin C, \A u \in C : HolderIn(F, u) \in C \cup {NoThread}
  PROVE  NoCircle(G)
<1>1. SUFFICES ASSUME NEW S \in (SUBSET Threads) \ {{}}, \A u \in S : HolderIn(G, u) \in S PROVE FALSE
  BY DEF NoCircle
<1>2. NoThread \notin S
  BY FlockTypes
<1>3. \A u \in S \ {t} : HolderIn(F, u) \in S /\ HolderIn(F, u) # NoThread
  BY <1>1, <1>2
<1>4. CASE t \notin S
  BY <1>3, <1>4 DEF NoCircle
<1>5. CASE t \in S
  <2>1. S \cap C \in (SUBSET Threads) \ {{}}
    BY <1>1, <1>5
  <2>2. \A u \in S \cap C : HolderIn(F, u) \in S \cap C
    BY <1>3
  <2> QED BY <2>1, <2>2 DEF NoCircle
<1> QED BY <1>4, <1>5

-----------------------------------------------------------------------------
(* What a step of thread t may do to the waiters.                          *)

\* From the list L to the list M all threads but t go on waiting for the same
\* thread, unless they are in W; those not in T wait for a lock as wide as before.
Shift(L, M, t, W, T) ==
  /\ Once(M)
  /\ \A k \in 1..Len(M) : \A u \in M[k].waiters : u # t =>
       \E j \in 1..Len(L) : u \in L[j].waiters /\ L[j].owner = M[k].owner
  /\ \A j \in 1..Len(L) : \A u \in L[j].waiters : u # t =>
       u \in W \/ \E k \in 1..Len(M) : u \in M[k].waiters /\ (u \in T \/ Wider(M[k], L[j]))

Shifts(F, G, t, W, T) == \A i \in Inodes : Shift(F[i], G[i], t, W, T)

\* If t waits in G, then in file i for a lock of another thread.
Waits(G, t, i) ==
  \A j \in Inodes : \A k \in 1..Len(G[j]) : t \in G[j][k].waiters => j = i /\ G[j][k].owner # t

\* No thread waits in two rings.
LEMMA WaitersOnce ==
  ASSUME TypeOK, WaitsForConflict
  PROVE  /\ OneRing(i_psFirstLock)
         /\ \A i \in Inodes : Once(i_psFirstLock[i])
<1>1. ASSUME NEW i \in Inodes, NEW j \in Inodes, NEW k \in 1..Len(i_psFirstLock[i]),
             NEW h \in 1..Len(i_psFirstLock[j]), NEW u,
             u \in i_psFirstLock[i][k].waiters, u \in i_psFirstLock[j][h].waiters
      PROVE  i = j /\ k = h
  <2>1. new[u][1] = i /\ new[u][1] = j
    BY <1>1 DEF WaitsForConflict
  <2> QED BY <1>1, <2>1 DEF WaitsForConflict
<1> QED BY <1>1 DEF OneRing, Once

\* ... and none does after a lock list has changed.
LEMMA ShiftsOneRing ==
  ASSUME NEW F, OneRing(F), NEW G, NEW t, NEW W, NEW T, NEW i, Shifts(F, G, t, W, T), Waits(G, t, i)
  PROVE  OneRing(G)
<1>1. SUFFICES ASSUME NEW a \in Inodes, NEW b \in Inodes, NEW k \in 1..Len(G[a]), NEW h \in 1..Len(G[b]), NEW u,
                      u \in G[a][k].waiters, u \in G[b][h].waiters
               PROVE  a = b
  BY DEF OneRing, Shifts, Shift, Once
<1>2. CASE u = t
  BY <1>1, <1>2 DEF Waits
<1>3. CASE u # t
  <2>1. PICK c \in 1..Len(F[a]) : u \in F[a][c].waiters
    BY <1>1, <1>3 DEF Shifts, Shift
  <2>2. PICK d \in 1..Len(F[b]) : u \in F[b][d].waiters
    BY <1>1, <1>3 DEF Shifts, Shift
  <2> QED BY <2>1, <2>2 DEF OneRing
<1> QED BY <1>2, <1>3

Inside == {"asleep", "ready", "relock", "relock_EINTR"}

\* A lock that covers more conflicts with at least as much.
LEMMA WiderConflicts ==
  ASSUME NEW a \in Lock, NEW b \in Lock, NEW n \in Lock, Wider(a, b), locks_conflict(b, n)
  PROVE  locks_conflict(a, n)
<1>1. /\ a.start \in Int /\ a.end \in Int /\ b.start \in Int /\ b.end \in Int
      /\ n.start \in Int /\ n.end \in Int
  BY FlockTypes DEF Lock, Offsets
<1> QED BY <1>1 DEF Wider, locks_conflict, locks_overlap

\* A step of t keeps the links of the others in order.
LEMMA WaitStep ==
  ASSUME TypeOK, WaitsForConflict, i_psFirstLock' \in [Inodes -> Seq(Lock)],
         NEW t \in Threads, NEW W, NEW T,
         Shifts(i_psFirstLock, i_psFirstLock', t, W, T), Waits(i_psFirstLock', t, new'[t][1]),
         \A u \in Threads \ {t} :
           /\ pc'[u] = IF u \in W /\ pc[u] = "asleep" THEN "ready" ELSE pc[u]
           /\ new'[u] = new[u]
           /\ pc'[u] = "asleep" /\ u \notin trimmed' => u \notin T /\ u \notin trimmed,
         \A i \in Inodes : \A k \in 1..Len(i_psFirstLock'[i]) : t \in i_psFirstLock'[i][k].waiters => pc'[t] \in Inside,
         pc'[t] = "asleep" =>
           \E k \in 1..Len(i_psFirstLock'[new'[t][1]]) :
             /\ t \in i_psFirstLock'[new'[t][1]][k].waiters
             /\ t \notin trimmed' => locks_conflict(i_psFirstLock'[new'[t][1]][k], new'[t][2])
  PROVE  /\ WaitsForConflict'
         /\ \A u \in Threads \ {t} : HolderIn(i_psFirstLock', u) = HolderIn(i_psFirstLock, u)
                                       \/ HolderIn(i_psFirstLock', u) = NoThread
<1> DEFINE F == i_psFirstLock
           G == i_psFirstLock'
<1>0. OneRing(F) /\ OneRing(G)
  BY WaitersOnce, ShiftsOneRing
<1>1. F \in [Inodes -> Seq(Lock)] /\ G \in [Inodes -> Seq(Lock)]
  BY DEF TypeOK
<1>2. \A i \in Inodes : \A k \in 1..Len(G[i]) : G[i][k].waiters \subseteq Threads
  BY <1>1, LockFields
<1>3. ASSUME NEW u \in Threads \ {t}, pc'[u] = "asleep"
      PROVE  \E k \in 1..Len(G[new'[u][1]]) :
               u \in G[new'[u][1]][k].waiters /\ (u \notin trimmed' => locks_conflict(G[new'[u][1]][k], new'[u][2]))
  <2> DEFINE i == new[u][1]
  <2>1. pc[u] = "asleep" /\ u \notin W /\ new'[u] = new[u] /\ (u \notin trimmed' => u \notin T /\ u \notin trimmed)
    BY <1>3
  <2>2. i \in Inodes /\ new[u][2] \in Lock
    BY <2>1 DEF TypeOK
  <2>3. PICK j \in 1..Len(F[i]) : u \in F[i][j].waiters /\ (u \notin trimmed => locks_conflict(F[i][j], new[u][2]))
    BY <2>1 DEF WaitsForConflict
  <2>4. PICK k \in 1..Len(G[i]) : u \in G[i][k].waiters /\ (u \in T \/ Wider(G[i][k], F[i][j]))
    BY <2>1, <2>2, <2>3 DEF Shifts, Shift
  <2>5. F[i][j] \in Lock /\ G[i][k] \in Lock
    BY <1>1, <2>2, LockFields
  <2>6. u \notin trimmed' => locks_conflict(G[i][k], new[u][2])
    BY <2>1, <2>2, <2>3, <2>4, <2>5, WiderConflicts
  <2> QED BY <2>1, <2>4, <2>6
<1>4. ASSUME NEW i \in Inodes, NEW k \in 1..Len(G[i]), NEW u \in G[i][k].waiters, u # t
      PROVE  G[i][k].owner # u /\ pc'[u] \in Inside /\ new'[u][1] = i
  <2>1. PICK j \in 1..Len(F[i]) : u \in F[i][j].waiters /\ F[i][j].owner = G[i][k].owner
    BY <1>4 DEF Shifts, Shift
  <2>2. u \in Threads
    BY <1>2
  <2>3. F[i][j].owner # u /\ pc[u] \in Inside /\ new[u][1] = i
    <3>1. \A h \in 1..Len(F[i]) : \A v \in F[i][h].waiters :
            F[i][h].owner # v /\ pc[v] \in Inside /\ new[v][1] = i
      BY ONLY WaitsForConflict, i \in Inodes DEF WaitsForConflict, Inside
    <3> HIDE DEF F
    <3> QED BY ONLY <2>1, <3>1
  <2>4. pc'[u] \in Inside
    BY <1>4, <2>2, <2>3 DEF Inside
  <2> QED BY <1>4, <2>1, <2>2, <2>3, <2>4
<1>5. ASSUME NEW i \in Inodes, NEW k \in 1..Len(G[i]), t \in G[i][k].waiters
      PROVE  G[i][k].owner # t /\ pc'[t] \in Inside /\ new'[t][1] = i
  BY <1>5 DEF Waits
<1>6. \A i \in Inodes : Once(G[i])
  BY DEF Shifts, Shift
<1>7. \A u \in Threads : pc'[u] = "asleep" =>
        \E k \in 1..Len(G[new'[u][1]]) :
          u \in G[new'[u][1]][k].waiters /\ (u \notin trimmed' => locks_conflict(G[new'[u][1]][k], new'[u][2]))
  BY <1>3
<1>8. \A i \in Inodes : \A k \in 1..Len(G[i]) : \A u \in G[i][k].waiters :
        /\ G[i][k].owner # u /\ pc'[u] \in Inside /\ new'[u][1] = i
        /\ \A j \in 1..Len(G[i]) : u \in G[i][j].waiters => j = k
  BY <1>4, <1>5, <1>6 DEF Once
<1>9. WaitsForConflict'
  BY <1>7, <1>8 DEF WaitsForConflict, Inside, locks_conflict, locks_overlap
<1>10. ASSUME NEW u \in Threads \ {t}
       PROVE  HolderIn(G, u) = HolderIn(F, u) \/ HolderIn(G, u) = NoThread
  <2>1. \A i \in Inodes : \A k \in 1..Len(G[i]) : u \in G[i][k].waiters =>
          \E j \in 1..Len(F[i]) : u \in F[i][j].waiters /\ F[i][j].owner = G[i][k].owner
    BY DEF Shifts, Shift
  <2> HIDE DEF F, G
  <2> QED BY <1>0, <2>1, HolderKept
<1> QED BY <1>9, <1>10

\* The waiters of one list follow its rings.
LEMMA RingsShift ==
  ASSUME NEW L \in Seq(Lock), Once(L), NEW M, NEW t, NEW W, NEW T, NEW W1, W1 \subseteq W \cup {t}, Rings(L, M, W1, T)
  PROVE  Shift(L, M, t, W, T)
<1>1. Once(M)
  BY DEF Rings
<1>2. \A k \in 1..Len(M) : \A u \in M[k].waiters :
        \E j \in 1..Len(L) : u \in L[j].waiters /\ L[j].owner = M[k].owner
  BY DEF Rings
<1>3. \A j \in 1..Len(L) : \A u \in L[j].waiters :
        u \in W1 \/ \E k \in 1..Len(M) : u \in M[k].waiters /\ (u \in T \/ Wider(M[k], L[j]))
  BY DEF Rings
<1> QED BY <1>1, <1>2, <1>3 DEF Shift

\* A list that does not change leaves the rings alone.
LEMMA RingsSame ==
  ASSUME NEW L \in Seq(Lock) PROVE Rings(L, L, {}, {})
<1>1. \A k \in 1..Len(L) : Wider(L[k], L[k])
  BY LockFields DEF Wider
<1> QED BY <1>1 DEF Rings

\* One list changes.
LEMMA ShiftsOne ==
  ASSUME NEW F \in [Inodes -> Seq(Lock)], \A j \in Inodes : Once(F[j]),
         NEW i \in Inodes, NEW M, NEW t, NEW W, NEW T, Shift(F[i], M, t, W, T)
  PROVE  Shifts(F, [F EXCEPT ![i] = M], t, W, T)
<1>1. ASSUME NEW j \in Inodes, j # i PROVE Shift(F[j], F[j], t, W, T)
  <2>1. Rings(F[j], F[j], {}, {})
    BY RingsSame
  <2>2. Once(F[j]) /\ {} \subseteq W \cup {t} /\ F[j] \in Seq(Lock)
    OBVIOUS
  <2>3. Rings(F[j], F[j], {}, T)
    BY <2>1 DEF Rings
  <2> QED BY <2>2, <2>3, RingsShift
<1>2. \A j \in Inodes : [F EXCEPT ![i] = M][j] = IF j = i THEN M ELSE F[j]
  OBVIOUS
<1> QED BY <1>1, <1>2 DEF Shifts

\* Unlinking a thread changes the rings by that thread.
LEMMA RemRings ==
  ASSUME NEW L \in Seq(Lock), NEW t \in Threads
  PROVE  Rings(L, rem_lock_waiter(L, t), {t}, {})
<1> DEFINE M == rem_lock_waiter(L, t)
<1>1. M \in Seq(Lock) /\ Alike(L, M) /\ \A k \in 1..Len(L) : M[k].waiters = L[k].waiters \ {t}
  BY RemIs
<1>2. \A k \in 1..Len(L) : L[k].start \in Int /\ L[k].end \in Int
  BY LockFields
<1> HIDE DEF M
<1>3. Len(M) = Len(L) /\ \A k \in 1..Len(L) : M[k].owner = L[k].owner /\ Wider(M[k], L[k])
  BY <1>1, <1>2 DEF Alike, Wider
<1>4. Rings(L, M, {t}, {})
  BY <1>1, <1>3 DEF Rings, Once
<1> QED BY <1>4 DEF M

\* t is linked to lock k of L, in which it does not wait yet.
LEMMA LinkIs ==
  ASSUME NEW L \in Seq(Lock), NEW t \in Threads, NEW k \in 1..Len(L)
  PROVE  LET M == [L EXCEPT ![k].waiters = @ \cup {t}] IN
         /\ M \in Seq(Lock) /\ Alike(L, M)
         /\ \A j \in 1..Len(L) : M[j].waiters = IF j = k THEN L[j].waiters \cup {t} ELSE L[j].waiters
<1> DEFINE l == [L[k] EXCEPT !.waiters = @ \cup {t}]
           M == [L EXCEPT ![k] = l]
<1>1. L[k] \in Lock
  BY LockFields
<1>2. l \in Lock /\ l.owner = L[k].owner /\ l.mode = L[k].mode /\ l.start = L[k].start /\ l.end = L[k].end
        /\ l.waiters = L[k].waiters \cup {t}
  BY <1>1 DEF Lock
<1> HIDE DEF l
<1>3. M \in Seq(Lock) /\ Len(M) = Len(L) /\ \A j \in 1..Len(L) : M[j] = IF j = k THEN l ELSE L[j]
  BY <1>2, ExceptSeq
<1>4. M = [L EXCEPT ![k].waiters = @ \cup {t}]
  BY DEF l
<1> HIDE DEF M
<1>5. Alike(L, M)
  BY <1>2, <1>3 DEF Alike
<1>6. \A j \in 1..Len(L) : M[j].waiters = IF j = k THEN L[j].waiters \cup {t} ELSE L[j].waiters
  BY <1>2, <1>3
<1> QED BY <1>3, <1>4, <1>5, <1>6

\* Linking it into one ring leaves the others alone.
LEMMA LinkShift ==
  ASSUME NEW L0 \in Seq(Lock), Once(L0), NEW t \in Threads, NEW L \in Seq(Lock), Rings(L0, L, {t}, {}),
         \A j \in 1..Len(L) : t \notin L[j].waiters, NEW k \in 1..Len(L)
  PROVE  Shift(L0, [L EXCEPT ![k].waiters = @ \cup {t}], t, {}, {})
<1> DEFINE M == [L EXCEPT ![k].waiters = @ \cup {t}]
<1>1. /\ M \in Seq(Lock) /\ Alike(L, M)
      /\ \A j \in 1..Len(L) : M[j].waiters = IF j = k THEN L[j].waiters \cup {t} ELSE L[j].waiters
  BY LinkIs
<1> HIDE DEF M
<1>2. \A j \in 1..Len(L) : M[j].start \in Int /\ M[j].end \in Int /\ L[j].start \in Int /\ L[j].end \in Int
  BY <1>1, LockFields DEF Alike
<1>3. Len(M) = Len(L) /\ \A j \in 1..Len(L) : M[j].owner = L[j].owner /\ Wider(M[j], L[j])
  BY <1>1, <1>2 DEF Alike, Wider
<1>4. Shift(L0, L, t, {}, {})
  BY RingsShift
<1>5. \A j \in 1..Len(L) : \A u : u # t => (u \in M[j].waiters <=> u \in L[j].waiters)
  BY <1>1
<1>6. Once(M)
  <2>1. ASSUME NEW j \in 1..Len(M), NEW h \in 1..Len(M), NEW u, u \in M[j].waiters, u \in M[h].waiters
        PROVE  j = h
    <3>1. CASE u = t
      BY <1>1, <1>3, <2>1, <3>1
    <3>2. CASE u # t
      BY <1>3, <1>4, <1>5, <2>1, <3>2 DEF Shift, Once
    <3> QED BY <3>1, <3>2
  <2> QED BY <2>1 DEF Once
<1>7. ASSUME NEW j \in 1..Len(M), NEW u \in M[j].waiters, u # t
      PROVE  \E h \in 1..Len(L0) : u \in L0[h].waiters /\ L0[h].owner = M[j].owner
  BY <1>3, <1>4, <1>5, <1>7 DEF Shift
<1>8. ASSUME NEW j \in 1..Len(L0), NEW u \in L0[j].waiters, u # t
      PROVE  \E h \in 1..Len(M) : u \in M[h].waiters /\ Wider(M[h], L0[j])
  <2>1. PICK h \in 1..Len(L) : u \in L[h].waiters /\ Wider(L[h], L0[j])
    BY <1>4, <1>8 DEF Shift
  <2>2. u \in M[h].waiters /\ Wider(M[h], L[h])
    BY <1>3, <1>5, <1>8, <2>1
  <2>3. L0[j].start \in Int /\ L0[j].end \in Int
    BY LockFields
  <2>4. Wider(M[h], L0[j])
    BY <1>2, <2>1, <2>2, <2>3 DEF Wider
  <2> QED BY <1>3, <2>2, <2>4
<1>9. Shift(L0, M, t, {}, {})
  BY <1>6, <1>7, <1>8 DEF Shift
<1> QED BY <1>9 DEF M

-----------------------------------------------------------------------------
(* The actions.                                                            *)

Outside == {"idle", "zombie", "deleted"}

\* A call that leaves the lock goes to its place and wakes the threads it
\* names.
LEMMA LeaveIs ==
  ASSUME TypeOK, NEW t \in Threads, NEW place \in Places, NEW W, Leave(t, place, W)
  PROVE  /\ pc' \in [Threads -> Places] /\ pc'[t] = place
         /\ \A u \in Threads \ {t} : pc'[u] = IF u \in W /\ pc[u] = "asleep" THEN "ready" ELSE pc[u]
<1>1. \A u \in Threads : pc[u] \in Places
  BY DEF TypeOK
<1>2. "ready" \in Places
  BY DEF Places
<1>3. pc' = [u \in Threads |-> IF u = t THEN place
                               ELSE IF u \in W /\ pc[u] = "asleep" THEN "ready" ELSE pc[u]]
  BY DEF Leave
<1>4. \A u \in Threads : (IF u = t THEN place ELSE IF u \in W /\ pc[u] = "asleep" THEN "ready" ELSE pc[u]) \in Places
  BY <1>1, <1>2
<1> HIDE DEF Places
<1> QED BY <1>3, <1>4

\* A step of one thread with values of the right types keeps TypeOK.
LEMMA TypeStep ==
  ASSUME TypeOK, NEW t \in Threads,
         i_psFirstLock' \in [Inodes -> Seq(Lock)], dead' \in BOOLEAN, tr_nSigPend' \subseteq Threads,
         pc' \in [Threads -> Places], trimmed' \subseteq Threads,
         new' \in [Threads -> {<<>>} \cup (Inodes \X Lock)],
         \A u \in Threads \ {t} : new'[u] = new[u] /\ (pc'[u] = pc[u] \/ (pc[u] = "asleep" /\ pc'[u] = "ready")),
         IF pc'[t] \in Outside THEN new'[t] = <<>> ELSE new'[t] # <<>> /\ IsRequest(t, new'[t][2])
  PROVE  TypeOK'
<1>1. ASSUME NEW u \in Threads \ {t}
      PROVE  IF pc'[u] \in Outside THEN new'[u] = <<>> ELSE new'[u] # <<>> /\ IsRequest(u, new'[u][2])
  <2>1. IF pc[u] \in Outside THEN new[u] = <<>> ELSE new[u] # <<>> /\ IsRequest(u, new[u][2])
    BY DEF TypeOK, Outside
  <2>2. pc'[u] \in Outside <=> pc[u] \in Outside
    BY DEF Outside
  <2> QED BY <2>1, <2>2
<1>2. \A u \in Threads : IF pc'[u] \in Outside THEN new'[u] = <<>> ELSE new'[u] # <<>> /\ IsRequest(u, new'[u][2])
  BY <1>1
<1> QED BY <1>2 DEF TypeOK, IsRequest, Outside

\* A request is a lock that is not empty and for which nobody waits.
LEMMA RequestIs ==
  ASSUME NEW t \in Threads, NEW n \in Lock, IsRequest(t, n)
  PROVE  n.owner = t /\ n.waiters = {} /\ n.start <= n.end /\ IsRange(n)
<1>1. <<n.start, n.end, n.mode>> \in Requests[t]
  BY DEF IsRequest
<1>2. <<n.start, n.end, n.mode>>[1] <= <<n.start, n.end, n.mode>>[2]
  BY <1>1, FlockTypes
<1> QED BY <1>2 DEF IsRequest, IsRange, Lock

\* The least conflict is one.
LEMMA FirstConflict ==
  ASSUME NEW L \in Seq(Lock), NEW n, Conflicts(L, n) # {}
  PROVE  LET k == CHOOSE k \in Conflicts(L, n) : \A j \in Conflicts(L, n) : k <= j IN
         k \in 1..Len(L) /\ locks_conflict(L[k], n)
<1> DEFINE K == Conflicts(L, n)
<1>1. K \in SUBSET (1..Len(L)) /\ Len(L) \in Nat
  BY DEF Conflicts
<1>2. (CHOOSE k \in K : \A j \in K : k <= j) \in K
  BY <1>1, LeastPosition
<1> QED BY <1>2 DEF Conflicts

\* What lock_inode_record and the loop in it start from: L is the list of file
\* i without t.
Ready(t, i, L, n) ==
  /\ pc[t] \in {"idle", "relock"}
  /\ i \in Inodes /\ n \in Lock /\ IsRequest(t, n)
  /\ L \in Seq(Lock) /\ Sorted(L) /\ Rings(i_psFirstLock[i], L, {t}, {})
  /\ \A j \in 1..Len(L) : t \notin L[j].waiters
  /\ \A j \in Inodes \ {i} : \A k \in 1..Len(i_psFirstLock[j]) : t \notin i_psFirstLock[j][k].waiters
  /\ \A u, m : \A b \in Int : Holds(L, u, b, m) <=> Holds(i_psFirstLock[i], u, b, m)

\* Nobody waits for himself or for two locks, and there is no circle.
Ordered == TypeOK /\ SortedDisjoint /\ WaitsForConflict /\ NoDeadlock

\* NoDeadlock as a property of the lock lists, before and after a step.
LEMMA NoDeadlockIn ==
  /\ NoDeadlock <=> NoCircle(i_psFirstLock)
  /\ NoDeadlock' <=> NoCircle(i_psFirstLock')
<1>1. \A u : Holder(u) = HolderIn(i_psFirstLock, u)
  BY DEF Holder, HolderIn, Listed
<1>2. \A u : Holder(u)' = HolderIn(i_psFirstLock', u)
  BY DEF Holder, HolderIn, Listed, Members
<1>3. NoDeadlock <=> NoCircle(i_psFirstLock)
  BY <1>1 DEF NoDeadlock, NoCircle
<1>4. NoDeadlock' <=> NoCircle(i_psFirstLock')
  BY <1>2 DEF NoDeadlock, NoCircle
<1> QED BY <1>3, <1>4

\* A step after which t waits for nothing.
LEMMA StepFree ==
  ASSUME Ordered, TypeOK', SortedDisjoint', NEW t \in Threads, NEW W, NEW T,
         Shifts(i_psFirstLock, i_psFirstLock', t, W, T),
         \A i \in Inodes : \A k \in 1..Len(i_psFirstLock'[i]) : t \notin i_psFirstLock'[i][k].waiters,
         pc'[t] # "asleep",
         \A u \in Threads \ {t} :
           /\ pc'[u] = IF u \in W /\ pc[u] = "asleep" THEN "ready" ELSE pc[u]
           /\ new'[u] = new[u]
           /\ pc'[u] = "asleep" /\ u \notin trimmed' => u \notin T /\ u \notin trimmed
  PROVE  Ordered'
<1>1. i_psFirstLock' \in [Inodes -> Seq(Lock)]
  BY DEF TypeOK
<1>2. Waits(i_psFirstLock', t, new'[t][1])
  BY DEF Waits
<1>3. TypeOK /\ WaitsForConflict /\ NoDeadlock
  BY DEF Ordered
<1>4. /\ WaitsForConflict'
      /\ \A u \in Threads \ {t} : HolderIn(i_psFirstLock', u) = HolderIn(i_psFirstLock, u)
                                    \/ HolderIn(i_psFirstLock', u) = NoThread
  BY <1>1, <1>2, <1>3, WaitStep
<1>5. HolderIn(i_psFirstLock', t) = NoThread
  BY HolderFree
<1>6. NoDeadlock'
  <2> DEFINE F == i_psFirstLock
             G == i_psFirstLock'
  <2>1. NoCircle(F)
    BY <1>3, NoDeadlockIn
  <2>2. \A u \in Threads : HolderIn(G, u) = HolderIn(F, u) \/ HolderIn(G, u) = NoThread
    BY <1>4, <1>5
  <2> HIDE DEF F, G
  <2>3. NoCircle(G)
    BY <2>1, <2>2, CircleKept
  <2> QED BY <2>3, NoDeadlockIn DEF G
<1> QED BY <1>4, <1>6 DEF Ordered

\* A step that leaves the lists alone.
LEMMA StepQuiet ==
  ASSUME Ordered, TypeOK', NEW t \in Threads, UNCHANGED i_psFirstLock,
         \A u \in Threads : new'[u] = new[u],
         \A u \in Threads \ {t} : pc'[u] = pc[u] /\ (u \in trimmed => u \in trimmed'),
         pc[t] \in Inside => pc'[t] \in Inside,
         pc'[t] = "asleep" => pc[t] = "asleep" /\ (t \in trimmed => t \in trimmed')
  PROVE  Ordered'
<1> USE DEF Ordered
<1>1. SortedDisjoint'
  BY DEF SortedDisjoint, Sorted
<1>2. ASSUME NEW u \in Threads, pc'[u] = "asleep" PROVE pc[u] = "asleep" /\ (u \in trimmed => u \in trimmed')
  BY <1>2
<1>3. ASSUME NEW u \in Threads, pc[u] \in Inside PROVE pc'[u] \in Inside
  BY <1>3
<1>4. \A i \in Inodes : \A k \in 1..Len(i_psFirstLock[i]) : i_psFirstLock[i][k].waiters \subseteq Threads
  BY LockFields DEF TypeOK
<1>5. \A u \in Threads : pc'[u] = "asleep" =>
        \E k \in 1..Len(i_psFirstLock[new[u][1]]) :
          /\ u \in i_psFirstLock[new[u][1]][k].waiters
          /\ u \notin trimmed' => locks_conflict(i_psFirstLock[new[u][1]][k], new[u][2])
  BY <1>2 DEF WaitsForConflict
<1>6. \A i \in Inodes : \A k \in 1..Len(i_psFirstLock[i]) : \A u \in i_psFirstLock[i][k].waiters :
        /\ i_psFirstLock[i][k].owner # u /\ pc[u] \in Inside /\ new[u][1] = i
        /\ \A j \in 1..Len(i_psFirstLock[i]) : u \in i_psFirstLock[i][j].waiters => j = k
  BY ONLY WaitsForConflict DEF WaitsForConflict, Inside
<1>7. WaitsForConflict'
  <2>1. \A u \in Threads : pc'[u] = "asleep" =>
          \E k \in 1..Len(i_psFirstLock'[new'[u][1]]) :
            /\ u \in i_psFirstLock'[new'[u][1]][k].waiters
            /\ u \notin trimmed' => locks_conflict(i_psFirstLock'[new'[u][1]][k], new'[u][2])
    BY <1>5
  <2>2. \A i \in Inodes : \A k \in 1..Len(i_psFirstLock'[i]) : \A u \in i_psFirstLock'[i][k].waiters :
          /\ i_psFirstLock'[i][k].owner # u /\ pc'[u] \in Inside /\ new'[u][1] = i
          /\ \A j \in 1..Len(i_psFirstLock'[i]) : u \in i_psFirstLock'[i][j].waiters => j = k
    BY <1>3, <1>4, <1>6
  <2> QED BY <2>1, <2>2 DEF WaitsForConflict, Inside, locks_conflict, locks_overlap
<1>8. NoDeadlock'
  BY NoDeadlockIn
<1> QED BY <1>1, <1>7, <1>8

\* A thread that is not inside lock_inode_record waits for nothing.
LEMMA OutsideFree ==
  ASSUME WaitsForConflict, NEW t, pc[t] \notin Inside
  PROVE  \A i \in Inodes : \A k \in 1..Len(i_psFirstLock[i]) : t \notin i_psFirstLock[i][k].waiters
BY DEF WaitsForConflict, Inside

\* A turn of the lock loop keeps the invariant, whether it waits, fails or
\* takes the lock.
LEMMA TryLockStep ==
  ASSUME Ordered, NEW t \in Threads, NEW i, NEW L, NEW n, NEW bWait,
         Ready(t, i, L, n), TryLock(t, i, L, n, bWait), UNCHANGED <<dead, tr_nSigPend>>
  PROVE  Ordered'
<1> DEFINE F == i_psFirstLock
           K == Conflicts(L, n)
           k == CHOOSE k \in K : \A j \in K : k <= j
           h == L[k].owner
<1>0. TypeOK /\ SortedDisjoint /\ WaitsForConflict /\ NoDeadlock
  BY DEF Ordered
<1>1. /\ F \in [Inodes -> Seq(Lock)] /\ dead \in BOOLEAN /\ tr_nSigPend \subseteq Threads /\ trimmed \subseteq Threads
      /\ new \in [Threads -> {<<>>} \cup (Inodes \X Lock)]
  BY <1>0 DEF TypeOK
<1>2. \A j \in Inodes : Once(F[j]) /\ Sorted(F[j])
  BY <1>0, WaitersOnce DEF SortedDisjoint
<1>3. /\ i \in Inodes /\ n \in Lock /\ IsRequest(t, n)
      /\ L \in Seq(Lock) /\ Sorted(L) /\ Rings(F[i], L, {t}, {})
      /\ \A j \in 1..Len(L) : t \notin L[j].waiters
      /\ \A j \in Inodes \ {i} : \A m \in 1..Len(F[j]) : t \notin F[j][m].waiters
  BY DEF Ready
<1>4. n.owner = t /\ n.waiters = {} /\ n.start <= n.end /\ IsRange(n)
  BY <1>3, RequestIs
<1>5. {"idle", "asleep"} \subseteq Places
  BY DEF Places
\* a list of file i after which t waits for nothing
<1>6. ASSUME NEW M \in Seq(Lock), Sorted(M), NEW W, NEW T, Rings(L, M, W, T),
             i_psFirstLock' = [F EXCEPT ![i] = M], Leave(t, "idle", W), new' = [new EXCEPT ![t] = <<>>],
             trimmed' \subseteq Threads,
             \A u \in Threads \ {t} : pc'[u] = "asleep" /\ u \notin trimmed' => u \notin T /\ u \notin trimmed
      PROVE  Ordered'
  <2>1. i_psFirstLock' \in [Inodes -> Seq(Lock)] /\ i_psFirstLock'[i] = M /\ \A j \in Inodes \ {i} : i_psFirstLock'[j] = F[j]
    BY <1>1, <1>3, <1>6
  <2>2. /\ pc' \in [Threads -> Places] /\ pc'[t] = "idle"
        /\ \A u \in Threads \ {t} : pc'[u] = IF u \in W /\ pc[u] = "asleep" THEN "ready" ELSE pc[u]
    BY <1>0, <1>5, <1>6, LeaveIs
  <2>3. /\ new' \in [Threads -> {<<>>} \cup (Inodes \X Lock)] /\ new'[t] = <<>>
        /\ \A u \in Threads \ {t} : new'[u] = new[u]
    BY <1>1, <1>6
  <2>4. TypeOK'
    <3>1. dead' \in BOOLEAN /\ tr_nSigPend' \subseteq Threads
      BY <1>1
    <3>2. \A u \in Threads \ {t} : new'[u] = new[u] /\ (pc'[u] = pc[u] \/ (pc[u] = "asleep" /\ pc'[u] = "ready"))
      BY <2>2, <2>3
    <3>3. IF pc'[t] \in Outside THEN new'[t] = <<>> ELSE new'[t] # <<>> /\ IsRequest(t, new'[t][2])
      BY <2>2, <2>3 DEF Outside
    <3> QED BY <1>0, <1>6, <2>1, <2>2, <2>3, <3>1, <3>2, <3>3, TypeStep
  <2>5. SortedDisjoint'
    <3>1. \A j \in Inodes : Sorted(i_psFirstLock'[j])
      BY <1>2, <1>6, <2>1
    <3> QED BY <3>1 DEF SortedDisjoint, Sorted
  <2>6. Shifts(F, [F EXCEPT ![i] = M], t, W, T)
    <3>1. F[i] \in Seq(Lock) /\ Once(F[i])
      BY <1>1, <1>2, <1>3
    <3>2. Rings(F[i], M, {t} \cup W, T)
      BY <1>3, <1>6, <3>1, RingsCompose
    <3>3. Shift(F[i], M, t, W, T)
      BY <3>1, <3>2, RingsShift
    <3> HIDE DEF F
    <3> QED BY <1>1, <1>2, <1>3, <3>3, ShiftsOne
  <2>7. \A j \in Inodes : \A m \in 1..Len(i_psFirstLock'[j]) : t \notin i_psFirstLock'[j][m].waiters
    <3>1. \A m \in 1..Len(M) : t \notin M[m].waiters
      BY <1>3, <1>6 DEF Rings
    <3> QED BY <1>3, <2>1, <3>1
  <2>8. Shifts(i_psFirstLock, i_psFirstLock', t, W, T)
    BY <1>6, <2>6
  <2>9. \A u \in Threads \ {t} :
          /\ pc'[u] = IF u \in W /\ pc[u] = "asleep" THEN "ready" ELSE pc[u]
          /\ new'[u] = new[u]
          /\ pc'[u] = "asleep" /\ u \notin trimmed' => u \notin T /\ u \notin trimmed
    BY <1>6, <2>2, <2>3
  <2>10. pc'[t] # "asleep"
    BY <2>2
  <2> QED BY ONLY Ordered, t \in Threads, <2>4, <2>5, <2>7, <2>8, <2>9, <2>10, StepFree
\* insert_lock
<1>7. CASE K = {} /\ insert_lock(t, i, L, n) /\ new' = [new EXCEPT ![t] = <<>>]
  <2> DEFINE j == Joined(Below(L, n), n, Above(L, n))
             W == CoveredWaiters(L, n) \cup j.wake
             T == CutWaiters(L, n)
  <2>1. j.list \in Seq(Lock) /\ Sorted(j.list) /\ Rings(L, j.list, W, T)
    BY <1>3, <1>4, InsertIs DEF Becomes
  <2>2. i_psFirstLock' = [F EXCEPT ![i] = j.list] /\ Leave(t, "idle", W)
    BY <1>7 DEF insert_lock
  <2>3. trimmed' = (trimmed \cup T) \cap {u \in Threads : pc'[u] = "asleep"}
    BY <1>7 DEF insert_lock, NoteTrimmed, CutWaiters
  <2> HIDE DEF j, W, T, F
  <2>4. trimmed' \subseteq Threads /\ \A u \in Threads \ {t} : pc'[u] = "asleep" /\ u \notin trimmed' => u \notin T /\ u \notin trimmed
    BY <2>3
  <2> QED BY <1>6, <1>7, <2>1, <2>2, <2>4
\* the call fails
<1>8. CASE /\ i_psFirstLock' = [i_psFirstLock EXCEPT ![i] = L]
           /\ Leave(t, "idle", {})
           /\ new' = [new EXCEPT ![t] = <<>>]
           /\ trimmed' = trimmed \ {t}
  <2>1. Rings(L, L, {}, {})
    BY <1>3, RingsSame
  <2>2. trimmed' \subseteq Threads /\ \A u \in Threads \ {t} : pc'[u] = "asleep" /\ u \notin trimmed' => u \notin {} /\ u \notin trimmed
    BY <1>1, <1>8
  <2> QED BY <1>3, <1>6, <1>8, <2>1, <2>2
\* t goes to sleep
<1>9. CASE /\ K # {} /\ bWait /\ ~detect_deadlock(t, h)
           /\ i_psFirstLock' = [i_psFirstLock EXCEPT ![i] = [L EXCEPT ![k].waiters = @ \cup {t}]]
           /\ Leave(t, "asleep", {})
           /\ new' = [new EXCEPT ![t] = <<i, n>>]
           /\ trimmed' = trimmed \ {t}
  <2> DEFINE M == [L EXCEPT ![k].waiters = @ \cup {t}]
  <2>1. k \in 1..Len(L) /\ locks_conflict(L[k], n)
    BY <1>3, <1>9, FirstConflict
  <2>0. i_psFirstLock' = [F EXCEPT ![i] = M]
    BY <1>9
  <2>h. h = L[k].owner
    OBVIOUS
  <2> HIDE DEF k, h, F, K
  <2>2. /\ M \in Seq(Lock) /\ Alike(L, M)
        /\ \A j \in 1..Len(L) : M[j].waiters = IF j = k THEN L[j].waiters \cup {t} ELSE L[j].waiters
    BY <1>3, <2>1, LinkIs
  <2>3. Shift(F[i], M, t, {}, {})
    <3>1. F[i] \in Seq(Lock) /\ Once(F[i])
      BY <1>1, <1>2, <1>3
    <3> QED BY <1>3, <2>1, <3>1, LinkShift
  <2> HIDE DEF M
  <2>4. i_psFirstLock' \in [Inodes -> Seq(Lock)] /\ i_psFirstLock'[i] = M /\ \A j \in Inodes \ {i} : i_psFirstLock'[j] = F[j]
    BY <1>1, <1>3, <2>0, <2>2
  <2>5. /\ pc' \in [Threads -> Places] /\ pc'[t] = "asleep"
        /\ \A u \in Threads \ {t} : pc'[u] = IF u \in {} /\ pc[u] = "asleep" THEN "ready" ELSE pc[u]
    BY <1>0, <1>5, <1>9, LeaveIs
  <2>6. /\ new' \in [Threads -> {<<>>} \cup (Inodes \X Lock)] /\ new'[t] = <<i, n>>
        /\ \A u \in Threads \ {t} : new'[u] = new[u]
    BY <1>1, <1>3, <1>9
  <2>7. TypeOK'
    <3>1. dead' \in BOOLEAN /\ tr_nSigPend' \subseteq Threads /\ trimmed' \subseteq Threads
      BY <1>1, <1>9
    <3>2. \A u \in Threads \ {t} : new'[u] = new[u] /\ (pc'[u] = pc[u] \/ (pc[u] = "asleep" /\ pc'[u] = "ready"))
      BY <2>5, <2>6
    <3>3. IF pc'[t] \in Outside THEN new'[t] = <<>> ELSE new'[t] # <<>> /\ IsRequest(t, new'[t][2])
      BY <1>3, <2>5, <2>6 DEF Outside
    <3> QED BY <1>0, <2>4, <2>5, <2>6, <3>1, <3>2, <3>3, TypeStep
  <2>8. SortedDisjoint'
    <3>1. Sorted(M)
      BY <1>3, <2>2, AlikeIs
    <3>2. \A j \in Inodes : Sorted(i_psFirstLock'[j])
      BY <1>2, <2>4, <3>1
    <3> QED BY <3>2 DEF SortedDisjoint, Sorted
  <2>9. Shifts(i_psFirstLock, i_psFirstLock', t, {}, {})
    BY <1>1, <1>2, <1>3, <2>0, <2>3, ShiftsOne DEF F
  <2>10. Len(M) = Len(L) /\ \A j \in 1..Len(L) : M[j].owner = L[j].owner /\ (t \in M[j].waiters <=> j = k)
    BY <1>3, <2>1, <2>2 DEF Alike
  <2>11. \E S0 \in SUBSET Threads : h \in S0 /\ t \notin S0 /\ \A u \in S0 : HolderIn(F, u) \in S0 \cup {NoThread}
    <3>1. \A u : Holder(u) = HolderIn(F, u)
      BY DEF Holder, HolderIn, Listed, F
    <3> QED BY <1>9, <3>1 DEF detect_deadlock
  <2>12. PICK S0 \in SUBSET Threads : h \in S0 /\ t \notin S0 /\ \A u \in S0 : HolderIn(F, u) \in S0 \cup {NoThread}
    BY <2>11
  <2>13. h # t
    BY <2>12
  <2>14. \A j \in Inodes : \A m \in 1..Len(i_psFirstLock'[j]) : t \in i_psFirstLock'[j][m].waiters => j = i /\ m = k
    BY <1>3, <2>4, <2>10
  <2>15. Waits(i_psFirstLock', t, new'[t][1])
    BY <2>h, <2>1, <2>4, <2>6, <2>10, <2>13, <2>14 DEF Waits
  <2>16. pc'[t] \in Inside
    BY <2>5 DEF Inside
  <2>17. locks_conflict(M[k], n)
    BY <2>1, <2>2 DEF Alike, locks_conflict, locks_overlap
  <2>18. \E m \in 1..Len(i_psFirstLock'[new'[t][1]]) :
           /\ t \in i_psFirstLock'[new'[t][1]][m].waiters
           /\ t \notin trimmed' => locks_conflict(i_psFirstLock'[new'[t][1]][m], new'[t][2])
    BY <2>1, <2>4, <2>6, <2>10, <2>17
  <2>19. \A u \in Threads \ {t} : pc'[u] = "asleep" /\ u \notin trimmed' => u \notin {} /\ u \notin trimmed
    BY <1>9
  <2>20. /\ WaitsForConflict'
         /\ \A u \in Threads \ {t} : HolderIn(i_psFirstLock', u) = HolderIn(i_psFirstLock, u)
                                       \/ HolderIn(i_psFirstLock', u) = NoThread
    BY <1>0, <2>4, <2>5, <2>6, <2>9, <2>15, <2>16, <2>18, <2>19, WaitStep
  <2>21. NoDeadlock'
    <3> DEFINE G == i_psFirstLock'
    <3>1. NoCircle(F)
      BY <1>0, NoDeadlockIn DEF F
    <3>2. OneRing(G)
      BY <1>0, <2>9, <2>15, WaitersOnce, ShiftsOneRing
    <3>3. HolderIn(G, t) = h
      <4>1. k \in 1..Len(G[i]) /\ t \in G[i][k].waiters /\ G[i][k].owner = h
        BY <2>h, <2>1, <2>4, <2>10
      <4> HIDE DEF G
      <4> QED BY <1>3, <3>2, <4>1, HolderLinked
    <3>4. \A u \in Threads \ {t} : HolderIn(G, u) = HolderIn(F, u) \/ HolderIn(G, u) = NoThread
      BY <2>20 DEF F
    <3> HIDE DEF G
    <3>5. NoCircle(G)
      BY <2>12, <3>1, <3>3, <3>4, CircleAvoided
    <3> QED BY <3>5, NoDeadlockIn DEF G
  <2> QED BY <2>7, <2>8, <2>20, <2>21 DEF Ordered
<1> QED BY <1>7, <1>8, <1>9 DEF TryLock

\* A new call finds what a turn of the loop relies on.
LEMMA CallReady ==
  ASSUME Ordered, NEW t \in Threads, NEW i \in Inodes, NEW q \in Requests[t], pc[t] = "idle"
  PROVE  Ready(t, i, i_psFirstLock[i],
               [owner |-> t, mode |-> q[3], start |-> q[1], end |-> q[2], waiters |-> {}])
<1> DEFINE n == [owner |-> t, mode |-> q[3], start |-> q[1], end |-> q[2], waiters |-> {}]
           L == i_psFirstLock[i]
<1>0. TypeOK /\ SortedDisjoint /\ WaitsForConflict
  BY DEF Ordered
<1>1. q \in Offsets \X Offsets \X {"F_RDLCK", "F_WRLCK"}
  BY FlockTypes
<1>2. n \in Lock /\ IsRequest(t, n)
  BY <1>1 DEF Lock, IsRequest
<1>3. L \in Seq(Lock) /\ Sorted(L)
  BY <1>0 DEF TypeOK, SortedDisjoint
<1>4. \A j \in Inodes : \A k \in 1..Len(i_psFirstLock[j]) : t \notin i_psFirstLock[j][k].waiters
  BY <1>0, OutsideFree DEF Inside
<1>5. Rings(L, L, {t}, {})
  BY <1>3, RingsSame DEF Rings
<1> HIDE DEF n
<1>6. Ready(t, i, L, n)
  BY <1>2, <1>3, <1>4, <1>5 DEF Ready
<1> QED BY <1>6 DEF n

\* lock_inode_record keeps the invariant.
LEMMA LockStep ==
  ASSUME Ordered, NEW t \in Threads, NEW i \in Inodes, NEW q \in Requests[t], NEW w,
         lock_inode_record(t, i, q, w)
  PROVE  Ordered'
BY CallReady, TryLockStep DEF lock_inode_record

\* rem_lock_waiter leaves t linked to nothing.
LEMMA Unlinked ==
  ASSUME Ordered, NEW t \in Threads, pc[t] \in {"relock", "relock_EINTR"}
  PROVE  LET i == new[t][1]
             L == rem_lock_waiter(i_psFirstLock[i], t)
         IN
         /\ i \in Inodes /\ new[t][2] \in Lock /\ IsRequest(t, new[t][2])
         /\ L \in Seq(Lock) /\ Sorted(L) /\ Rings(i_psFirstLock[i], L, {t}, {})
         /\ \A j \in 1..Len(L) : t \notin L[j].waiters
         /\ \A j \in Inodes \ {i} : \A k \in 1..Len(i_psFirstLock[j]) : t \notin i_psFirstLock[j][k].waiters
         /\ \A u, m : \A b \in Int : Holds(L, u, b, m) <=> Holds(i_psFirstLock[i], u, b, m)
<1> DEFINE i == new[t][1]
           L0 == i_psFirstLock[i]
           L == rem_lock_waiter(L0, t)
<1>0. TypeOK /\ SortedDisjoint /\ WaitsForConflict
  BY DEF Ordered
<1>1. new[t] \in Inodes \X Lock /\ IsRequest(t, new[t][2])
  BY <1>0 DEF TypeOK
<1>2. i \in Inodes /\ new[t][2] \in Lock
  BY <1>1
<1>3. L0 \in Seq(Lock) /\ Sorted(L0)
  BY <1>0, <1>2 DEF TypeOK, SortedDisjoint
<1>4. \A j \in Inodes \ {i} : \A k \in 1..Len(i_psFirstLock[j]) : t \notin i_psFirstLock[j][k].waiters
  BY <1>0 DEF WaitsForConflict
<1> HIDE DEF i, L0
<1>5. L \in Seq(Lock) /\ Alike(L0, L) /\ \A k \in 1..Len(L0) : L[k].waiters = L0[k].waiters \ {t}
  BY <1>3, RemIs
<1>6. Rings(L0, L, {t}, {})
  BY <1>3, RemRings
<1> HIDE DEF L
<1>7. Sorted(L) /\ \A u, m : \A b \in Int : Holds(L, u, b, m) <=> Holds(L0, u, b, m)
  BY <1>3, <1>5, AlikeIs
<1>8. \A j \in 1..Len(L) : t \notin L[j].waiters
  BY <1>5 DEF Alike
<1> QED BY <1>1, <1>2, <1>4, <1>5, <1>6, <1>7, <1>8 DEF i, L0, L

\* So does its next turn after a wait.
LEMMA ResumeStep ==
  ASSUME Ordered, NEW t \in Threads, lock_inode_record_resume(t)
  PROVE  Ordered'
<1> DEFINE i == new[t][1]
           L == rem_lock_waiter(i_psFirstLock[i], t)
           n == new[t][2]
<1>0. TypeOK /\ SortedDisjoint /\ WaitsForConflict
  BY DEF Ordered
<1>1. pc[t] \in {"relock", "relock_EINTR"} /\ UNCHANGED <<dead, tr_nSigPend>>
  BY DEF lock_inode_record_resume
<1>2. /\ i \in Inodes /\ n \in Lock /\ IsRequest(t, n)
      /\ L \in Seq(Lock) /\ Sorted(L) /\ Rings(i_psFirstLock[i], L, {t}, {})
      /\ \A j \in 1..Len(L) : t \notin L[j].waiters
      /\ \A j \in Inodes \ {i} : \A k \in 1..Len(i_psFirstLock[j]) : t \notin i_psFirstLock[j][k].waiters
      /\ \A u, m : \A b \in Int : Holds(L, u, b, m) <=> Holds(i_psFirstLock[i], u, b, m)
  BY <1>1, Unlinked
<1>3. \/ pc[t] = "relock" /\ TryLock(t, i, L, n, TRUE)
      \/ /\ i_psFirstLock' = [i_psFirstLock EXCEPT ![i] = L] /\ Leave(t, "idle", {})
         /\ new' = [new EXCEPT ![t] = <<>>] /\ UNCHANGED trimmed
  BY DEF lock_inode_record_resume
<1> HIDE DEF i, L, n
<1>4. CASE pc[t] = "relock" /\ TryLock(t, i, L, n, TRUE)
  <2>1. Ready(t, i, L, n)
    BY <1>2, <1>4 DEF Ready
  <2> QED BY <1>1, <1>4, <2>1, TryLockStep
<1>5. CASE /\ i_psFirstLock' = [i_psFirstLock EXCEPT ![i] = L] /\ Leave(t, "idle", {})
           /\ new' = [new EXCEPT ![t] = <<>>] /\ UNCHANGED trimmed
  <2> DEFINE F == i_psFirstLock
  <2>1. /\ F \in [Inodes -> Seq(Lock)] /\ dead \in BOOLEAN /\ tr_nSigPend \subseteq Threads /\ trimmed \subseteq Threads
        /\ new \in [Threads -> {<<>>} \cup (Inodes \X Lock)]
    BY <1>0 DEF TypeOK
  <2>2. i_psFirstLock' \in [Inodes -> Seq(Lock)] /\ i_psFirstLock'[i] = L /\ \A j \in Inodes \ {i} : i_psFirstLock'[j] = F[j]
    BY <1>2, <1>5, <2>1
  <2>3. /\ pc' \in [Threads -> Places] /\ pc'[t] = "idle"
        /\ \A u \in Threads \ {t} : pc'[u] = IF u \in {} /\ pc[u] = "asleep" THEN "ready" ELSE pc[u]
    <3>1. "idle" \in Places
      BY DEF Places
    <3> QED BY <1>0, <1>5, <3>1, LeaveIs
  <2>4. /\ new' \in [Threads -> {<<>>} \cup (Inodes \X Lock)] /\ new'[t] = <<>>
        /\ \A u \in Threads \ {t} : new'[u] = new[u]
    BY <1>5, <2>1
  <2>5. TypeOK'
    <3>1. dead' \in BOOLEAN /\ tr_nSigPend' \subseteq Threads /\ trimmed' \subseteq Threads
      BY <1>1, <1>5, <2>1
    <3>2. \A u \in Threads \ {t} : new'[u] = new[u] /\ (pc'[u] = pc[u] \/ (pc[u] = "asleep" /\ pc'[u] = "ready"))
      BY <2>3, <2>4
    <3>3. IF pc'[t] \in Outside THEN new'[t] = <<>> ELSE new'[t] # <<>> /\ IsRequest(t, new'[t][2])
      BY <2>3, <2>4 DEF Outside
    <3> QED BY <1>0, <2>2, <2>3, <2>4, <3>1, <3>2, <3>3, TypeStep
  <2>6. SortedDisjoint'
    <3>1. \A j \in Inodes : Sorted(i_psFirstLock'[j])
      BY <1>0, <1>2, <2>2 DEF SortedDisjoint
    <3> QED BY <3>1 DEF SortedDisjoint, Sorted
  <2>7. Shifts(i_psFirstLock, i_psFirstLock', t, {}, {})
    <3>1. \A j \in Inodes : Once(F[j])
      BY <1>0, WaitersOnce
    <3>2. F[i] \in Seq(Lock) /\ Once(F[i])
      BY <1>2, <2>1, <3>1
    <3>3. Shift(F[i], L, t, {}, {})
      BY <1>2, <3>2, RingsShift
    <3> HIDE DEF F
    <3>4. Shifts(F, [F EXCEPT ![i] = L], t, {}, {})
      BY <1>2, <2>1, <3>1, <3>3, ShiftsOne
    <3> QED BY <1>5, <3>4 DEF F
  <2>8. \A j \in Inodes : \A m \in 1..Len(i_psFirstLock'[j]) : t \notin i_psFirstLock'[j][m].waiters
    BY <1>2, <2>2
  <2>9. \A u \in Threads \ {t} :
          /\ pc'[u] = IF u \in {} /\ pc[u] = "asleep" THEN "ready" ELSE pc[u]
          /\ new'[u] = new[u]
          /\ pc'[u] = "asleep" /\ u \notin trimmed' => u \notin {} /\ u \notin trimmed
    BY <1>5, <2>3, <2>4
  <2>10. pc'[t] # "asleep"
    BY <2>3
  <2> QED BY ONLY Ordered, t \in Threads, <2>5, <2>6, <2>7, <2>8, <2>9, <2>10, StepFree
<1> QED BY <1>3, <1>4, <1>5

\* A request is a range.
LEMMA RangeOf ==
  ASSUME NEW t \in Threads, NEW q \in Requests[t]
  PROVE  IsRange([owner |-> t, start |-> q[1], end |-> q[2]])
<1>1. q \in Offsets \X Offsets \X {"F_RDLCK", "F_WRLCK"} /\ q[1] <= q[2]
  BY FlockTypes
<1> QED BY <1>1 DEF IsRange

\* A thread that was outside lock_inode_record and stays there changes the lists
\* F to G.
LEMMA StepOutside ==
  ASSUME Ordered, NEW t \in Threads, pc[t] \in Outside, NEW place \in Outside, NEW W, NEW T,
         i_psFirstLock' \in [Inodes -> Seq(Lock)],
         \A i \in Inodes : Sorted(i_psFirstLock'[i]) /\ Rings(i_psFirstLock[i], i_psFirstLock'[i], W, T),
         Leave(t, place, W), UNCHANGED <<new, tr_nSigPend>>, dead' \in BOOLEAN, trimmed' \subseteq Threads,
         \A u \in Threads \ {t} : pc'[u] = "asleep" /\ u \notin trimmed' => u \notin T /\ u \notin trimmed
  PROVE  Ordered'
<1>0. TypeOK /\ SortedDisjoint /\ WaitsForConflict
  BY DEF Ordered
<1>1. \A i \in Inodes : Once(i_psFirstLock[i]) /\ i_psFirstLock[i] \in Seq(Lock)
  BY <1>0, WaitersOnce DEF TypeOK
<1>2. /\ pc' \in [Threads -> Places] /\ pc'[t] = place
      /\ \A u \in Threads \ {t} : pc'[u] = IF u \in W /\ pc[u] = "asleep" THEN "ready" ELSE pc[u]
  <2>1. place \in Places
    BY DEF Places, Outside
  <2> QED BY <1>0, <2>1, LeaveIs
<1>3. TypeOK'
  <2>1. new' \in [Threads -> {<<>>} \cup (Inodes \X Lock)] /\ tr_nSigPend' \subseteq Threads /\ new'[t] = <<>>
    BY <1>0 DEF TypeOK, Outside
  <2>2. \A u \in Threads \ {t} : new'[u] = new[u] /\ (pc'[u] = pc[u] \/ (pc[u] = "asleep" /\ pc'[u] = "ready"))
    BY <1>2
  <2>3. IF pc'[t] \in Outside THEN new'[t] = <<>> ELSE new'[t] # <<>> /\ IsRequest(t, new'[t][2])
    BY <1>2, <2>1
  <2> QED BY <1>0, <1>2, <2>1, <2>2, <2>3, TypeStep
<1>4. SortedDisjoint'
  BY DEF SortedDisjoint, Sorted
<1>5. Shifts(i_psFirstLock, i_psFirstLock', t, W, T)
  <2>1. ASSUME NEW i \in Inodes PROVE Shift(i_psFirstLock[i], i_psFirstLock'[i], t, W, T)
    <3>1. W \subseteq W \cup {t}
      OBVIOUS
    <3> QED BY <1>1, <3>1, RingsShift
  <2> QED BY <2>1 DEF Shifts
<1>6. \A i \in Inodes : \A k \in 1..Len(i_psFirstLock'[i]) : t \notin i_psFirstLock'[i][k].waiters
  <2>1. \A i \in Inodes : \A k \in 1..Len(i_psFirstLock[i]) : t \notin i_psFirstLock[i][k].waiters
    BY <1>0, OutsideFree DEF Outside, Inside
  <2> QED BY <2>1 DEF Rings
<1>7. \A u \in Threads \ {t} :
        /\ pc'[u] = IF u \in W /\ pc[u] = "asleep" THEN "ready" ELSE pc[u]
        /\ new'[u] = new[u]
        /\ pc'[u] = "asleep" /\ u \notin trimmed' => u \notin T /\ u \notin trimmed
  BY <1>2
<1>8. pc'[t] # "asleep"
  BY <1>2 DEF Outside
<1> QED BY ONLY Ordered, t \in Threads, <1>3, <1>4, <1>5, <1>6, <1>7, <1>8, StepFree

\* unlock_inode_record keeps the invariant.
LEMMA UnlockStep ==
  ASSUME Ordered, NEW t \in Threads, NEW i \in Inodes, NEW q \in Requests[t], unlock_inode_record(t, i, q)
  PROVE  Ordered'
<1> DEFINE F == i_psFirstLock
           L == F[i]
           n == [owner |-> t, start |-> q[1], end |-> q[2]]
           M == Below(L, n) \o Above(L, n)
           W == CoveredWaiters(L, n)
           T == CutWaiters(L, n)
<1>0. TypeOK /\ SortedDisjoint /\ WaitsForConflict
  BY DEF Ordered
<1>1. F \in [Inodes -> Seq(Lock)] /\ \A j \in Inodes : Sorted(F[j])
  BY <1>0 DEF TypeOK, SortedDisjoint
<1>2. /\ pc[t] = "idle" /\ UNCHANGED <<new, tr_nSigPend>> /\ dead' = (dead \/ i_psFirstLock[i] = <<>>)
      /\ \/ i_psFirstLock' = [F EXCEPT ![i] = M] /\ Leave(t, "idle", W) /\ NoteTrimmed(L, n)
         \/ UNCHANGED <<i_psFirstLock, pc, trimmed>>
  BY DEF unlock_inode_record
<1>3. IsRange(n)
  BY RangeOf
<1>4. dead' \in BOOLEAN
  BY <1>2
<1>5. CASE i_psFirstLock' = [F EXCEPT ![i] = M] /\ Leave(t, "idle", W) /\ NoteTrimmed(L, n)
  <2>1. M \in Seq(Lock) /\ Sorted(M) /\ Rings(L, M, W, T)
    <3> HIDE DEF n, F
    <3> QED BY <1>1, <1>3, CarveIs DEF Becomes
  <2>2. trimmed' = (trimmed \cup T) \cap {u \in Threads : pc'[u] = "asleep"}
    BY <1>5 DEF NoteTrimmed, CutWaiters
  <2> HIDE DEF M, W, T, n, F
  <2>3. i_psFirstLock' \in [Inodes -> Seq(Lock)] /\ i_psFirstLock'[i] = M /\ \A j \in Inodes \ {i} : i_psFirstLock'[j] = F[j]
    BY <1>1, <1>5, <2>1
  <2>4. trimmed' \subseteq Threads /\ \A u \in Threads \ {t} : pc'[u] = "asleep" /\ u \notin trimmed' => u \notin T /\ u \notin trimmed
    BY <2>2
  <2>5. ASSUME NEW j \in Inodes PROVE Sorted(i_psFirstLock'[j]) /\ Rings(F[j], i_psFirstLock'[j], W, T)
    <3>1. CASE j = i
      BY <2>1, <2>3, <3>1
    <3>2. CASE j # i
      <4>1. Rings(F[j], F[j], {}, {})
        BY <1>1, RingsSame
      <4>2. Rings(F[j], F[j], W, T)
        BY <4>1 DEF Rings
      <4> QED BY <1>1, <2>3, <3>2, <4>2
    <3> QED BY <3>1, <3>2
  <2>6. pc[t] \in Outside /\ "idle" \in Outside
    BY <1>2 DEF Outside
  <2>7. UNCHANGED <<new, tr_nSigPend>> /\ Leave(t, "idle", W)
    BY <1>2, <1>5
  <2>8. \A j \in Inodes : Sorted(i_psFirstLock'[j]) /\ Rings(i_psFirstLock[j], i_psFirstLock'[j], W, T)
    BY <2>5 DEF F
  <2> QED BY ONLY Ordered, t \in Threads, <1>4, <2>3, <2>4, <2>6, <2>7, <2>8, StepOutside
<1>6. CASE UNCHANGED <<i_psFirstLock, pc, trimmed>>
  <2>1. TypeOK'
    BY <1>0, <1>2, <1>4, <1>6 DEF TypeOK, IsRequest
  <2>2. /\ UNCHANGED i_psFirstLock
        /\ \A u \in Threads : new'[u] = new[u]
        /\ \A u \in Threads \ {t} : pc'[u] = pc[u] /\ (u \in trimmed => u \in trimmed')
        /\ pc[t] \in Inside => pc'[t] \in Inside
        /\ pc'[t] = "asleep" => pc[t] = "asleep" /\ (t \in trimmed => t \in trimmed')
    BY <1>2, <1>6
  <2> QED BY ONLY Ordered, t \in Threads, <2>1, <2>2, StepQuiet
<1> QED BY <1>2, <1>5, <1>6

\* With the range of the whole file, a lock that is cut is covered.
LEMMA DeathCovers ==
  ASSUME NEW L \in Seq(Lock), NEW t
  PROVE  LET n == [owner |-> t, start |-> 0, end |-> MaxOffset] IN
         CutWaiters(L, n) = CoveredWaiters(L, n)
<1> DEFINE n == [owner |-> t, start |-> 0, end |-> MaxOffset]
<1>1. ASSUME NEW l \in Members(L) PROVE Cut(l, n) <=> Covered(l, n)
  <2>1. PICK k \in 1..Len(L) : l = L[k]
    BY DEF Members
  <2>2. l.start \in 0..MaxOffset /\ l.end \in 0..MaxOffset
    BY <2>1, LockFields DEF Offsets
  <2>3. n.start = 0 /\ n.end = MaxOffset /\ MaxOffset \in Nat
    BY FlockTypes
  <2> HIDE DEF n
  <2> QED BY <2>2, <2>3 DEF Cut, Covered
<1> HIDE DEF n
<1>2. {m \in Members(L) : Cut(m, n)} = {m \in Members(L) : Covered(m, n)}
  BY <1>1
<1>3. CutWaiters(L, n) = CoveredWaiters(L, n)
  BY <1>2 DEF CutWaiters, CoveredWaiters
<1> QED BY <1>3 DEF n

\* flock_thread_died keeps the invariant.
LEMMA DiedStep ==
  ASSUME Ordered, NEW t \in Threads, flock_thread_died(t)
  PROVE  Ordered'
<1> DEFINE F == i_psFirstLock
           n == [owner |-> t, start |-> 0, end |-> MaxOffset]
           M(i) == Below(F[i], n) \o Above(F[i], n)
           W == UNION {CoveredWaiters(F[i], n) : i \in Inodes}
<1>0. TypeOK /\ SortedDisjoint /\ WaitsForConflict
  BY DEF Ordered
<1>1. F \in [Inodes -> Seq(Lock)] /\ \A j \in Inodes : Sorted(F[j])
  BY <1>0 DEF TypeOK, SortedDisjoint
<1>2. /\ pc[t] = "zombie" /\ UNCHANGED <<dead, new, tr_nSigPend>> /\ i_psFirstLock' = [i \in Inodes |-> M(i)]
      /\ Leave(t, "deleted", W) /\ trimmed' = {u \in trimmed : pc'[u] = "asleep"}
  BY DEF flock_thread_died
<1>3. IsRange(n)
  BY FlockTypes DEF IsRange, Offsets
<1>4. \A i \in Inodes : CutWaiters(F[i], n) = CoveredWaiters(F[i], n)
  BY <1>1, DeathCovers
<1> HIDE DEF F, n
<1>5. ASSUME NEW i \in Inodes PROVE M(i) \in Seq(Lock) /\ Sorted(M(i)) /\ Rings(F[i], M(i), W, W)
  <2>1. M(i) \in Seq(Lock) /\ Sorted(M(i)) /\ Rings(F[i], M(i), CoveredWaiters(F[i], n), CutWaiters(F[i], n))
    BY <1>1, <1>3, CarveIs DEF Becomes
  <2>2. CoveredWaiters(F[i], n) \subseteq W /\ CutWaiters(F[i], n) \subseteq W
    BY <1>4
  <2> HIDE DEF M, W
  <2> QED BY <2>1, <2>2 DEF Rings
<1>6. i_psFirstLock' \in [Inodes -> Seq(Lock)] /\ \A i \in Inodes : i_psFirstLock'[i] = M(i)
  BY <1>2, <1>5
<1> HIDE DEF M, W
<1>7. \A i \in Inodes : Sorted(i_psFirstLock'[i]) /\ Rings(i_psFirstLock[i], i_psFirstLock'[i], W, W)
  BY <1>5, <1>6 DEF F
<1>8. /\ pc' \in [Threads -> Places] /\ pc'[t] = "deleted"
      /\ \A u \in Threads \ {t} : pc'[u] = IF u \in W /\ pc[u] = "asleep" THEN "ready" ELSE pc[u]
  <2>1. "deleted" \in Places
    BY DEF Places
  <2> QED BY <1>0, <1>2, <2>1, LeaveIs
<1>9. \A u \in Threads \ {t} : pc'[u] = "asleep" /\ u \notin trimmed' => u \notin W /\ u \notin trimmed
  BY <1>2, <1>8
<1>10. pc[t] \in Outside /\ "deleted" \in Outside
  BY <1>2 DEF Outside
<1>11. dead' \in BOOLEAN /\ trimmed' \subseteq Threads /\ UNCHANGED <<new, tr_nSigPend>> /\ Leave(t, "deleted", W)
  BY <1>0, <1>2 DEF TypeOK
<1> QED BY ONLY Ordered, t \in Threads, <1>6, <1>7, <1>9, <1>10, <1>11, StepOutside

\* So do wake-ups, exits and signals, which leave the lists alone.
LEMMA OtherStep ==
  ASSUME Ordered, NEW t \in Threads,
         suspend_returns(t) \/ exit_thread(t) \/ send_signal(t) \/ handle_signals(t)
  PROVE  Ordered'
<1>0. TypeOK /\ WaitsForConflict
  BY DEF Ordered
<1>1. /\ UNCHANGED <<i_psFirstLock, new, dead>> /\ tr_nSigPend' \subseteq Threads /\ trimmed' \subseteq Threads
      /\ \A u \in Threads \ {t} : u \in trimmed => u \in trimmed'
      /\ t \in trimmed /\ t \notin trimmed' => pc'[t] # "asleep"
      /\ pc' \in [Threads -> Places] /\ \A u \in Threads \ {t} : pc'[u] = pc[u]
      /\ \/ pc[t] \in Inside /\ pc'[t] \in Inside /\ (pc'[t] = "asleep" => pc[t] = "asleep")
         \/ pc[t] \in Outside /\ pc'[t] \in Outside
  BY <1>0 DEF TypeOK, suspend_returns, exit_thread, send_signal, handle_signals, Places, Inside, Outside
<1>2. TypeOK'
  <2>1. i_psFirstLock' \in [Inodes -> Seq(Lock)] /\ dead' \in BOOLEAN /\ new' \in [Threads -> {<<>>} \cup (Inodes \X Lock)]
    BY <1>0, <1>1 DEF TypeOK
  <2>2. \A u \in Threads \ {t} : new'[u] = new[u] /\ (pc'[u] = pc[u] \/ (pc[u] = "asleep" /\ pc'[u] = "ready"))
    BY <1>1
  <2>3. IF pc'[t] \in Outside THEN new'[t] = <<>> ELSE new'[t] # <<>> /\ IsRequest(t, new'[t][2])
    <3>1. IF pc[t] \in Outside THEN new[t] = <<>> ELSE new[t] # <<>> /\ IsRequest(t, new[t][2])
      BY <1>0 DEF TypeOK, Outside
    <3>2. pc'[t] \in Outside <=> pc[t] \in Outside
      BY <1>1 DEF Inside, Outside
    <3> QED BY <1>1, <3>1, <3>2
  <2> QED BY <1>0, <1>1, <2>1, <2>2, <2>3, TypeStep
<1>3. /\ UNCHANGED i_psFirstLock
      /\ \A u \in Threads : new'[u] = new[u]
      /\ \A u \in Threads \ {t} : pc'[u] = pc[u] /\ (u \in trimmed => u \in trimmed')
      /\ pc[t] \in Inside => pc'[t] \in Inside
      /\ pc'[t] = "asleep" => pc[t] = "asleep" /\ (t \in trimmed => t \in trimmed')
  BY <1>1 DEF Inside, Outside
<1> QED BY ONLY Ordered, t \in Threads, <1>2, <1>3, StepQuiet

-----------------------------------------------------------------------------
(* The theorems.                                                           *)

\* The invariant holds before any call.
LEMMA StartOrdered ==
  ASSUME Init PROVE Ordered
<1>1. TypeOK
  <2>1. i_psFirstLock \in [Inodes -> Seq(Lock)]
    <3>1. <<>> \in Seq(Lock)
      OBVIOUS
    <3> QED BY <3>1 DEF Init
  <2>2. new \in [Threads -> {<<>>} \cup (Inodes \X Lock)] /\ pc \in [Threads -> Places]
    BY DEF Init, Places
  <2>3. \A t \in Threads : pc[t] = "idle" /\ new[t] = <<>>
    BY DEF Init
  <2> HIDE DEF Places
  <2> QED BY <2>1, <2>2, <2>3 DEF Init, TypeOK
<1>2. \A i \in Inodes : i_psFirstLock[i] = <<>> /\ Len(i_psFirstLock[i]) = 0 /\ 1..Len(i_psFirstLock[i]) = {}
  BY DEF Init
<1>3. SortedDisjoint
  BY <1>2 DEF SortedDisjoint, Sorted
<1>4. WaitsForConflict
  BY <1>2 DEF Init, WaitsForConflict
<1>5. NoDeadlock
  <2>1. \A u : HolderIn(i_psFirstLock, u) = NoThread
    BY <1>2, HolderFree
  <2>2. NoCircle(i_psFirstLock)
    BY <2>1, FlockTypes DEF NoCircle
  <2> QED BY <2>2, NoDeadlockIn
<1> QED BY <1>1, <1>3, <1>4, <1>5 DEF Ordered

\* Every step keeps the invariant.
LEMMA NextOrdered ==
  ASSUME Ordered, [Next]_vars PROVE Ordered'
<1>1. ASSUME NEW t \in Threads, Call(t) PROVE Ordered'
  <2>1. PICK i \in Inodes, q \in Requests[t] :
          (\E w \in BOOLEAN : lock_inode_record(t, i, q, w)) \/ unlock_inode_record(t, i, q)
    BY <1>1 DEF Call
  <2>2. CASE \E w \in BOOLEAN : lock_inode_record(t, i, q, w)
    BY <2>2, LockStep
  <2>3. CASE unlock_inode_record(t, i, q)
    BY <2>3, UnlockStep
  <2> QED BY <2>1, <2>2, <2>3
<1>2. ASSUME NEW t \in Threads, Continue(t) PROVE Ordered'
  BY <1>2, OtherStep, ResumeStep DEF Continue
<1>3. ASSUME NEW t \in Threads, exit_thread(t) \/ send_signal(t) \/ handle_signals(t) PROVE Ordered'
  BY <1>3, OtherStep
<1>4. ASSUME NEW t \in Threads, flock_thread_died(t) PROVE Ordered'
  BY <1>4, DiedStep
<1>5. CASE UNCHANGED vars
  <2>0. TypeOK'
    BY <1>5 DEF vars, Ordered, TypeOK, IsRequest
  <2>1. SortedDisjoint'
    BY <1>5 DEF vars, Ordered, SortedDisjoint, Sorted
  <2>2. WaitsForConflict'
    BY <1>5 DEF vars, Ordered, WaitsForConflict, locks_conflict, locks_overlap
  <2>3. NoDeadlock'
    BY <1>5, NoDeadlockIn DEF vars, Ordered
  <2> QED BY <2>0, <2>1, <2>2, <2>3 DEF Ordered
<1> QED BY <1>1, <1>2, <1>3, <1>4, <1>5 DEF Next

\* The invariant behind the theorems below.
LEMMA AlwaysOrdered == Spec => []Ordered
<1>1. Init => Ordered
  BY StartOrdered
<1>2. Ordered /\ [Next]_vars => Ordered'
  BY NextOrdered
<1> QED BY <1>1, <1>2, PTL DEF Spec

\* Whatever is locked, unlocked, split and joined, in whatever order, by any
\* number of threads: the list of a file keeps the locks of an owner together,
\* ordered and disjoint, a sleeping thread is linked to a lock that is in its way
\* unless that lock was cut, and nobody is linked to two locks or to its own.
THEOREM FlockInv == Spec => []Inv
<1>1. Ordered => Inv
  BY DEF Ordered, Inv
<1> QED BY <1>1, AlwaysOrdered, PTL

\* detect_deadlock, which looks at one chain at the moment a thread goes to sleep,
\* is enough: no number of threads ever waits in a circle, and its search ends.
THEOREM FlockNoDeadlock == Spec => []NoDeadlock
<1>1. Ordered => NoDeadlock
  BY DEF Ordered
<1> QED BY <1>1, AlwaysOrdered, PTL

-----------------------------------------------------------------------------
(* The lists implement a table of byte locks.                              *)

\* Mode in the list L.
ModeOf(L, t, b) ==
  LET R == {l \in Members(L) : l.owner = t /\ b \in l.start..l.end}
  IN  IF R = {} THEN "F_UNLCK" ELSE (CHOOSE l \in R : TRUE).mode

\* In a sorted list a thread holds a byte in at most one mode.
LEMMA ModeIs ==
  ASSUME NEW L \in Seq(Lock), Sorted(L), NEW t, NEW b \in Int
  PROVE  /\ \A m : Holds(L, t, b, m) => ModeOf(L, t, b) = m
         /\ (\A m : ~Holds(L, t, b, m)) => ModeOf(L, t, b) = "F_UNLCK"
         /\ \/ \A m : ~Holds(L, t, b, m)
            \/ \E m \in {"F_RDLCK", "F_WRLCK"} : Holds(L, t, b, m)
<1> DEFINE R == {l \in Members(L) : l.owner = t /\ b \in l.start..l.end}
<1>0. ModeOf(L, t, b) = IF R = {} THEN "F_UNLCK" ELSE (CHOOSE l \in R : TRUE).mode
  BY DEF ModeOf
<1>1. \A k \in 1..Len(L) : L[k].start \in Int /\ L[k].end \in Int /\ L[k].mode \in {"F_RDLCK", "F_WRLCK"}
  BY LockFields
<1>2. \A l \in R : \E k \in 1..Len(L) : l = L[k] /\ L[k].owner = t /\ L[k].start <= b /\ b <= L[k].end
  BY <1>1 DEF Members
<1>3. \A k \in 1..Len(L) : L[k].owner = t /\ L[k].start <= b /\ b <= L[k].end => L[k] \in R
  BY <1>1 DEF Members
<1> HIDE DEF R
<1>4. ASSUME NEW m, Holds(L, t, b, m) PROVE ModeOf(L, t, b) = m
  <2>1. PICK k \in 1..Len(L) : L[k].owner = t /\ L[k].mode = m /\ L[k].start <= b /\ b <= L[k].end
    BY <1>4 DEF Holds
  <2> DEFINE l == CHOOSE l \in R : TRUE
  <2>2. l \in R /\ R # {}
    BY <1>3, <2>1
  <2>3. PICK j \in 1..Len(L) : l = L[j] /\ L[j].owner = t /\ L[j].start <= b /\ b <= L[j].end
    BY <1>2, <2>2
  <2>4. ~(j < k) /\ ~(k < j)
    <3>1. j < k => L[j].end < L[k].start
      BY <2>1, <2>3 DEF Sorted
    <3>2. k < j => L[k].end < L[j].start
      BY <2>1, <2>3 DEF Sorted
    <3> QED BY <1>1, <2>1, <2>3, <3>1, <3>2
  <2>5. j = k
    BY <2>4
  <2> QED BY <1>0, <2>1, <2>2, <2>3, <2>5
<1>5. ASSUME \A m : ~Holds(L, t, b, m) PROVE ModeOf(L, t, b) = "F_UNLCK"
  <2>1. R = {}
    BY <1>2, <1>5 DEF Holds
  <2> QED BY <1>0, <2>1
<1>6. ASSUME NEW m, Holds(L, t, b, m) PROVE m \in {"F_RDLCK", "F_WRLCK"}
  BY <1>1, <1>6 DEF Holds
<1> QED BY <1>4, <1>5, <1>6

\* Lists that hold the same bytes give the same mode.
LEMMA ModeSame ==
  ASSUME NEW L \in Seq(Lock), Sorted(L), NEW M \in Seq(Lock), Sorted(M), NEW t, NEW b \in Int,
         \A m : Holds(M, t, b, m) <=> Holds(L, t, b, m)
  PROVE  ModeOf(M, t, b) = ModeOf(L, t, b)
<1>1. CASE \A m : ~Holds(L, t, b, m)
  BY <1>1, ModeIs
<1>2. CASE \E m : Holds(L, t, b, m)
  <2>1. PICK m : Holds(L, t, b, m)
    BY <1>2
  <2>2. Holds(M, t, b, m)
    BY <2>1
  <2> QED BY <2>1, <2>2, ModeIs
<1> QED BY <1>1, <1>2

TableOf(F) == [i \in Inodes |-> [t \in Threads |-> [b \in Offsets |-> ModeOf(F[i], t, b)]]]

\* The table of the byte locks as a function of the lists.
LEMMA TableIs == Table = TableOf(i_psFirstLock) /\ Table' = TableOf(i_psFirstLock')
BY DEF Table, TableOf, Mode, ModeOf, Members

\* Lists with the same modes give the same table.
LEMMA TableSame ==
  ASSUME NEW F, NEW G, \A i \in Inodes, t \in Threads, b \in Offsets : ModeOf(G[i], t, b) = ModeOf(F[i], t, b)
  PROVE  TableOf(G) = TableOf(F)
BY DEF TableOf

\* The lists F with mode m on the bytes B of file i for thread t ...
Paints(F, G, i, t, B, m) ==
  \A j \in Inodes, u \in Threads, b \in Offsets :
    ModeOf(G[j], u, b) = IF j = i /\ u = t /\ b \in B THEN m ELSE ModeOf(F[j], u, b)

\* ... and the table of F with it.
Painted(F, i, t, B, m) ==
  [TableOf(F) EXCEPT ![i][t] = [b \in 0..MaxOffset |-> IF b \in B THEN m ELSE @[b]]]

\* A change of one thread's bytes of one inode sets them in the table.
LEMMA TableSet ==
  ASSUME NEW F, NEW G, NEW i \in Inodes, NEW t \in Threads, NEW B, NEW m,
         Paints(F, G, i, t, B, m)
  PROVE  TableOf(G) = Painted(F, i, t, B, m)
<1> DEFINE T == TableOf(F)
           row == [b \in Offsets |-> IF b \in B THEN m ELSE T[i][t][b]]
<1>1. T = [j \in Inodes |-> [u \in Threads |-> [b \in Offsets |-> ModeOf(F[j], u, b)]]]
  BY DEF TableOf
<1>2. \A b \in Offsets : T[i][t][b] = ModeOf(F[i], t, b)
  BY <1>1
<1>3. row = [b \in Offsets |-> ModeOf(G[i], t, b)]
  BY <1>2 DEF Paints
<1>4. [T EXCEPT ![i][t] = row]
        = [j \in Inodes |-> [u \in Threads |-> IF j = i /\ u = t THEN row ELSE T[j][u]]]
  BY <1>1
<1>5. \A j \in Inodes, u \in Threads :
        (IF j = i /\ u = t THEN row ELSE T[j][u]) = [b \in Offsets |-> ModeOf(G[j], u, b)]
  <2>1. TAKE j \in Inodes, u \in Threads
  <2>2. CASE j = i /\ u = t
    BY <1>3, <2>2
  <2>3. CASE ~(j = i /\ u = t)
    <3>1. T[j][u] = [b \in Offsets |-> ModeOf(F[j], u, b)]
      BY <1>1
    <3> QED BY <2>3, <3>1 DEF Paints
  <2> QED BY <2>2, <2>3
<1>6. TableOf(G) = [j \in Inodes |-> [u \in Threads |-> [b \in Offsets |-> ModeOf(G[j], u, b)]]]
  BY DEF TableOf
<1>7. TableOf(G) = [T EXCEPT ![i][t] = row]
  <2> DEFINE P(j, u) == IF j = i /\ u = t THEN row ELSE T[j][u]
             Q(j, u) == [b \in Offsets |-> ModeOf(G[j], u, b)]
  <2>1. \A j \in Inodes, u \in Threads : P(j, u) = Q(j, u)
    BY <1>5
  <2>2. [T EXCEPT ![i][t] = row] = [j \in Inodes |-> [u \in Threads |-> P(j, u)]]
    BY <1>4
  <2>3. TableOf(G) = [j \in Inodes |-> [u \in Threads |-> Q(j, u)]]
    BY <1>6
  <2> HIDE DEF P, Q, T, row
  <2>4. \A j \in Inodes : [u \in Threads |-> P(j, u)] = [u \in Threads |-> Q(j, u)]
    BY <2>1
  <2> QED BY <2>2, <2>3, <2>4
<1> QED BY <1>7 DEF Offsets, Painted

\* A list whose bytes are those of L but for the range n, which has mode.
LEMMA WritesMode ==
  ASSUME NEW L \in Seq(Lock), Sorted(L), NEW M \in Seq(Lock), Sorted(M),
         NEW n, NEW mode, Writes(L, M, n, mode), NEW u, NEW b \in Int
  PROVE  ModeOf(M, u, b) = IF u = n.owner /\ n.start <= b /\ b <= n.end THEN mode ELSE ModeOf(L, u, b)
<1>1. CASE u = n.owner /\ n.start <= b /\ b <= n.end
  <2>1. Holds(M, u, b, mode)
    BY <1>1 DEF Writes
  <2> QED BY <1>1, <2>1, ModeIs
<1>2. CASE ~(u = n.owner /\ n.start <= b /\ b <= n.end)
  <2>1. \A m : Holds(M, u, b, m) <=> Holds(L, u, b, m)
    BY <1>2 DEF Writes
  <2> QED BY <1>2, <2>1, ModeSame
<1> QED BY <1>1, <1>2

\* The mode of a byte after a range was carved out.
LEMMA CarvedMode ==
  ASSUME NEW L \in Seq(Lock), Sorted(L), NEW n, IsRange(n), NEW u, NEW b \in Int
  PROVE  ModeOf(Below(L, n) \o Above(L, n), u, b)
           = IF u = n.owner /\ n.start <= b /\ b <= n.end THEN "F_UNLCK" ELSE ModeOf(L, u, b)
<1> DEFINE M == Below(L, n) \o Above(L, n)
<1>1. M \in Seq(Lock) /\ Sorted(M)
  BY CarveIs DEF Becomes
<1>2. \A m : Holds(M, u, b, m) <=> Holds(L, u, b, m) /\ ~(u = n.owner /\ n.start <= b /\ b <= n.end)
  BY CarveIs
<1> HIDE DEF M
<1>3. ASSUME u = n.owner, n.start <= b, b <= n.end PROVE ModeOf(M, u, b) = "F_UNLCK"
  <2>1. \A m : ~Holds(M, u, b, m)
    BY <1>2, <1>3
  <2> QED BY <1>1, <2>1, ModeIs
<1>4. ASSUME ~(u = n.owner /\ n.start <= b /\ b <= n.end) PROVE ModeOf(M, u, b) = ModeOf(L, u, b)
  <2>1. \A m : Holds(M, u, b, m) <=> Holds(L, u, b, m)
    BY <1>2, <1>4
  <2> QED BY <1>1, <2>1, ModeSame
<1> QED BY <1>3, <1>4 DEF M

\* One list changes, and no byte does.
LEMMA TableKept ==
  ASSUME NEW F \in [Inodes -> Seq(Lock)], \A j \in Inodes : Sorted(F[j]), NEW i \in Inodes,
         NEW M \in Seq(Lock), Sorted(M), \A u, m : \A b \in Int : Holds(M, u, b, m) <=> Holds(F[i], u, b, m)
  PROVE  TableOf([F EXCEPT ![i] = M]) = TableOf(F)
<1> DEFINE G == [F EXCEPT ![i] = M]
<1>1. \A j \in Inodes : G[j] = IF j = i THEN M ELSE F[j]
  OBVIOUS
<1>2. \A b \in Offsets : b \in Int
  BY FlockTypes DEF Offsets
<1>3. F[i] \in Seq(Lock) /\ Sorted(F[i])
  OBVIOUS
<1> HIDE DEF G
<1>4. ASSUME NEW j \in Inodes, NEW u \in Threads, NEW b \in Offsets PROVE ModeOf(G[j], u, b) = ModeOf(F[j], u, b)
  <2>1. CASE j = i
    <3>1. ModeOf(M, u, b) = ModeOf(F[i], u, b)
      BY <1>2, <1>3, ModeSame
    <3> QED BY <1>1, <2>1, <3>1
  <2>2. CASE j # i
    BY <1>1, <2>2
  <2> QED BY <2>1, <2>2
<1>5. TableOf(G) = TableOf(F)
  BY <1>4, TableSame
<1> QED BY <1>5 DEF G

\* A request that conflicts with no lock is compatible with every byte.
LEMMA NoConflict ==
  ASSUME NEW L \in Seq(Lock), Sorted(L), NEW n \in Lock, Conflicts(L, n) = {}, NEW u, NEW b \in n.start..n.end
  PROVE  ModeOf(L, u, b) = "F_UNLCK" \/ (n.mode = "F_RDLCK" /\ ModeOf(L, u, b) = "F_RDLCK")
<1>0. n.start \in Int /\ n.end \in Int /\ b \in Int /\ n.start <= b /\ b <= n.end /\ n.mode \in {"F_RDLCK", "F_WRLCK"}
  BY FlockTypes DEF Lock, Offsets
<1>1. CASE \A m : ~Holds(L, u, b, m)
  BY <1>0, <1>1, ModeIs
<1>2. CASE \E m \in {"F_RDLCK", "F_WRLCK"} : Holds(L, u, b, m)
  <2>1. PICK m \in {"F_RDLCK", "F_WRLCK"} : Holds(L, u, b, m)
    BY <1>2
  <2>2. PICK k \in 1..Len(L) : L[k].mode = m /\ L[k].start <= b /\ b <= L[k].end
    BY <2>1 DEF Holds
  <2>3. L[k].start \in Int /\ L[k].end \in Int
    BY LockFields
  <2>4. ~locks_conflict(L[k], n)
    BY DEF Conflicts
  <2>5. locks_overlap(L[k], n)
    BY <1>0, <2>2, <2>3 DEF locks_overlap
  <2>6. m = "F_RDLCK" /\ n.mode = "F_RDLCK"
    BY <1>0, <2>2, <2>4, <2>5 DEF locks_conflict
  <2>7. ModeOf(L, u, b) = m
    BY <1>0, <2>1, ModeIs
  <2> QED BY <2>6, <2>7
<1> QED BY <1>0, <1>1, <1>2, ModeIs

\* A turn of the lock loop is a lock of the range or changes no byte.
LEMMA TryLockBytes ==
  ASSUME Ordered, NEW t \in Threads, NEW i, NEW L, NEW n, NEW bWait,
         Ready(t, i, L, n), TryLock(t, i, L, n, bWait)
  PROVE  [Bytes!Next]_Table
<1> DEFINE F == i_psFirstLock
           K == Conflicts(L, n)
           k == CHOOSE k \in K : \A j \in K : k <= j
<1>1. F \in [Inodes -> Seq(Lock)] /\ \A j \in Inodes : Sorted(F[j])
  BY DEF Ordered, TypeOK, SortedDisjoint
<1>2. /\ i \in Inodes /\ n \in Lock /\ IsRequest(t, n) /\ L \in Seq(Lock) /\ Sorted(L)
      /\ \A u, m : \A b \in Int : Holds(L, u, b, m) <=> Holds(F[i], u, b, m)
  BY DEF Ready
<1>3. n.owner = t /\ n.waiters = {} /\ n.start <= n.end
  BY <1>2, RequestIs
<1>4. \A b \in Offsets : b \in Int
  BY FlockTypes DEF Offsets
<1>5. CASE K = {} /\ insert_lock(t, i, L, n)
  <2> DEFINE j == Joined(Below(L, n), n, Above(L, n))
             M == j.list
             G == [F EXCEPT ![i] = M]
             B == n.start..n.end
  <2>1. M \in Seq(Lock) /\ Sorted(M) /\ Writes(L, M, n, n.mode)
    BY <1>2, <1>3, InsertIs DEF Becomes
  <2>2. i_psFirstLock' = G
    BY <1>5 DEF insert_lock
  <2> HIDE DEF M, F
  <2>3. \A h \in Inodes : G[h] = IF h = i THEN M ELSE F[h]
    BY <1>1, <1>2
  <2>4. n.start \in Int /\ n.end \in Int /\ B \subseteq Offsets
    BY <1>2, FlockTypes DEF Lock, Offsets
  <2>5. \A u : \A b \in Int : ModeOf(L, u, b) = ModeOf(F[i], u, b)
    BY <1>1, <1>2, ModeSame
  <2>6. \A u : \A b \in Int : ModeOf(M, u, b) = IF u = t /\ n.start <= b /\ b <= n.end THEN n.mode ELSE ModeOf(F[i], u, b)
    BY <1>2, <1>3, <2>1, <2>5, WritesMode
  <2> HIDE DEF G
  <2>7. ASSUME NEW h \in Inodes, NEW u \in Threads, NEW b \in Offsets
        PROVE  ModeOf(G[h], u, b) = IF h = i /\ u = t /\ b \in B THEN n.mode ELSE ModeOf(F[h], u, b)
    <3>1. b \in Int /\ (b \in B <=> n.start <= b /\ b <= n.end)
      BY <1>4, <2>4
    <3> QED BY <2>3, <2>6, <3>1
  <2> HIDE DEF B
  <2>8. TableOf(G) = Painted(F, i, t, B, n.mode)
    <3>1. Paints(F, G, i, t, B, n.mode)
      BY <2>7 DEF Paints
    <3> QED BY <1>2, <3>1, TableSet
  <2>9. Bytes!Set(t, i, B, n.mode)
    BY <2>2, <2>8, TableIs DEF Bytes!Set, F, Painted
  <2>10. Bytes!Compatible(t, i, B, n.mode)
    <3>1. ASSUME NEW u \in Threads \ {t}, NEW b \in B
          PROVE  Table[i][u][b] = "F_UNLCK" \/ (n.mode = "F_RDLCK" /\ Table[i][u][b] = "F_RDLCK")
      <4>1. b \in Offsets /\ b \in Int
        BY <1>4, <2>4
      <4>2. Table[i][u][b] = ModeOf(F[i], u, b)
        BY <1>2, <4>1, TableIs DEF TableOf, F
      <4>3. ModeOf(L, u, b) = "F_UNLCK" \/ (n.mode = "F_RDLCK" /\ ModeOf(L, u, b) = "F_RDLCK")
        BY <1>2, <1>5, NoConflict DEF B
      <4> QED BY <2>5, <4>1, <4>2, <4>3
    <3> QED BY <3>1 DEF Bytes!Compatible
  <2>11. Bytes!Acquire(t, i, B, n.mode)
    BY <2>9, <2>10 DEF Bytes!Acquire
  <2>12. \E q \in Requests[t] : q[1]..q[2] = B /\ q[3] = n.mode
    <3> DEFINE q == <<n.start, n.end, n.mode>>
    <3>1. q \in Requests[t] /\ q[1] = n.start /\ q[2] = n.end /\ q[3] = n.mode
      BY <1>2 DEF IsRequest
    <3> HIDE DEF q
    <3> QED BY <3>1 DEF B
  <2>13. PICK q \in Requests[t] : q[1]..q[2] = B /\ q[3] = n.mode
    BY <2>12
  <2>14. Bytes!Acquire(t, i, q[1]..q[2], q[3])
    BY <2>11, <2>13
  <2>15. Bytes!Next
    BY <1>2, <2>14 DEF Bytes!Next
  <2> QED BY <2>15
<1>6. CASE i_psFirstLock' = [F EXCEPT ![i] = L]
  <2>1. TableOf([F EXCEPT ![i] = L]) = TableOf(F)
    <3> HIDE DEF F
    <3> QED BY <1>1, <1>2, TableKept
  <2> QED BY <1>6, <2>1, TableIs
<1>7. CASE K # {} /\ i_psFirstLock' = [F EXCEPT ![i] = [L EXCEPT ![k].waiters = @ \cup {t}]]
  <2> DEFINE M == [L EXCEPT ![k].waiters = @ \cup {t}]
  <2>1. k \in 1..Len(L)
    BY <1>2, <1>7, FirstConflict
  <2> HIDE DEF k, K
  <2>2. M \in Seq(Lock) /\ Alike(L, M)
    BY <1>2, <2>1, LinkIs
  <2>3. i_psFirstLock' = [F EXCEPT ![i] = M]
    BY <1>7
  <2> HIDE DEF M, F
  <2>4. Sorted(M) /\ \A u, m : \A b \in Int : Holds(M, u, b, m) <=> Holds(F[i], u, b, m)
    BY <1>2, <2>2, AlikeIs
  <2>5. TableOf([F EXCEPT ![i] = M]) = TableOf(F)
    BY <1>1, <1>2, <2>2, <2>4, TableKept
  <2> QED BY <2>3, <2>5, TableIs DEF F
<1> QED BY <1>5, <1>6, <1>7 DEF TryLock

\* unlock_inode_record is an unlock of its range.
LEMMA UnlockBytes ==
  ASSUME Ordered, NEW t \in Threads, NEW i \in Inodes, NEW q \in Requests[t], unlock_inode_record(t, i, q)
  PROVE  [Bytes!Next]_Table
<1> DEFINE F == i_psFirstLock
           n == [owner |-> t, start |-> q[1], end |-> q[2]]
           M == Below(F[i], n) \o Above(F[i], n)
           G == [F EXCEPT ![i] = M]
           B == q[1]..q[2]
<1>1. F \in [Inodes -> Seq(Lock)] /\ \A j \in Inodes : Sorted(F[j])
  BY DEF Ordered, TypeOK, SortedDisjoint
<1>2. i_psFirstLock' = G \/ UNCHANGED i_psFirstLock
  BY DEF unlock_inode_record
<1>3. IsRange(n)
  BY RangeOf
<1>4. (\A b \in Offsets : b \in Int) /\ q[1] \in Int /\ q[2] \in Int
  BY FlockTypes DEF Offsets
<1>5. n.owner = t /\ n.start = q[1] /\ n.end = q[2]
  OBVIOUS
<1> HIDE DEF n, F
<1>6. \A u : \A b \in Int : ModeOf(M, u, b) = IF u = t /\ q[1] <= b /\ b <= q[2] THEN "F_UNLCK" ELSE ModeOf(F[i], u, b)
  BY <1>1, <1>3, <1>5, CarvedMode
<1> HIDE DEF M
<1>7. \A h \in Inodes : G[h] = IF h = i THEN M ELSE F[h]
  BY <1>1
<1> HIDE DEF G
<1>8. ASSUME NEW h \in Inodes, NEW u \in Threads, NEW b \in Offsets
      PROVE  ModeOf(G[h], u, b) = IF h = i /\ u = t /\ b \in B THEN "F_UNLCK" ELSE ModeOf(F[h], u, b)
  <2>1. b \in Int /\ (b \in B <=> q[1] <= b /\ b <= q[2])
    BY <1>4
  <2> QED BY <1>6, <1>7, <2>1
<1>9. TableOf(G) = Painted(F, i, t, B, "F_UNLCK")
  <2> HIDE DEF B
  <2>1. Paints(F, G, i, t, B, "F_UNLCK")
    BY <1>8 DEF Paints
  <2> QED BY <2>1, TableSet
<1>10. CASE i_psFirstLock' = G
  <2>1. Bytes!Release(t, i, B)
    BY <1>9, <1>10, TableIs DEF Bytes!Release, Bytes!Set, F, Painted
  <2> QED BY <2>1 DEF Bytes!Next
<1>11. CASE UNCHANGED i_psFirstLock
  BY <1>11, TableIs
<1> QED BY <1>2, <1>10, <1>11

\* flock_thread_died frees the bytes of the thread.
LEMMA DiedBytes ==
  ASSUME Ordered, NEW t \in Threads, flock_thread_died(t)
  PROVE  [Bytes!Next]_Table
<1> DEFINE F == i_psFirstLock
           n == [owner |-> t, start |-> 0, end |-> MaxOffset]
           M(i) == Below(F[i], n) \o Above(F[i], n)
           none == [b \in Offsets |-> "F_UNLCK"]
<1>1. F \in [Inodes -> Seq(Lock)] /\ \A j \in Inodes : Sorted(F[j])
  BY DEF Ordered, TypeOK, SortedDisjoint
<1>2. i_psFirstLock' = [i \in Inodes |-> M(i)]
  BY DEF flock_thread_died
<1>3. IsRange(n) /\ n.owner = t /\ n.start = 0 /\ n.end = MaxOffset /\ MaxOffset \in Nat
  BY FlockTypes DEF IsRange, Offsets
<1> HIDE DEF n, F
<1>4. ASSUME NEW i \in Inodes, NEW u \in Threads, NEW b \in Offsets
      PROVE  ModeOf(M(i), u, b) = IF u = t THEN "F_UNLCK" ELSE ModeOf(F[i], u, b)
  <2>1. b \in Int /\ 0 <= b /\ b <= MaxOffset
    BY <1>3 DEF Offsets
  <2> QED BY <1>1, <1>3, <2>1, CarvedMode
<1> HIDE DEF M
<1>5. Table = [i \in Inodes |-> [u \in Threads |-> [b \in Offsets |-> ModeOf(F[i], u, b)]]]
  BY TableIs DEF TableOf, F
<1>6. Table' = [i \in Inodes |-> [u \in Threads |-> [b \in Offsets |-> ModeOf(M(i), u, b)]]]
  BY <1>2, TableIs DEF TableOf
<1>7. ASSUME NEW i \in Inodes, NEW u \in Threads
      PROVE  [b \in Offsets |-> ModeOf(M(i), u, b)] = IF u = t THEN none ELSE [b \in Offsets |-> ModeOf(F[i], u, b)]
  <2>1. CASE u = t
    BY <1>4, <2>1
  <2>2. CASE u # t
    BY <1>4, <2>2
  <2> QED BY <2>1, <2>2
<1> DEFINE P(i, u) == [b \in Offsets |-> ModeOf(M(i), u, b)]
           Q(i, u) == [b \in Offsets |-> ModeOf(F[i], u, b)]
<1>8. /\ \A i \in Inodes, u \in Threads : P(i, u) = IF u = t THEN none ELSE Q(i, u)
      /\ Table = [i \in Inodes |-> [u \in Threads |-> Q(i, u)]]
      /\ Table' = [i \in Inodes |-> [u \in Threads |-> P(i, u)]]
  BY <1>5, <1>6, <1>7
<1> HIDE DEF P, Q, none
<1>9. \A i \in Inodes : [u \in Threads |-> P(i, u)] = [Table[i] EXCEPT ![t] = none]
  <2>1. TAKE i \in Inodes
  <2>2. Table[i] = [u \in Threads |-> Q(i, u)]
    BY <1>8
  <2>3. \A u \in Threads : P(i, u) = IF u = t THEN none ELSE Q(i, u)
    BY <1>8
  <2> QED BY <2>2, <2>3
<1>10. Table' = [i \in Inodes |-> [Table[i] EXCEPT ![t] = none]]
  BY <1>8, <1>9
<1>11. Bytes!Die(t)
  BY <1>10 DEF Bytes!Die, none, Offsets
<1> QED BY <1>11 DEF Bytes!Next

\* Every step is a step of the byte locks or changes no byte.
LEMMA BytesStep ==
  ASSUME Ordered, [Next]_vars PROVE [Bytes!Next]_Table
<1>1. ASSUME NEW t \in Threads, Call(t) PROVE [Bytes!Next]_Table
  <2>1. PICK i \in Inodes, q \in Requests[t] :
          (\E w \in BOOLEAN : lock_inode_record(t, i, q, w)) \/ unlock_inode_record(t, i, q)
    BY <1>1 DEF Call
  <2>2. CASE \E w \in BOOLEAN : lock_inode_record(t, i, q, w)
    BY <2>2, CallReady, TryLockBytes DEF lock_inode_record
  <2>3. CASE unlock_inode_record(t, i, q)
    BY <2>3, UnlockBytes
  <2> QED BY <2>1, <2>2, <2>3
<1>2. ASSUME NEW t \in Threads, lock_inode_record_resume(t) PROVE [Bytes!Next]_Table
  <2> DEFINE i == new[t][1]
             F == i_psFirstLock
             L == rem_lock_waiter(F[i], t)
             n == new[t][2]
  <2>1. pc[t] \in {"relock", "relock_EINTR"}
    BY <1>2 DEF lock_inode_record_resume
  <2>2. /\ i \in Inodes /\ n \in Lock /\ IsRequest(t, n)
        /\ L \in Seq(Lock) /\ Sorted(L) /\ Rings(F[i], L, {t}, {})
        /\ \A j \in 1..Len(L) : t \notin L[j].waiters
        /\ \A j \in Inodes \ {i} : \A k \in 1..Len(F[j]) : t \notin F[j][k].waiters
        /\ \A u, m : \A b \in Int : Holds(L, u, b, m) <=> Holds(F[i], u, b, m)
    BY <2>1, Unlinked
  <2>3. \/ pc[t] = "relock" /\ TryLock(t, i, L, n, TRUE)
        \/ i_psFirstLock' = [F EXCEPT ![i] = L]
    BY <1>2 DEF lock_inode_record_resume
  <2> HIDE DEF i, L, n
  <2>4. CASE pc[t] = "relock" /\ TryLock(t, i, L, n, TRUE)
    <3>1. Ready(t, i, L, n)
      BY <2>2, <2>4 DEF Ready
    <3> QED BY <2>4, <3>1, TryLockBytes
  <2>5. CASE i_psFirstLock' = [F EXCEPT ![i] = L]
    <3>1. F \in [Inodes -> Seq(Lock)] /\ \A j \in Inodes : Sorted(F[j])
      BY DEF Ordered, TypeOK, SortedDisjoint
    <3>2. TableOf([F EXCEPT ![i] = L]) = TableOf(F)
      <4> HIDE DEF F
      <4> QED BY <2>2, <3>1, TableKept
    <3> QED BY <2>5, <3>2, TableIs
  <2> QED BY <2>3, <2>4, <2>5
<1>3. ASSUME NEW t \in Threads, suspend_returns(t) \/ exit_thread(t) \/ send_signal(t) \/ handle_signals(t)
      PROVE  [Bytes!Next]_Table
  <2>1. UNCHANGED i_psFirstLock
    BY <1>3 DEF suspend_returns, exit_thread, send_signal, handle_signals
  <2> QED BY <2>1, TableIs
<1>4. ASSUME NEW t \in Threads, flock_thread_died(t) PROVE [Bytes!Next]_Table
  BY <1>4, DiedBytes
<1>5. CASE UNCHANGED vars
  BY <1>5, TableIs DEF vars
<1> QED BY <1>1, <1>2, <1>3, <1>4, <1>5 DEF Next, Continue

\* No lists, no bytes.
LEMMA BytesInit ==
  ASSUME Init PROVE Bytes!Init
<1>1. \A i \in Inodes : Members(i_psFirstLock[i]) = {}
  BY DEF Init, Members
<1>2. \A i \in Inodes, t \in Threads, b \in Offsets : Mode(i, t, b) = "F_UNLCK"
  BY <1>1 DEF Mode
<1> QED BY <1>2 DEF Bytes!Init, Table, Offsets

\* Searching, cutting, splitting and joining the locks of a file is, for any
\* requests of any number of threads, one atomic change of the bytes of its own
\* range, made when no other thread stands in the way; failed and interrupted
\* calls change no byte, and a thread that dies leaves none locked.
THEOREM FlockImplementsByteLocks == Spec => ImplementsByteLocks
<1>1. Init => Bytes!Init
  BY BytesInit
<1>2. Ordered /\ [Next]_vars => [Bytes!Next]_Table
  BY BytesStep
<1> QED BY <1>1, <1>2, AlwaysOrdered, PTL DEF Spec, ImplementsByteLocks, Bytes!Spec

=============================================================================
