------------------------------ MODULE Modular ------------------------------
(***************************************************************************)
(* Facts about remainders, for counters that wrap and for indices of       *)
(* ring buffers, and about sets of indices.                                *)
(***************************************************************************)
EXTENDS Integers, FiniteSetTheorems, TLAPS

\* Division with remainder.
LEMMA DivMod ==
  ASSUME NEW x \in Int, NEW d \in Nat \ {0}
  PROVE  /\ x \div d \in Int /\ x % d \in 0..(d - 1)
         /\ x = d * (x \div d) + (x % d)
  OBVIOUS

\* Multiples of d are at least d apart.
LEMMA Apart ==
  ASSUME NEW d \in Nat \ {0}, NEW a \in Int, NEW b \in Int, a < b
  PROVE  d * a + d <= d * b
  OBVIOUS

\* Quotient and remainder are unique.
LEMMA ModUnique ==
  ASSUME NEW d \in Nat \ {0}, NEW q \in Int, NEW r \in 0..(d - 1)
  PROVE  (d * q + r) % d = r
  <1> DEFINE x == d * q + r
             k == x \div d
  <1>0. x \in Int /\ d \in Int /\ r \in Int /\ d * q \in Int
    OBVIOUS
  <1>1. k \in Int /\ x % d \in 0..(d - 1) /\ x = d * k + (x % d)
    BY <1>0, DivMod
  <1>2. d * k \in Int
    BY <1>1
  <1>3. ~(k < q)
    <2> SUFFICES ASSUME k < q PROVE FALSE
      OBVIOUS
    <2>1. d * k + d <= d * q
      BY <1>1, Apart
    <2> HIDE DEF k
    <2> QED
      BY <1>0, <1>1, <1>2, <2>1
  <1>4. ~(q < k)
    <2> SUFFICES ASSUME q < k PROVE FALSE
      OBVIOUS
    <2>1. d * q + d <= d * k
      BY <1>1, Apart
    <2> HIDE DEF k
    <2> QED
      BY <1>0, <1>1, <1>2, <2>1
  <1>5. k = q
    BY <1>1, <1>3, <1>4
  <1> QED
    BY <1>0, <1>1, <1>5

\* A remainder does not see a multiple of the divisor.
LEMMA ModAdd ==
  ASSUME NEW d \in Nat \ {0}, NEW x \in Int, NEW k \in Int
  PROVE  (x + d * k) % d = x % d
  <1> DEFINE q == x \div d
             r == x % d
  <1>1. q \in Int /\ r \in 0..(d - 1) /\ x = d * q + r
    BY DivMod
  <1> HIDE DEF q, r
  <1>2. x + d * k = d * (q + k) + r
    BY <1>1
  <1>3. (d * (q + k) + r) % d = r
    BY <1>1, ModUnique
  <1> QED
    BY <1>2, <1>3 DEF r

\* Numbers less than d apart have different remainders.
LEMMA ModApart ==
  ASSUME NEW d \in Nat \ {0}, NEW x \in Int, NEW e \in 1..(d - 1)
  PROVE  (x + e) % d # x % d
  <1> SUFFICES ASSUME (x + e) % d = x % d PROVE FALSE
    OBVIOUS
  <1> DEFINE q == x \div d
             k == (x + e) \div d
             r == x % d
  <1>1. q \in Int /\ r \in 0..(d - 1) /\ x = d * q + r
    BY DivMod
  <1>2. k \in Int /\ x + e = d * k + r
    <2>1. x + e \in Int
      OBVIOUS
    <2> QED
      BY <2>1, DivMod, Zenon
  <1> HIDE DEF q, k, r
  <1>3. d * q \in Int /\ d * k \in Int
    BY <1>1, <1>2
  <1>4. CASE k < q
    <2>1. d * k + d <= d * q
      BY <1>1, <1>2, <1>4, Apart
    <2> QED
      BY <1>1, <1>2, <1>3, <2>1
  <1>5. CASE q < k
    <2>1. d * q + d <= d * k
      BY <1>1, <1>2, <1>5, Apart
    <2> QED
      BY <1>1, <1>2, <1>3, <2>1
  <1>6. CASE q = k
    BY <1>1, <1>2, <1>3, <1>6
  <1> QED
    BY <1>1, <1>2, <1>4, <1>5, <1>6

\* A number less than two divisors above or one below zero.
LEMMA ModNear ==
  ASSUME NEW d \in Nat \ {0}, NEW x \in Int
  PROVE  /\ 0 <= x /\ x < d => x % d = x
         /\ d <= x /\ x < d + d => x % d = x - d
         /\ -d <= x /\ x < 0 => x % d = x + d
  <1>1. ASSUME 0 <= x, x < d PROVE x % d = x
    <2>1. (d * 0 + x) % d = x
      BY <1>1, ModUnique
    <2> QED
      BY <2>1
  <1>2. ASSUME d <= x, x < d + d PROVE x % d = x - d
    <2>1. x - d \in 0..(d - 1) /\ d * 1 + (x - d) = x
      BY <1>2
    <2>2. (d * 1 + (x - d)) % d = x - d
      BY <2>1, ModUnique
    <2> QED
      BY <2>1, <2>2
  <1>3. ASSUME -d <= x, x < 0 PROVE x % d = x + d
    <2>1. x + d \in 0..(d - 1) /\ d * (-1) + (x + d) = x
      BY <1>3
    <2>2. (d * (-1) + (x + d)) % d = x + d
      BY <2>1, ModUnique
    <2> QED
      BY <2>1, <2>2
  <1> QED
    BY <1>1, <1>2, <1>3

-----------------------------------------------------------------------------
(* Two counters of U values and a ring of N slots that they index *)

Bumped(x, U) == (x + 1) % U
Ahead(lo, hi, U) == (hi - lo) % U

\* The range of the counters is a larger multiple of the ring's size, as
\* 2^16, 2^32 and 2^64 are of the sizes in the code.
Divides(N, U) == N \in Nat \ {0} /\ U \in Nat /\ N < U /\ U % N = 0

\* x++ without the remainder.
LEMMA BumpedIs ==
  ASSUME NEW U \in Nat \ {0}, NEW x \in 0..(U - 1)
  PROVE  /\ Bumped(x, U) = IF x = U - 1 THEN 0 ELSE x + 1
         /\ Bumped(x, U) \in 0..(U - 1)
  <1> DEFINE y == x + 1
  <1>1. y \in Int /\ 0 <= y /\ y < U + U
    OBVIOUS
  <1>2. y % U = IF y < U THEN y ELSE y - U
    <2> HIDE DEF y
    <2> QED
      BY <1>1, ModNear
  <1> QED
    BY <1>2 DEF Bumped

\* The distance without the remainder.
LEMMA AheadIs ==
  ASSUME NEW U \in Nat \ {0}, NEW lo \in 0..(U - 1), NEW hi \in 0..(U - 1)
  PROVE  /\ Ahead(lo, hi, U) = IF lo <= hi THEN hi - lo ELSE hi - lo + U
         /\ Ahead(lo, hi, U) \in 0..(U - 1)
  <1> DEFINE x == hi - lo
  <1>1. x \in Int /\ (IF lo <= hi THEN 0 <= x /\ x < U ELSE -U <= x /\ x < 0)
    OBVIOUS
  <1>2. x % U = IF lo <= hi THEN x ELSE x + U
    <2> HIDE DEF x
    <2> QED
      BY <1>1, ModNear, Zenon
  <1> QED
    BY <1>1, <1>2 DEF Ahead

\* The counters move one at a time.
LEMMA AheadPut ==
  ASSUME NEW U \in Nat \ {0}, NEW lo \in 0..(U - 1), NEW hi \in 0..(U - 1),
         Ahead(lo, hi, U) < U - 1
  PROVE  Ahead(lo, Bumped(hi, U), U) = Ahead(lo, hi, U) + 1
  <1> DEFINE h == Bumped(hi, U)
  <1>1. h = (IF hi = U - 1 THEN 0 ELSE hi + 1) /\ h \in 0..(U - 1)
    BY BumpedIs
  <1>2. Ahead(lo, hi, U) = IF lo <= hi THEN hi - lo ELSE hi - lo + U
    BY AheadIs
  <1> HIDE DEF h
  <1>3. Ahead(lo, h, U) = IF lo <= h THEN h - lo ELSE h - lo + U
    BY <1>1, AheadIs, Zenon
  <1>4. Ahead(lo, h, U) = Ahead(lo, hi, U) + 1
    BY <1>1, <1>2, <1>3
  <1> QED
    BY <1>4 DEF h

\* See AheadPut.
LEMMA AheadTake ==
  ASSUME NEW U \in Nat \ {0}, NEW lo \in 0..(U - 1), NEW hi \in 0..(U - 1), lo # hi
  PROVE  Ahead(Bumped(lo, U), hi, U) = Ahead(lo, hi, U) - 1
  <1> DEFINE l == Bumped(lo, U)
  <1>1. l = (IF lo = U - 1 THEN 0 ELSE lo + 1) /\ l \in 0..(U - 1)
    BY BumpedIs
  <1>2. Ahead(lo, hi, U) = IF lo <= hi THEN hi - lo ELSE hi - lo + U
    BY AheadIs
  <1> HIDE DEF l
  <1>3. Ahead(l, hi, U) = IF l <= hi THEN hi - l ELSE hi - l + U
    BY <1>1, AheadIs, Zenon
  <1>4. Ahead(l, hi, U) = Ahead(lo, hi, U) - 1
    BY <1>1, <1>2, <1>3
  <1> QED
    BY <1>4 DEF l

\* The same for a counter that moves back.
LEMMA AheadBack ==
  ASSUME NEW U \in Nat \ {0}, NEW lo \in 0..(U - 1), NEW hi \in 0..(U - 1), lo # hi
  PROVE  (hi - 1) % U \in 0..(U - 1) /\ Ahead(lo, (hi - 1) % U, U) = Ahead(lo, hi, U) - 1
  <1> DEFINE x == hi - 1
             h == x % U
  <1>1. x \in Int /\ (IF hi = 0 THEN -U <= x /\ x < 0 ELSE 0 <= x /\ x < U)
    OBVIOUS
  <1>2. h = IF hi = 0 THEN x + U ELSE x
    <2> HIDE DEF x
    <2> QED
      BY <1>1, ModNear, Zenon
  <1>3. h \in 0..(U - 1)
    BY <1>2
  <1>4. Ahead(lo, hi, U) = IF lo <= hi THEN hi - lo ELSE hi - lo + U
    BY AheadIs
  <1> HIDE DEF h
  <1>5. Ahead(lo, h, U) = IF lo <= h THEN h - lo ELSE h - lo + U
    BY <1>3, AheadIs, Zenon
  <1>6. Ahead(lo, h, U) = Ahead(lo, hi, U) - 1
    BY <1>2, <1>3, <1>4, <1>5
  <1> QED
    BY <1>3, <1>6 DEF h

\* Back by the whole distance.
LEMMA AheadUndo ==
  ASSUME NEW U \in Nat \ {0}, NEW lo \in 0..(U - 1), NEW hi \in 0..(U - 1)
  PROVE  (hi - Ahead(lo, hi, U)) % U = lo
  <1> DEFINE x == hi - Ahead(lo, hi, U)
  <1>1. Ahead(lo, hi, U) = IF lo <= hi THEN hi - lo ELSE hi - lo + U
    BY AheadIs
  <1>2. x = IF lo <= hi THEN lo ELSE lo - U
    BY <1>1
  <1>3. x \in Int /\ (IF lo <= hi THEN 0 <= x /\ x < U ELSE -U <= x /\ x < 0)
    BY <1>2
  <1>4. x % U = IF lo <= hi THEN x ELSE x + U
    <2> HIDE DEF x
    <2> QED
      BY <1>3, ModNear, Zenon
  <1> QED
    BY <1>2, <1>4

\* The test for a distance of n, and for one of 0.
LEMMA AheadTest ==
  ASSUME NEW U \in Nat \ {0}, NEW lo \in 0..(U - 1), NEW hi \in 0..(U - 1), NEW n \in 0..(U - 1)
  PROVE  /\ hi = (lo + n) % U <=> Ahead(lo, hi, U) = n
         /\ hi = lo <=> Ahead(lo, hi, U) = 0
  <1> DEFINE s == lo + n
  <1>1. Ahead(lo, hi, U) = IF lo <= hi THEN hi - lo ELSE hi - lo + U
    BY AheadIs
  <1>2. s % U = IF s < U THEN s ELSE s - U
    <2>1. s \in Int /\ (IF s < U THEN 0 <= s /\ s < U ELSE U <= s /\ s < U + U)
      OBVIOUS
    <2> HIDE DEF s
    <2> QED
      BY <2>1, ModNear, Zenon
  <1>3. hi = s % U <=> Ahead(lo, hi, U) = n
    BY <1>1, <1>2
  <1>4. hi = lo <=> Ahead(lo, hi, U) = 0
    BY <1>1
  <1> QED
    BY <1>3, <1>4

\* The slot does not notice the wrap of the counter.
LEMMA SlotWraps ==
  ASSUME NEW N, NEW U, Divides(N, U), NEW x \in Int
  PROVE  (x + U) % N = x % N
  <1>1. N \in Nat \ {0} /\ U \in Int /\ U % N = 0
    BY DEF Divides
  <1>2. U \div N \in Int /\ U = N * (U \div N)
    BY <1>1, DivMod
  <1> QED
    BY <1>1, <1>2, ModAdd, ZenonT(40)

\* The slot behind the first Ahead ones is that of the upper counter.
LEMMA SlotOfHigh ==
  ASSUME NEW N, NEW U, Divides(N, U), NEW lo \in 0..(U - 1), NEW hi \in 0..(U - 1)
  PROVE  (lo + Ahead(lo, hi, U)) % N = hi % N
  <1>1. U \in Nat \ {0}
    BY DEF Divides
  <1>2. Ahead(lo, hi, U) = IF lo <= hi THEN hi - lo ELSE hi - lo + U
    BY <1>1, AheadIs
  <1>3. lo + Ahead(lo, hi, U) = IF lo <= hi THEN hi ELSE hi + U
    BY <1>1, <1>2
  <1> QED
    BY <1>3, SlotWraps

\* The slots from the upper counter on.
LEMMA SlotsFromHigh ==
  ASSUME NEW N, NEW U, Divides(N, U), NEW lo \in 0..(U - 1), NEW hi \in 0..(U - 1), NEW k \in Int
  PROVE  (lo + (Ahead(lo, hi, U) + k)) % N = (hi + k) % N
  <1>1. U \in Nat \ {0}
    BY DEF Divides
  <1>2. Ahead(lo, hi, U) = IF lo <= hi THEN hi - lo ELSE hi - lo + U
    BY <1>1, AheadIs
  <1>3. lo + (Ahead(lo, hi, U) + k) = IF lo <= hi THEN hi + k ELSE (hi + k) + U
    BY <1>1, <1>2
  <1>4. ((hi + k) + U) % N = (hi + k) % N
    <2>1. hi + k \in Int
      OBVIOUS
    <2> QED
      BY <2>1, SlotWraps, Zenon
  <1> QED
    BY <1>3, <1>4

\* When the lower counter moves, the slots behind it move up.
LEMMA SlotOfNext ==
  ASSUME NEW N, NEW U, Divides(N, U), NEW lo \in 0..(U - 1), NEW k \in Int
  PROVE  (Bumped(lo, U) + k) % N = (lo + (k + 1)) % N
  <1>1. U \in Nat \ {0}
    BY DEF Divides
  <1>2. Bumped(lo, U) = IF lo = U - 1 THEN 0 ELSE lo + 1
    BY <1>1, BumpedIs
  <1>3. CASE lo = U - 1
    <2>1. lo + (k + 1) = (Bumped(lo, U) + k) + U /\ Bumped(lo, U) + k \in Int
      BY <1>1, <1>2, <1>3
    <2> QED
      BY <2>1, SlotWraps
  <1>4. CASE lo # U - 1
    <2>1. lo + (k + 1) = Bumped(lo, U) + k
      BY <1>1, <1>2, <1>4
    <2> QED
      BY <2>1
  <1> QED
    BY <1>3, <1>4

\* N slots in a row are different, and are all the slots.
LEMMA SlotsDiffer ==
  ASSUME NEW N \in Nat \ {0}, NEW x \in Int,
         NEW j \in 0..(N - 1), NEW k \in 0..(N - 1), j # k
  PROVE  (x + j) % N # (x + k) % N
  <1>1. CASE j < k
    <2>1. x + j \in Int /\ k - j \in 1..(N - 1) /\ (x + j) + (k - j) = x + k
      BY <1>1
    <2> QED
      BY <2>1, ModApart, Zenon
  <1>2. CASE k < j
    <2>1. x + k \in Int /\ j - k \in 1..(N - 1) /\ (x + k) + (j - k) = x + j
      BY <1>2
    <2> QED
      BY <2>1, ModApart, Zenon
  <1> QED
    BY <1>1, <1>2

\* See SlotsDiffer.
LEMMA SlotsAll ==
  ASSUME NEW N \in Nat \ {0}, NEW x \in Int, NEW i \in 0..(N - 1)
  PROVE  \E k \in 0..(N - 1) : (x + k) % N = i
  <1> DEFINE y == i - x
             k == y % N
             q == y \div N
  <1>1. k \in 0..(N - 1) /\ q \in Int /\ y = N * q + k
    <2>1. y \in Int
      OBVIOUS
    <2> HIDE DEF y
    <2> QED
      BY <2>1, DivMod
  <1>2. i = (x + k) + N * q /\ x + k \in Int
    BY <1>1
  <1> HIDE DEF k, q
  <1>3. i % N = (x + k) % N
    BY <1>1, <1>2, ModAdd, Zenon
  <1>4. i % N = i
    BY ModNear
  <1> QED
    BY <1>1, <1>3, <1>4

-----------------------------------------------------------------------------
(* Sets of indices *)

\* A ring of n slots that leaves one of n values out has another one twice.
LEMMA Pigeon ==
  ASSUME NEW n \in Nat, NEW f \in [0..(n - 1) -> 0..(n - 1)], NEW d \in 0..(n - 1),
         \A x \in 0..(n - 1) : f[x] # d
  PROVE  \E x, y \in 0..(n - 1) : x # y /\ f[x] = f[y]
  <1> DEFINE S == 0..(n - 1)
  <1>1. IsFiniteSet(S) /\ Cardinality(S) \in Nat
    <2>1. IsFiniteSet(S)
      BY FS_Interval
    <2> QED
      BY <2>1, FS_CardinalityType
  <1>2. d \in S /\ f \in [S -> S \ {d}]
    OBVIOUS
  <1> HIDE DEF S
  <1>3. IsFiniteSet(S \ {d}) /\ Cardinality(S \ {d}) < Cardinality(S)
    <2>1. /\ IsFiniteSet(S \ {d})
          /\ Cardinality(S \ {d}) = IF d \in S THEN Cardinality(S) - 1 ELSE Cardinality(S)
      BY <1>1, FS_RemoveElement, Zenon
    <2> QED
      BY <1>1, <1>2, <2>1
  <1>4. \E x, y \in S : x # y /\ f[x] = f[y]
    BY <1>1, <1>2, <1>3, FS_PigeonHole
  <1> QED
    BY <1>4 DEF S

=============================================================================
