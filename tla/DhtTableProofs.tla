--------------------------- MODULE DhtTableProofs ---------------------------
(***************************************************************************)
(* Proofs about DhtTable, for ids of any length, buckets of any size and   *)
(* any contacts and times: the table stays a partition of the ids into     *)
(* aligned ranges, which is why new_node comes to an end; what leaves it   *)
(* and what stays out of it; and a reply names the closest nodes.          *)
(***************************************************************************)
EXTENDS DhtTable, WellFoundedInduction, TLAPS

(***************************************************************************)
(* Recursion over the numbers                                              *)
(***************************************************************************)
\* A set of numbers that is not empty has a least element.
LEMMA LeastNumber ==
  ASSUME NEW S \in SUBSET Nat, S # {}
  PROVE  \E m \in S : \A k \in S : m <= k
<1> DEFINE R == OpToRel(<, Nat)
<1>1. \E m \in S : \A k \in S : ~(<<k, m>> \in R)
  <2>1. IsWellFoundedOn(R, Nat)
    BY NatLessThanWellFounded
  <2> HIDE DEF R
  <2> QED
    BY <2>1, WFMin
<1>2. \A m, k \in Nat : ~(<<k, m>> \in R) => m <= k
  BY DEF OpToRel
<1> HIDE DEF R
<1> QED
  BY <1>1, <1>2

\* A set that holds 0 and with a number the next one, up to N, holds all of them.
LEMMA SetInduction ==
  ASSUME NEW N \in Nat, NEW S, 0 \in S, \A n \in 0..N : n \in S /\ n < N => n + 1 \in S
  PROVE  0..N \subseteq S
<1> SUFFICES ASSUME ~(0..N \subseteq S) PROVE FALSE
  OBVIOUS
<1> DEFINE B == {n \in 0..N : n \notin S}
<1>1. B \in SUBSET Nat /\ B # {}
  OBVIOUS
<1>2. PICK m \in B : \A k \in B : m <= k
  <2> HIDE DEF B
  <2> QED
    BY <1>1, LeastNumber
<1>3. m \in 0..N /\ m \notin S /\ m # 0
  OBVIOUS
<1>4. m - 1 \in 0..N /\ m - 1 < N /\ (m - 1) + 1 = m /\ ~(m <= m - 1)
  BY <1>3
<1>5. m - 1 \in S
  BY <1>2, <1>4
<1> QED
  BY <1>3, <1>4, <1>5

\* f is defined by recursion: F[k] makes of its value at k - 1 the one at k.
Recurs(f, N, A, a, F) ==
  f \in [0..N -> A] /\ f[0] = a /\ \A k \in 1..N : f[k] = F[k][f[k - 1]]

\* Such a function exists.
LEMMA Recursion ==
  ASSUME NEW N \in Nat, NEW A, NEW a \in A, NEW F \in [1..N -> [A -> A]]
  PROVE  \E f : Recurs(f, N, A, a, F)
<1> DEFINE Upto(f, n) == f[0] = a /\ \A k \in 1..n : f[k] = F[k][f[k - 1]]
           S == {n \in 0..N : \E f \in [0..n -> A] : Upto(f, n)}
<1>1. 0 \in S
  <2> DEFINE f == [k \in 0..0 |-> a]
  <2>1. f \in [0..0 -> A] /\ f[0] = a /\ \A k \in 1..0 : FALSE
    OBVIOUS
  <2>2. Upto(f, 0)
    <3> HIDE DEF f
    <3> QED
      BY <2>1
  <2>3. 0 \in 0..N
    OBVIOUS
  <2> HIDE DEF f, Upto
  <2> QED
    BY <2>1, <2>2, <2>3
<1>2. ASSUME NEW n \in 0..N, n \in S, n < N PROVE n + 1 \in S
  <2>1. PICK f \in [0..n -> A] : Upto(f, n)
    BY <1>2
  <2>2. n \in 0..n /\ n + 1 \in 1..N /\ n + 1 \in 0..N
    BY <1>2
  <2>3. F[n + 1] \in [A -> A] /\ f[n] \in A
    BY <2>2
  <2> DEFINE x == F[n + 1][f[n]]
             g == [k \in 0..(n + 1) |-> IF k = n + 1 THEN x ELSE f[k]]
  <2>4. x \in A
    BY <2>3
  <2>5. \A k \in 0..(n + 1) : k # n + 1 => k \in 0..n
    OBVIOUS
  <2>6. g \in [0..(n + 1) -> A] /\ g[n + 1] = x /\ \A k \in 0..n : g[k] = f[k]
    <3> HIDE DEF x
    <3> QED
      BY <2>4, <2>5
  <2>7. g[0] = a
    BY <2>1, <2>6
  <2>8. ASSUME NEW k \in 1..(n + 1) PROVE g[k] = F[k][g[k - 1]]
    <3> HIDE DEF g
    <3>1. CASE k = n + 1
      BY <2>2, <2>6, <3>1
    <3>2. CASE k # n + 1
      <4>1. k \in 1..n /\ k \in 0..n /\ k - 1 \in 0..n
        BY <3>2
      <4> QED
        BY <2>1, <2>6, <4>1
    <3> QED
      BY <3>1, <3>2
  <2>9. Upto(g, n + 1)
    <3> HIDE DEF g
    <3> QED
      BY <2>7, <2>8
  <2> HIDE DEF g, Upto
  <2> QED
    BY <2>2, <2>6, <2>9
<1>3. N \in S
  <2> HIDE DEF S
  <2>1. 0..N \subseteq S
    BY <1>1, <1>2, SetInduction
  <2> QED
    BY <2>1
<1> QED
  BY <1>3 DEF Recurs

(***************************************************************************)
(* Powers of two, and the bits of their multiples                          *)
(***************************************************************************)
\* The recursion of Pow2 computes something.
LEMMA Pow2Unfold ==
  /\ Pow2[0] = 1
  /\ \A k \in 1..Bits : Pow2[k] = 2 * Pow2[k - 1]
<1> DEFINE N == Bits
           A == Nat
           F == [k \in 1..N |-> [v \in A |-> 2 * v]]
           G(u) == [k \in 0..N |-> IF k = 0 THEN 1 ELSE 2 * u[k - 1]]
           one == 1
<1>1. N \in Nat /\ one \in A /\ F \in [1..N -> [A -> A]]
  BY TableAssumption
<1>2. PICK f : Recurs(f, N, A, one, F)
  <2> HIDE DEF F, N, A, one, G
  <2> QED
    BY <1>1, Recursion
<1>3. f \in [0..N -> Nat] /\ f[0] = 1 /\ \A k \in 1..N : f[k] = F[k][f[k - 1]]
  BY <1>2 DEF Recurs
<1>4. ASSUME NEW k \in 0..N PROVE f[k] = G(f)[k]
  <2>1. CASE k = 0
    BY <1>3, <2>1
  <2>2. CASE k # 0
    <3>1. k \in 1..N /\ k - 1 \in 0..N
      BY <2>2, <1>1
    <3>2. f[k - 1] \in Nat
      BY <1>3, <3>1
    <3> QED
      BY <1>3, <2>2, <3>1, <3>2
  <2> QED
    BY <2>1, <2>2
<1>5. f = G(f)
  BY <1>3, <1>4
<1>6. Pow2 = CHOOSE u : u = G(u)
  BY DEF Pow2
<1>7. Pow2 = G(Pow2)
  <2> HIDE DEF G
  <2> QED
    BY <1>5, <1>6
<1> DEFINE g == G(Pow2)
<1>8. \A k \in 0..N : g[k] = IF k = 0 THEN 1 ELSE 2 * Pow2[k - 1]
  OBVIOUS
<1>9. 0 \in 0..N /\ \A k \in 1..N : k \in 0..N /\ k # 0
  BY <1>1
<1>10. Pow2 = g
  BY <1>7
<1> HIDE DEF g
<1> QED
  BY <1>8, <1>9, <1>10

\* Powers of two are positive.
LEMMA Pow2Nat ==
  \A k \in 0..Bits : Pow2[k] \in Nat /\ Pow2[k] > 0
<1> DEFINE T == {k \in 0..Bits : Pow2[k] \in Nat /\ Pow2[k] > 0}
<1>1. Bits \in Nat
  BY TableAssumption
<1>2. 0 \in T
  BY <1>1, Pow2Unfold
<1>3. ASSUME NEW k \in 0..Bits, k \in T, k < Bits PROVE k + 1 \in T
  <2>1. k + 1 \in 1..Bits /\ k + 1 \in 0..Bits /\ (k + 1) - 1 = k
    BY <1>1, <1>3
  <2>2. Pow2[k + 1] = 2 * Pow2[k]
    BY <2>1, Pow2Unfold
  <2> QED
    BY <1>3, <2>1, <2>2
<1>4. 0..Bits \subseteq T
  <2> HIDE DEF T
  <2> QED
    BY <1>1, <1>2, <1>3, SetInduction
<1> QED
  BY <1>4

\* A power of two is an even multiple of every smaller one.
LEMMA Pow2Multiple ==
  ASSUME NEW i \in 0..Bits, NEW j \in 0..Bits, i < j
  PROVE  \E m \in Nat : Pow2[j] = (2 * m) * Pow2[i]
<1> DEFINE N == j - i - 1
           T == {k \in 0..N : \E m \in Nat : Pow2[i + 1 + k] = (2 * m) * Pow2[i]}
<1>1. Bits \in Nat /\ N \in Nat
  BY TableAssumption
<1>2. \A k \in 0..N : i + 1 + k \in 1..Bits /\ i + 1 + k \in Nat
  BY <1>1
<1>3. Pow2[i] \in Nat
  BY Pow2Nat
<1>4. 0 \in T
  <2>1. i + 1 + 0 = i + 1 /\ (i + 1) - 1 = i /\ i + 1 \in 1..Bits /\ 0 \in 0..N
    BY <1>1
  <2>2. Pow2[i + 1] = (2 * 1) * Pow2[i]
    BY <2>1, <1>3, Pow2Unfold
  <2>3. Pow2[i + 1 + 0] = (2 * 1) * Pow2[i] /\ 1 \in Nat
    BY <2>1, <2>2
  <2> QED
    BY <2>1, <2>3
<1>5. ASSUME NEW k \in 0..N, k \in T, k < N PROVE k + 1 \in T
  <2>1. PICK m \in Nat : Pow2[i + 1 + k] = (2 * m) * Pow2[i]
    BY <1>5
  <2>2. k + 1 \in 0..N /\ i + 1 + (k + 1) \in 1..Bits /\ (i + 1 + (k + 1)) - 1 = i + 1 + k
    BY <1>1, <1>5
  <2>3. Pow2[i + 1 + (k + 1)] = 2 * ((2 * m) * Pow2[i])
    BY <2>1, <2>2, Pow2Unfold
  <2>4. 2 * m \in Nat /\ 2 * ((2 * m) * Pow2[i]) = (2 * (2 * m)) * Pow2[i]
    BY <1>3
  <2>5. \E l \in Nat : Pow2[i + 1 + (k + 1)] = (2 * l) * Pow2[i]
    BY <2>3, <2>4
  <2> QED
    BY <2>2, <2>5
<1>6. 0..N \subseteq T
  <2> HIDE DEF T, N
  <2> QED
    BY <1>1, <1>4, <1>5, SetInduction
<1>7. N \in T
  <2> HIDE DEF T, N
  <2> QED
    BY <1>1, <1>6
<1>8. i + 1 + N = j
  OBVIOUS
<1> QED
  BY <1>7, <1>8

\* The bits of a multiple of a power of two: the last that may be set tells the parity of
\* the factor.
LEMMA BitOfMultiple ==
  ASSUME NEW d \in 1..Bits, NEW a \in Nat
  PROVE  /\ Bit(a * Pow2[Bits - d], d - 1) = a % 2
         /\ \A k \in d..Bits-1 : Bit(a * Pow2[Bits - d], k) = 0
<1>1. Bits \in Nat /\ Bits - d \in 0..Bits
  BY TableAssumption
<1> DEFINE w == Pow2[Bits - d]
<1>2. w \in Nat /\ w > 0
  BY <1>1, Pow2Nat
<1>3. Bit(a * w, d - 1) = a % 2
  <2>1. Bits - 1 - (d - 1) = Bits - d
    BY <1>1
  <2>2. Bit(a * w, d - 1) = ((a * w) \div w) % 2
    BY <2>1 DEF Bit
  <2> HIDE DEF w
  <2>3. (a * w) \div w = a
    BY <1>2
  <2> QED
    BY <2>2, <2>3
<1>4. ASSUME NEW k \in d..Bits-1 PROVE Bit(a * w, k) = 0
  <2> DEFINE i == Bits - 1 - k
             v == Pow2[i]
  <2>1. i \in 0..Bits /\ i < Bits - d
    BY <1>1
  <2>2. v \in Nat /\ v > 0
    BY <2>1, Pow2Nat
  <2>3. PICK m \in Nat : w = (2 * m) * v
    <3> DEFINE j == Bits - d
    <3>1. j \in 0..Bits /\ i < j
      BY <1>1, <2>1
    <3> HIDE DEF i, j
    <3>2. \E m \in Nat : Pow2[j] = (2 * m) * Pow2[i]
      BY <3>1, <2>1, Pow2Multiple
    <3> QED
      BY <3>2 DEF j
  <2>4. Bit(a * w, k) = ((a * w) \div v) % 2
    BY DEF Bit
  <2> HIDE DEF w, v, i
  <2>5. a * w = (2 * (a * m)) * v /\ a * m \in Nat
    BY <2>2, <2>3
  <2> DEFINE b == a * m
  <2>6. b \in Nat /\ a * w = (2 * b) * v
    BY <2>5
  <2> HIDE DEF b
  <2>7. ((2 * b) * v) \div v = 2 * b /\ (2 * b) % 2 = 0
    <3>1. 2 * b \in Nat
      BY <2>6
    <3> DEFINE e == 2 * b
    <3>2. (2 * b) % 2 = 0
      BY <2>6
    <3>3. e \in Nat
      BY <3>1
    <3> HIDE DEF e
    <3>4. (e * v) \div v = e
      BY <3>3, <2>2
    <3> QED
      BY <3>2, <3>4 DEF e
  <2> QED
    BY <2>4, <2>6, <2>7
<1> QED
  BY <1>3, <1>4

\* An id is an odd multiple of a power of two.
LEMMA OddMultiple ==
  ASSUME NEW id \in Id, id # 0
  PROVE  \E d \in 1..Bits, a \in Nat : id = a * Pow2[Bits - d] /\ a % 2 = 1
<1> DEFINE T == {d \in 0..Bits : \E a \in Nat : id = a * Pow2[Bits - d]}
<1>1. Bits \in Nat /\ id \in Nat /\ id < Pow2[Bits] /\ Pow2[Bits] \in Nat
  BY TableAssumption, Pow2Nat DEF Id
<1>2. Bits \in T
  <2>1. Bits - Bits = 0 /\ Bits \in 0..Bits
    BY <1>1
  <2>2. id = id * Pow2[Bits - Bits]
    BY <1>1, <2>1, Pow2Unfold
  <2> QED
    BY <1>1, <2>1, <2>2
<1>3. PICK d \in T : \A k \in T : d <= k
  <2>1. T \in SUBSET Nat /\ T # {}
    BY <1>2
  <2> HIDE DEF T
  <2> QED
    BY <2>1, LeastNumber
<1>4. PICK a \in Nat : id = a * Pow2[Bits - d]
  OBVIOUS
<1>5. d \in 0..Bits /\ d \in Nat
  BY <1>1
<1>6. d # 0
  <2> SUFFICES ASSUME d = 0 PROVE FALSE
    OBVIOUS
  <2>1. Bits - d = Bits
    BY <1>1
  <2>2. id = a * Pow2[Bits]
    BY <1>4, <2>1
  <2>3. a = 0 \/ a * Pow2[Bits] >= Pow2[Bits]
    <3> DEFINE p == Pow2[Bits]
    <3>1. p \in Nat
      BY <1>1
    <3> HIDE DEF p
    <3>2. a >= 1 => a * p >= p
      BY <3>1
    <3> QED
      BY <3>2 DEF p
  <2>4. a # 0
    <3>1. a = 0 => a * Pow2[Bits] = 0
      BY <1>1
    <3> QED
      BY <3>1, <2>2
  <2> QED
    BY <1>1, <2>2, <2>3, <2>4
<1>7. a % 2 = 1
  <2> SUFFICES ASSUME a % 2 # 1 PROVE FALSE
    OBVIOUS
  <2>1. PICK b \in Nat : a = b * 2
    <3>1. a % 2 = 0
      BY <1>4
    <3>2. a = (a \div 2) * 2 /\ a \div 2 \in Nat
      BY <1>4, <3>1
    <3> QED
      BY <3>2
  <2>2. d - 1 \in 0..Bits /\ Bits - d \in 0..Bits /\ Bits - (d - 1) \in 1..Bits /\ (Bits - (d - 1)) - 1 = Bits - d
        /\ ~(d <= d - 1)
    BY <1>1, <1>5, <1>6
  <2>3. Pow2[Bits - (d - 1)] = 2 * Pow2[Bits - d] /\ Pow2[Bits - d] \in Nat
    BY <2>2, Pow2Unfold, Pow2Nat
  <2>4. id = b * Pow2[Bits - (d - 1)]
    <3> DEFINE p == Pow2[Bits - d]
    <3>1. p \in Nat
      BY <2>3
    <3>2. id = (b * 2) * p
      BY <1>4, <2>1
    <3>3. Pow2[Bits - (d - 1)] = 2 * p
      BY <2>3
    <3> HIDE DEF p
    <3>4. (b * 2) * p = b * (2 * p)
      BY <3>1
    <3> QED
      BY <3>2, <3>3, <3>4
  <2>5. d - 1 \in T
    BY <2>2, <2>4
  <2> QED
    BY <1>3, <2>2, <2>5
<1>8. d \in 1..Bits
  BY <1>1, <1>5, <1>6
<1> QED
  BY <1>4, <1>7, <1>8

\* The lowest bit of an odd multiple, and a bound for that of an even one.
LEMMA LowbitOdd ==
  ASSUME NEW d \in 1..Bits, NEW a \in Nat, a % 2 = 1, a * Pow2[Bits - d] \in Id
  PROVE  lowbit(a * Pow2[Bits - d]) = d - 1
<1> DEFINE id == a * Pow2[Bits - d]
<1>1. Bits \in Nat /\ d - 1 \in 0..Bits-1 /\ Bits - d \in 0..Bits
  BY TableAssumption
<1>2. Bit(id, d - 1) = 1 /\ \A k \in d..Bits-1 : Bit(id, k) = 0
  BY BitOfMultiple
<1>3. id # 0
  <2> DEFINE p == Pow2[Bits - d]
  <2>1. p \in Nat /\ p > 0 /\ a # 0
    BY <1>1, Pow2Nat
  <2> HIDE DEF p
  <2>2. a >= 1 => a * p >= p
    BY <2>1
  <2> QED
    BY <2>1, <2>2 DEF p
<1> HIDE DEF id
<1> DEFINE P(k) == Bit(id, k) = 1 /\ \A j \in k+1..Bits-1 : Bit(id, j) = 0
<1>4. lowbit(id) = CHOOSE k \in 0..Bits-1 : P(k)
  BY <1>3 DEF lowbit
<1>5. P(d - 1)
  <2>1. (d - 1) + 1 = d
    BY <1>1
  <2> QED
    BY <1>2, <2>1
<1>6. ASSUME NEW k \in 0..Bits-1, P(k) PROVE k = d - 1
  <2>1. CASE k > d - 1
    <3>1. k \in d..Bits-1
      BY <1>1, <2>1
    <3> QED
      BY <1>2, <1>6, <3>1
  <2>2. CASE k < d - 1
    <3>1. d - 1 \in k+1..Bits-1
      BY <1>1, <2>2
    <3> QED
      BY <1>2, <1>6, <3>1
  <2> QED
    BY <1>1, <2>1, <2>2
<1> HIDE DEF P
<1>7. lowbit(id) = d - 1
  BY <1>1, <1>4, <1>5, <1>6
<1> QED
  BY <1>7 DEF id

\* See LowbitOdd.
LEMMA LowbitEven ==
  ASSUME NEW d \in 1..Bits, NEW a \in Nat, a % 2 = 0, a * Pow2[Bits - d] \in Id
  PROVE  lowbit(a * Pow2[Bits - d]) \in -1..d-2
<1> DEFINE id == a * Pow2[Bits - d]
<1>1. Bits \in Nat /\ Bits - d \in 0..Bits /\ d \in Nat /\ d >= 1
  BY TableAssumption
<1>2. CASE id = 0
  <2>1. lowbit(id) = -1
    BY <1>2 DEF lowbit
  <2> QED
    BY <1>1, <2>1
<1>3. CASE id # 0
  <2> HIDE DEF id
  <2>1. PICK e \in 1..Bits, b \in Nat : id = b * Pow2[Bits - e] /\ b % 2 = 1
    BY <1>3, OddMultiple DEF id
  <2>2. lowbit(id) = e - 1
    BY <2>1, LowbitOdd DEF id
  <2>3. Bits - e \in 0..Bits
    BY <1>1
  <2> DEFINE v == Pow2[Bits - e]
             w == Pow2[Bits - d]
  <2>4. v \in Nat /\ v > 0 /\ w \in Nat
    BY <1>1, <2>3, Pow2Nat
  <2>5. a * w = b * v
    BY <2>1 DEF id
  <2>6. e < d
    <3> SUFFICES ASSUME ~(e < d) PROVE FALSE
      OBVIOUS
    <3>1. PICK m \in Nat : w = m * v
      <4>1. CASE e = d
        <5>1. w = 1 * v
          BY <4>1, <2>4
        <5> QED
          BY <5>1
      <4>2. CASE e # d
        <5> DEFINE i == Bits - e
                   j == Bits - d
        <5>1. i \in 0..Bits /\ j \in 0..Bits /\ i < j
          BY <1>1, <2>3, <4>2
        <5> HIDE DEF i, j
        <5>2. PICK l \in Nat : Pow2[j] = (2 * l) * Pow2[i]
          BY <5>1, Pow2Multiple
        <5>3. 2 * l \in Nat
          OBVIOUS
        <5> QED
          BY <5>2, <5>3 DEF i, j
      <4> QED
        BY <4>1, <4>2
    <3> HIDE DEF v, w
    <3>2. PICK c \in Nat : a = 2 * c
      <4>1. a = (a \div 2) * 2 /\ a \div 2 \in Nat
        OBVIOUS
      <4>2. a = 2 * (a \div 2)
        BY <4>1
      <4> QED
        BY <4>1, <4>2
    <3>3. a * w = (2 * (c * m)) * v /\ c * m \in Nat
      BY <2>4, <3>1, <3>2
    <3> DEFINE x == c * m
    <3>4. x \in Nat /\ b * v = (2 * x) * v
      BY <2>5, <3>3
    <3> HIDE DEF x
    <3>5. (b * v) \div v = b
      BY <2>4
    <3>6. ((2 * x) * v) \div v = 2 * x
      <4> DEFINE y == 2 * x
      <4>1. y \in Nat
        BY <3>4
      <4> HIDE DEF y
      <4>2. (y * v) \div v = y
        BY <4>1, <2>4
      <4> QED
        BY <4>2 DEF y
    <3>7. b = 2 * x
      BY <3>4, <3>5, <3>6
    <3> QED
      BY <3>4, <3>7, <2>1
  <2>7. e - 1 \in -1..d-2
    BY <1>1, <2>6
  <2> QED
    BY <2>2, <2>7 DEF id
<1> QED
  BY <1>2, <1>3

\* The range lo..hi-1 is one of those that halving the range of all ids d times gives.
Dyadic(lo, hi, d) ==
  /\ d \in 0..Bits
  /\ \E a \in Nat : lo = a * Pow2[Bits - d]
  /\ hi = lo + Pow2[Bits - d] /\ hi <= Pow2[Bits]

\* Such a range is made of ids.
LEMMA DyadicFacts ==
  ASSUME NEW lo, NEW hi, NEW d, Dyadic(lo, hi, d)
  PROVE  /\ lo \in Id /\ hi \in Nat /\ lo < hi /\ hi <= Pow2[Bits] /\ d \in Nat /\ d <= Bits
         /\ Pow2[Bits] \in Nat /\ lo \in Nat /\ hi = lo + Pow2[Bits - d]
         /\ Pow2[Bits - d] \in Nat /\ Pow2[Bits - d] > 0
<1>1. d \in 0..Bits /\ Bits \in Nat /\ Bits - d \in 0..Bits /\ Bits \in 0..Bits
  BY TableAssumption DEF Dyadic
<1> DEFINE p == Pow2[Bits - d]
           q == Pow2[Bits]
<1>2. p \in Nat /\ p > 0 /\ q \in Nat
  BY <1>1, Pow2Nat
<1>3. PICK a \in Nat : lo = a * p
  BY DEF Dyadic
<1>4. hi = lo + p /\ hi <= q
  BY DEF Dyadic
<1> HIDE DEF p, q
<1>5. lo \in Nat
  BY <1>2, <1>3
<1>6. lo \in 0..(q - 1)
  BY <1>2, <1>4, <1>5
<1> QED
  BY <1>1, <1>2, <1>4, <1>5, <1>6 DEF Id, p, q

\* Its two halves.
LEMMA DyadicHalves ==
  ASSUME NEW lo, NEW hi, NEW d, Dyadic(lo, hi, d), d # Bits
  PROVE  LET mid == lo + Pow2[Bits - 1 - d]
         IN  Dyadic(lo, mid, d + 1) /\ Dyadic(mid, hi, d + 1)
<1> DEFINE mid == lo + Pow2[Bits - 1 - d]
<1>1. /\ Bits \in Nat /\ d \in 0..Bits /\ d + 1 \in 0..Bits /\ Bits - d \in 1..Bits
      /\ (Bits - d) - 1 = Bits - 1 - d /\ Bits - (d + 1) = Bits - 1 - d /\ Bits - 1 - d \in 0..Bits
  BY TableAssumption DEF Dyadic
<1> DEFINE p == Pow2[Bits - d]
           h == Pow2[Bits - 1 - d]
           q == Pow2[Bits]
<1>2. p = 2 * h /\ h \in Nat /\ q \in Nat
  <2>1. Bits \in 0..Bits
    BY <1>1
  <2> QED
    BY <1>1, <2>1, Pow2Unfold, Pow2Nat
<1>3. PICK a \in Nat : lo = a * p
  BY DEF Dyadic
<1>4. hi = lo + p /\ hi <= q
  BY DEF Dyadic
<1>5. Pow2[Bits - (d + 1)] = h
  BY <1>1
<1>6. mid = lo + h
  OBVIOUS
<1> HIDE DEF p, h, q, mid
<1>7. lo \in Nat /\ lo = (2 * a) * h /\ 2 * a \in Nat
  BY <1>2, <1>3
<1>8. mid = (2 * a + 1) * h /\ 2 * a + 1 \in Nat
  <2> DEFINE b == 2 * a
  <2>1. b \in Nat /\ lo = b * h
    BY <1>7
  <2> HIDE DEF b
  <2>2. b * h + h = (b + 1) * h
    BY <2>1, <1>2
  <2> QED
    BY <2>1, <2>2, <1>6 DEF b
<1>9. mid <= q /\ hi = mid + h
  BY <1>2, <1>4, <1>6, <1>7
<1>10. Dyadic(lo, mid, d + 1)
  BY <1>1, <1>5, <1>6, <1>7, <1>9 DEF Dyadic, q
<1>11. Dyadic(mid, hi, d + 1)
  BY <1>1, <1>4, <1>5, <1>8, <1>9 DEF Dyadic, q
<1> QED
  BY <1>10, <1>11 DEF mid, h

\* Where bucket i ends.
UpTo(bs, i) == IF i = Len(bs) THEN Pow2[Bits] ELSE bs[i + 1].first

\* The middle of a bucket is the middle of its range.
LEMMA BucketMiddle ==
  ASSUME NEW bs, Len(bs) \in Nat, NEW i \in 1..Len(bs), NEW d, Dyadic(bs[i].first, UpTo(bs, i), d),
         i # Len(bs) => bs[i + 1].first \in Id
  PROVE  bucket_middle(bs, i) = IF d = Bits THEN -1 ELSE bs[i].first + Pow2[Bits - 1 - d]
<1> DEFINE lo == bs[i].first
           hi == UpTo(bs, i)
           p == Pow2[Bits - d]
           q == Pow2[Bits]
           lh == IF i < Len(bs) THEN lowbit(bs[i + 1].first) ELSE -1
<1>1. /\ Bits \in Nat /\ d \in 0..Bits /\ Bits - d \in 0..Bits /\ lo \in Id /\ lo \in Nat /\ hi = lo + p /\ hi <= q
      /\ p \in Nat /\ p > 0 /\ q \in Nat
  <2> HIDE DEF lo, hi
  <2>1. Dyadic(lo, hi, d)
    BY DEF lo, hi
  <2>2. d \in 0..Bits
    BY <2>1 DEF Dyadic
  <2> QED
    BY <2>1, <2>2, TableAssumption, DyadicFacts
<1>2. PICK a \in Nat : lo = a * p
  BY DEF Dyadic
<1>3. i < Len(bs) => hi = bs[i + 1].first /\ hi \in Id
  BY DEF UpTo
<1>4. ~(i < Len(bs)) => hi = q
  BY DEF UpTo
<1>5. Larger(lowbit(lo), lh) = d - 1
  <2>1. CASE d = 0
    <3>1. Bits - d = Bits
      BY <2>1, <1>1
    <3>2. p = q
      BY <3>1
    <3>3. lo = 0 /\ hi = q
      BY <3>2, <1>1
    <3>4. ~(i < Len(bs))
      <4>1. q \notin Id
        BY <1>1 DEF Id
      <4> QED
        BY <1>3, <3>3, <4>1
    <3>5. lowbit(lo) = -1
      BY <3>3 DEF lowbit
    <3>6. lh = -1
      BY <3>4
    <3> QED
      BY <3>5, <3>6, <2>1 DEF Larger
  <2>2. CASE d # 0 /\ a % 2 = 1
    <3>1. d \in 1..Bits
      BY <1>1, <2>2
    <3>2. lowbit(lo) = d - 1
      <4> HIDE DEF lo
      <4>1. a * Pow2[Bits - d] \in Id
        BY <1>1, <1>2
      <4>2. lowbit(a * Pow2[Bits - d]) = d - 1
        BY <2>2, <3>1, <4>1, LowbitOdd
      <4> QED
        BY <1>2, <4>2
    <3>3. lh \in -1..d-2
      <4>1. CASE i < Len(bs)
        <5> HIDE DEF lo, hi, p
        <5>1. hi = (a + 1) * p
          BY <1>1, <1>2
        <5>2. (a + 1) \in Nat /\ (a + 1) % 2 = 0
          BY <2>2
        <5> DEFINE b == a + 1
        <5>3. b \in Nat /\ b % 2 = 0 /\ hi = b * p /\ hi \in Id
          BY <5>1, <5>2, <4>1, <1>3
        <5> HIDE DEF b
        <5>4. b * Pow2[Bits - d] \in Id
          BY <5>3 DEF p
        <5>5. lowbit(b * Pow2[Bits - d]) \in -1..d-2
          BY <3>1, <5>3, <5>4, LowbitEven
        <5>6. lowbit(hi) \in -1..d-2
          BY <5>3, <5>5 DEF p
        <5> QED
          BY <5>6, <4>1, <1>3
      <4>2. CASE ~(i < Len(bs))
        <5>1. lh = -1
          BY <4>2
        <5> QED
          BY <5>1, <3>1
      <4> QED
        BY <4>1, <4>2
    <3> HIDE DEF lh, lo
    <3> QED
      BY <3>1, <3>2, <3>3 DEF Larger
  <2>3. CASE d # 0 /\ a % 2 # 1
    <3>1. d \in 1..Bits /\ a % 2 = 0
      BY <1>1, <2>3
    <3>2. lowbit(lo) \in -1..d-2
      <4> HIDE DEF lo
      <4>1. a * Pow2[Bits - d] \in Id
        BY <1>1, <1>2
      <4>2. lowbit(a * Pow2[Bits - d]) \in -1..d-2
        BY <3>1, <4>1, LowbitEven
      <4> QED
        BY <1>2, <4>2
    <3> DEFINE b == a + 1
    <3>3. b \in Nat /\ b % 2 = 1 /\ hi = b * p
      <4> HIDE DEF lo, hi, p
      <4>1. hi = (a + 1) * p
        BY <1>1, <1>2
      <4> QED
        BY <4>1, <3>1
    <3> HIDE DEF b
    <3>4. i < Len(bs)
      <4> SUFFICES ASSUME ~(i < Len(bs)) PROVE FALSE
        OBVIOUS
      <4>1. hi = q
        BY <1>4
      <4>2. PICK m \in Nat : q = (2 * m) * p
        <5> DEFINE k == Bits - d
        <5>1. k \in 0..Bits /\ k < Bits /\ Bits \in 0..Bits
          BY <1>1, <3>1
        <5> HIDE DEF k
        <5>2. \E m \in Nat : Pow2[Bits] = (2 * m) * Pow2[k]
          BY <5>1, Pow2Multiple
        <5> QED
          BY <5>2 DEF k
      <4> HIDE DEF p, q, hi, lo
      <4>3. b * p = (2 * m) * p
        BY <3>3, <4>1, <4>2
      <4> DEFINE y == 2 * m
      <4>4. y \in Nat /\ y % 2 = 0 /\ b * p = y * p
        BY <4>3
      <4> HIDE DEF y
      <4>5. (b * p) \div p = b /\ (y * p) \div p = y
        BY <3>3, <4>4, <1>1
      <4> QED
        BY <3>3, <4>4, <4>5
    <3>5. lh = d - 1
      <4> HIDE DEF hi, lo
      <4>1. b * Pow2[Bits - d] \in Id
        BY <3>3, <3>4, <1>3
      <4>2. lowbit(b * Pow2[Bits - d]) = d - 1
        BY <3>1, <3>3, <4>1, LowbitOdd
      <4> QED
        BY <3>3, <3>4, <4>2, <1>3
    <3> HIDE DEF lh, lo
    <3> QED
      BY <3>1, <3>2, <3>5 DEF Larger
  <2> QED
    BY <2>1, <2>2, <2>3
<1>6. bucket_middle(bs, i) = LET bit == 1 + Larger(lowbit(lo), lh)
                             IN  IF bit >= Bits THEN -1 ELSE lo + Pow2[Bits - 1 - bit]
  BY DEF bucket_middle
<1>7. 1 + (d - 1) = d /\ (d >= Bits <=> d = Bits)
  BY <1>1
<1> HIDE DEF lo, lh
<1>8. bucket_middle(bs, i) = IF d = Bits THEN -1 ELSE lo + Pow2[Bits - 1 - d]
  BY <1>5, <1>6, <1>7
<1> QED
  BY <1>8 DEF lo

(***************************************************************************)
(* The table                                                               *)
(***************************************************************************)
Bucket ==
  [first : Id, time : Age, nodes : Seq(Node), count : Nat, cached : Addr \cup {NoAddr}]

\* A list of nodes for the ids from lo to hi - 1.
NodeList(ns, lo, hi) ==
  /\ ns \in Seq(Node) /\ Len(ns) <= K
  /\ \A p \in 1..Len(ns) : lo <= ns[p].id /\ ns[p].id < hi /\ ns[p].id # myid
  /\ \A p, q \in 1..Len(ns) : ns[p].id = ns[q].id => p = q

\* The buckets are in order and aligned, and have their nodes.
Tabled(bs) ==
  /\ bs \in Seq(Bucket) /\ Len(bs) > 0 /\ bs[1].first = 0
  /\ \A i, j \in 1..Len(bs) : i < j => bs[i].first < bs[j].first
  /\ \A i \in 1..Len(bs) : \E d \in 0..Bits : Dyadic(bs[i].first, UpTo(bs, i), d)
  /\ \A i \in 1..Len(bs) : /\ bs[i].count = Len(bs[i].nodes)
                           /\ NodeList(bs[i].nodes, bs[i].first, UpTo(bs, i))

\* The offenders are in the slots before the next one to be used.
RingOK ==
  LET len == Len(offenders)
  IN  /\ offenders \in Seq(Addr) /\ len <= MaxBlacklisted
      /\ len < MaxBlacklisted => next_blacklisted = len
      /\ \A j \in 1..len :
           blacklist[IF j <= next_blacklisted THEN next_blacklisted - j
                     ELSE next_blacklisted - j + MaxBlacklisted] = offenders[len + 1 - j]

IInv ==
  /\ running \in BOOLEAN /\ recursing = FALSE /\ mybucket_grow \in Age
  /\ running => Tabled(buckets)
  /\ ~running => buckets = <<>>
  /\ blacklist \in [0..MaxBlacklisted-1 -> Addr \cup {NoAddr}]
  /\ next_blacklisted \in 0..MaxBlacklisted-1
  /\ RingOK

(***************************************************************************)
(* Lists of nodes                                                          *)
(***************************************************************************)
\* No id is twice in a list.
Distinct(ns) == \A p, q \in 1..Len(ns) : ns[p].id = ns[q].id => p = q

\* ks has the nodes that are in S of the first k of ns.
Sieved(ks, ns, S, k) ==
  /\ ks \in Seq(Node) /\ Len(ks) <= k
  /\ \A i \in 1..Len(ks) : ks[i] \in S /\ \E p \in 1..k : ks[i] = ns[p]
  /\ \A p \in 1..k : ns[p] \in S => \E i \in 1..Len(ks) : ks[i] = ns[p]
  /\ Distinct(ks)

\* One node more.
LEMMA SievedNext ==
  ASSUME NEW ns \in Seq(Node), Distinct(ns), NEW S, NEW k \in Nat, k + 1 \in 1..Len(ns),
         NEW ks, Sieved(ks, ns, S, k)
  PROVE  Sieved(IF ns[k + 1] \in S THEN Append(ks, ns[k + 1]) ELSE ks, ns, S, k + 1)
<1> DEFINE n == ns[k + 1]
           v == Append(ks, n)
<1>1. /\ ks \in Seq(Node) /\ Len(ks) \in Nat /\ Len(ks) <= k /\ n \in Node
      /\ \A p \in 1..k : p \in 1..(k + 1) /\ p \in 1..Len(ns) /\ p # k + 1
      /\ \A p \in 1..(k + 1) : p \in 1..k \/ p = k + 1
  BY DEF Sieved
<1>2. CASE n \notin S
  <2>1. \A p \in 1..(k + 1) : ns[p] \in S => p \in 1..k
    BY <1>1, <1>2
  <2>2. Len(ks) <= k + 1
    BY <1>1
  <2>3. Sieved(ks, ns, S, k + 1)
    <3>1. \A i \in 1..Len(ks) : ks[i] \in S /\ \E p \in 1..(k + 1) : ks[i] = ns[p]
      BY <1>1 DEF Sieved
    <3>2. \A p \in 1..(k + 1) : ns[p] \in S => \E i \in 1..Len(ks) : ks[i] = ns[p]
      BY <2>1 DEF Sieved
    <3> QED
      BY <1>1, <2>2, <3>1, <3>2 DEF Sieved
  <2> QED
    BY <1>2, <2>3
<1>3. CASE n \in S
  <2>1. /\ v \in Seq(Node) /\ Len(v) = Len(ks) + 1
        /\ v[Len(ks) + 1] = n /\ \A i \in 1..Len(ks) : v[i] = ks[i]
    BY <1>1
  <2> HIDE DEF v
  <2>2. /\ \A i \in 1..Len(v) : i \in 1..Len(ks) \/ i = Len(ks) + 1
        /\ \A i \in 1..Len(ks) : i \in 1..Len(v)
        /\ Len(ks) + 1 \in 1..Len(v) /\ Len(v) <= k + 1
    BY <1>1, <2>1
  <2>3. ASSUME NEW i \in 1..Len(ks) PROVE ks[i].id # n.id
    <3>1. PICK p \in 1..k : ks[i] = ns[p]
      BY DEF Sieved
    <3> QED
      BY <1>1, <3>1 DEF Distinct
  <2>4. Distinct(v)
    <3> SUFFICES ASSUME NEW i \in 1..Len(v), NEW j \in 1..Len(v), v[i].id = v[j].id PROVE i = j
      BY DEF Distinct
    <3>1. CASE i \in 1..Len(ks) /\ j \in 1..Len(ks)
      BY <2>1, <3>1 DEF Sieved, Distinct
    <3> QED
      BY <2>1, <2>2, <2>3, <3>1
  <2>5. ASSUME NEW i \in 1..Len(v) PROVE v[i] \in S /\ \E p \in 1..(k + 1) : v[i] = ns[p]
    <3>1. CASE i \in 1..Len(ks)
      <4>1. ks[i] \in S /\ \E p \in 1..k : ks[i] = ns[p]
        BY <3>1 DEF Sieved
      <4> QED
        BY <4>1, <3>1, <2>1, <1>1
    <3>2. CASE i = Len(ks) + 1
      <4>1. k + 1 \in 1..(k + 1)
        OBVIOUS
      <4> QED
        BY <4>1, <3>2, <2>1, <1>3
    <3> QED
      BY <2>2, <3>1, <3>2
  <2>6. ASSUME NEW p \in 1..(k + 1), ns[p] \in S PROVE \E i \in 1..Len(v) : v[i] = ns[p]
    <3>1. CASE p \in 1..k
      <4>1. PICK i \in 1..Len(ks) : ks[i] = ns[p]
        BY <2>6, <3>1 DEF Sieved
      <4> QED
        BY <4>1, <2>1, <2>2
    <3>2. CASE p = k + 1
      BY <3>2, <2>1, <2>2
    <3> QED
      BY <1>1, <3>1, <3>2
  <2>7. Sieved(v, ns, S, k + 1)
    BY <2>1, <2>2, <2>4, <2>5, <2>6 DEF Sieved
  <2> QED
    BY <1>3, <2>7 DEF v
<1> QED
  BY <1>2, <1>3

\* What Kept returns.
LEMMA KeptFacts ==
  ASSUME NEW ns \in Seq(Node), Distinct(ns), NEW S
  PROVE  Sieved(Kept(ns, S), ns, S, Len(ns))
<1> DEFINE N == Len(ns)
           A == Seq(Node)
           F == [k \in 1..N |-> [v \in A |-> IF ns[k] \in S THEN Append(v, ns[k]) ELSE v]]
           G(u) == [k \in 0..N |-> IF k = 0 THEN <<>>
                                   ELSE IF ns[k] \in S THEN Append(u[k - 1], ns[k]) ELSE u[k - 1]]
           upto == CHOOSE u : u = G(u)
           e == <<>>
<1>1. N \in Nat /\ e \in A /\ \A k \in 1..N : ns[k] \in Node
  OBVIOUS
<1>2. F \in [1..N -> [A -> A]]
  BY <1>1
<1>3. PICK f : Recurs(f, N, A, e, F)
  <2> HIDE DEF F, N, A, e, G, upto
  <2> QED
    BY <1>1, <1>2, Recursion
<1>4. f \in [0..N -> A] /\ f[0] = <<>> /\ \A k \in 1..N : f[k] = F[k][f[k - 1]]
  BY <1>3 DEF Recurs
<1>5. \A k \in 1..N : k - 1 \in 0..N /\ f[k - 1] \in A
  <2> HIDE DEF F, N, G, upto, A
  <2>1. \A k \in 1..N : k - 1 \in 0..N
    BY <1>1
  <2> QED
    BY <2>1, <1>4
<1>6. \A k \in 1..N : f[k] = IF ns[k] \in S THEN Append(f[k - 1], ns[k]) ELSE f[k - 1]
  BY <1>4, <1>5
<1>7. f = G(f)
  <2>1. ASSUME NEW k \in 0..N PROVE f[k] = G(f)[k]
    <3>1. CASE k = 0
      BY <1>4, <3>1
    <3>2. CASE k # 0
      <4>1. k \in 1..N
        BY <3>2, <1>1
      <4> QED
        BY <1>6, <3>2, <4>1
    <3> QED
      BY <3>1, <3>2
  <2> QED
    BY <1>4, <2>1
<1>8. upto = G(upto)
  <2> HIDE DEF G
  <2> QED
    BY <1>7
<1>9. Kept(ns, S) = upto[N]
  BY DEF Kept
<1> HIDE DEF upto
<1>10. /\ upto[0] = <<>>
       /\ \A k \in 1..N : upto[k] = IF ns[k] \in S THEN Append(upto[k - 1], ns[k]) ELSE upto[k - 1]
  <2> DEFINE g == G(upto)
  <2>1. \A k \in 0..N : g[k] = IF k = 0 THEN <<>>
                               ELSE IF ns[k] \in S THEN Append(upto[k - 1], ns[k]) ELSE upto[k - 1]
    OBVIOUS
  <2>2. upto = g
    BY <1>8
  <2>3. 0 \in 0..N /\ \A k \in 1..N : k \in 0..N /\ k # 0
    BY <1>1
  <2> HIDE DEF g
  <2> QED
    BY <2>1, <2>2, <2>3
<1> HIDE DEF F, G
<1> DEFINE T == {k \in 0..N : Sieved(upto[k], ns, S, k)}
<1>11. 0 \in T
  <2>1. <<>> \in Seq(Node) /\ Len(<<>>) = 0 /\ 0 \in 0..N /\ \A i \in 1..0 : FALSE
    BY <1>1
  <2>2. Sieved(<<>>, ns, S, 0)
    BY <2>1 DEF Sieved, Distinct
  <2>3. Sieved(upto[0], ns, S, 0)
    BY <2>2, <1>10
  <2> QED
    BY <2>1, <2>3
<1>12. ASSUME NEW k \in 0..N, k \in T, k < N PROVE k + 1 \in T
  <2>1. k \in Nat /\ k + 1 \in 1..N /\ k + 1 \in 0..N /\ (k + 1) - 1 = k
    BY <1>1, <1>12
  <2>2. upto[k + 1] = IF ns[k + 1] \in S THEN Append(upto[k], ns[k + 1]) ELSE upto[k]
    BY <1>10, <2>1
  <2>3. Sieved(upto[k], ns, S, k)
    BY <1>12
  <2>4. Sieved(upto[k + 1], ns, S, k + 1)
    BY <2>1, <2>2, <2>3, SievedNext
  <2> QED
    BY <2>1, <2>4
<1>13. N \in T
  <2> HIDE DEF T
  <2>1. 0..N \subseteq T
    BY <1>1, <1>11, <1>12, SetInduction
  <2> QED
    BY <1>1, <2>1
<1> QED
  BY <1>9, <1>13

\* The position of the first element of a set.
LEMMA MinFacts ==
  ASSUME NEW n \in Nat, NEW I \in SUBSET (1..n), I # {}
  PROVE  Min(I) \in I /\ Min(I) \in 1..n /\ \A k \in I : Min(I) <= k
<1>1. I \in SUBSET Nat
  OBVIOUS
<1>2. \E m \in I : \A k \in I : m <= k
  BY <1>1, LeastNumber
<1> QED
  BY <1>2 DEF Min

\* The nodes kept of a list, in front of each other, are a list of the part of the range
\* they are in.
LEMMA ReversedList ==
  ASSUME NEW lo, NEW hi, NEW lo2, NEW hi2, NEW ns, NodeList(ns, lo, hi), NEW S,
         \A n \in S : lo2 <= n.id /\ n.id < hi2
  PROVE  LET ks == Reverse(Kept(ns, S))
         IN  NodeList(ks, lo2, hi2) /\ Range(ks) = S \cap Range(ns) /\ Len(ks) \in Nat
<1> DEFINE us == Kept(ns, S)
           ks == Reverse(us)
<1>1. Sieved(us, ns, S, Len(ns))
  BY KeptFacts DEF NodeList, Distinct
<1>2. ns \in Seq(Node) /\ Len(ns) <= K /\ Len(ns) \in Nat /\ K \in Nat /\ DOMAIN ns = 1..Len(ns)
  BY TableAssumption DEF NodeList
<1>3. us \in Seq(Node) /\ Len(us) \in Nat /\ Len(us) <= Len(ns)
  BY <1>1 DEF Sieved
<1> HIDE DEF us
<1> DEFINE m == Len(us)
<1>4. \A i \in 1..m : (m - i) + 1 \in 1..m /\ (m - ((m - i) + 1)) + 1 = i
  BY <1>3
<1>5. ks = [i \in 1..m |-> us[(m - i) + 1]]
  BY DEF Reverse
<1> HIDE DEF m
<1>6. m \in Nat /\ m <= K /\ us \in [1..m -> Node]
  BY <1>2, <1>3 DEF m
<1>7. ks \in [1..m -> Node]
  BY <1>4, <1>5, <1>6
<1> HIDE DEF ks
<1>8. ks \in Seq(Node) /\ Len(ks) = m /\ DOMAIN ks = 1..m /\ \A i \in 1..m : ks[i] = us[(m - i) + 1]
  BY <1>5, <1>6, <1>7
<1>9. ASSUME NEW i \in 1..m PROVE ks[i] \in S /\ \E p \in 1..Len(ns) : ks[i] = ns[p]
  <2>1. PICK j \in 1..m : ks[i] = us[j]
    BY <1>4, <1>8
  <2>2. us[j] \in S /\ \E p \in 1..Len(ns) : us[j] = ns[p]
    BY <1>1 DEF Sieved, m
  <2> QED
    BY <2>1, <2>2
<1>10. ASSUME NEW p \in 1..Len(ns), ns[p] \in S PROVE \E i \in 1..m : ks[i] = ns[p]
  <2>1. PICK j \in 1..m : us[j] = ns[p]
    BY <1>1, <1>10 DEF Sieved, m
  <2>2. ks[(m - j) + 1] = ns[p]
    BY <1>4, <1>8, <2>1
  <2> QED
    BY <2>2, <1>4
<1>11. \A i, j \in 1..m : ks[i].id = ks[j].id => i = j
  <2> SUFFICES ASSUME NEW i \in 1..m, NEW j \in 1..m, ks[i].id = ks[j].id PROVE i = j
    OBVIOUS
  <2>1. (m - i) + 1 = (m - j) + 1
    <3>1. \A k, l \in 1..m : us[k].id = us[l].id => k = l
      BY <1>1 DEF Sieved, Distinct, m
    <3>2. PICK k \in 1..m : k = (m - i) + 1
      BY <1>4
    <3>3. PICK l \in 1..m : l = (m - j) + 1
      BY <1>4
    <3>4. ks[i] = us[k] /\ ks[j] = us[l]
      BY <1>8, <3>2, <3>3
    <3> QED
      BY <3>1, <3>2, <3>3, <3>4
  <2> QED
    BY <2>1, <1>6
<1>12. NodeList(ks, lo2, hi2)
  <2>1. \A i \in 1..m : ks[i].id # myid
    BY <1>9 DEF NodeList
  <2> QED
    BY <1>6, <1>8, <1>9, <1>11, <2>1 DEF NodeList
<1>13. Range(ks) = S \cap Range(ns)
  <2>1. \A x : x \in Range(ks) <=> \E i \in 1..m : x = ks[i]
    BY <1>8 DEF Range
  <2>2. \A x : x \in Range(ns) <=> \E p \in 1..Len(ns) : x = ns[p]
    BY <1>2 DEF Range
  <2> QED
    BY <1>9, <1>10, <2>1, <2>2
<1> QED
  BY <1>6, <1>8, <1>12, <1>13 DEF ks, us

\* The same for a list that keeps its order.
LEMMA KeptList ==
  ASSUME NEW lo, NEW hi, NEW ns, NodeList(ns, lo, hi), NEW S
  PROVE  NodeList(Kept(ns, S), lo, hi) /\ Range(Kept(ns, S)) = S \cap Range(ns)
<1> DEFINE us == Kept(ns, S)
<1>1. Sieved(us, ns, S, Len(ns))
  BY KeptFacts DEF NodeList, Distinct
<1>2. ns \in Seq(Node) /\ Len(ns) <= K /\ Len(ns) \in Nat /\ K \in Nat /\ DOMAIN ns = 1..Len(ns)
  BY TableAssumption DEF NodeList
<1> HIDE DEF us
<1>3. us \in Seq(Node) /\ Len(us) \in Nat /\ Len(us) <= K /\ DOMAIN us = 1..Len(us)
  BY <1>1, <1>2 DEF Sieved
<1>4. Range(us) = S \cap Range(ns)
  <2>1. \A x : x \in Range(us) <=> \E i \in 1..Len(us) : x = us[i]
    BY <1>3 DEF Range
  <2>2. \A x : x \in Range(ns) <=> \E p \in 1..Len(ns) : x = ns[p]
    BY <1>2 DEF Range
  <2>3. \A i \in 1..Len(us) : us[i] \in S /\ \E p \in 1..Len(ns) : us[i] = ns[p]
    BY <1>1 DEF Sieved
  <2>4. \A p \in 1..Len(ns) : ns[p] \in S => \E i \in 1..Len(us) : us[i] = ns[p]
    BY <1>1 DEF Sieved
  <2> QED
    BY <2>1, <2>2, <2>3, <2>4
<1>5. NodeList(us, lo, hi)
  <2>1. ASSUME NEW i \in 1..Len(us) PROVE \E p \in 1..Len(ns) : us[i] = ns[p]
    BY <1>1 DEF Sieved
  <2>2. ASSUME NEW i \in 1..Len(us) PROVE lo <= us[i].id /\ us[i].id < hi /\ us[i].id # myid
    BY <2>1 DEF NodeList
  <2> QED
    BY <1>1, <1>3, <2>2 DEF NodeList, Sieved, Distinct
<1> QED
  BY <1>4, <1>5 DEF us

(***************************************************************************)
(* Buckets                                                                 *)
(***************************************************************************)
\* What is known of a bucket of a table.
LEMMA BucketFacts ==
  ASSUME NEW bs, Tabled(bs), NEW i \in 1..Len(bs)
  PROVE  /\ bs \in Seq(Bucket) /\ Len(bs) \in Nat /\ DOMAIN bs = 1..Len(bs)
         /\ bs[i] \in Bucket /\ bs[i].first \in Id /\ bs[i].first \in Nat /\ UpTo(bs, i) \in Nat
         /\ bs[i].first < UpTo(bs, i) /\ UpTo(bs, i) <= Pow2[Bits]
         /\ bs[i].count = Len(bs[i].nodes)
         /\ NodeList(bs[i].nodes, bs[i].first, UpTo(bs, i))
<1>1. bs \in Seq(Bucket) /\ Len(bs) \in Nat /\ DOMAIN bs = 1..Len(bs) /\ bs[i] \in Bucket
  BY DEF Tabled
<1>2. PICK d \in 0..Bits : Dyadic(bs[i].first, UpTo(bs, i), d)
  BY DEF Tabled
<1> DEFINE lo == bs[i].first
           hi == UpTo(bs, i)
<1>3. Dyadic(lo, hi, d)
  BY <1>2
<1> HIDE DEF lo, hi
<1>4. lo \in Id /\ lo \in Nat /\ hi \in Nat /\ lo < hi /\ hi <= Pow2[Bits]
  BY <1>3, DyadicFacts
<1> QED
  BY <1>1, <1>4 DEF lo, hi, Tabled

\* The bucket of an id is the one whose range it is in.
LEMMA FindUnique ==
  ASSUME NEW bs, Tabled(bs), NEW id \in Id, NEW i \in 1..Len(bs),
         bs[i].first <= id, id < UpTo(bs, i)
  PROVE  find_bucket(id, bs) = i
<1> DEFINE P(k) == /\ k = Len(bs) \/ id < bs[k + 1].first
                   /\ \A j \in 1..k-1 : ~(id < bs[j + 1].first)
<1>1. Len(bs) \in Nat /\ id \in Nat /\ \A j \in 1..Len(bs) : bs[j].first \in Nat
  BY BucketFacts, Pow2Nat DEF Id
<1>2. P(i)
  <2>1. i = Len(bs) \/ id < bs[i + 1].first
    BY DEF UpTo
  <2>2. ASSUME NEW j \in 1..i-1 PROVE ~(id < bs[j + 1].first)
    <3>1. j + 1 \in 1..Len(bs) /\ (j + 1 = i \/ j + 1 < i)
      BY <1>1
    <3>2. j + 1 < i => bs[j + 1].first < bs[i].first
      BY <3>1 DEF Tabled
    <3> QED
      BY <1>1, <3>1, <3>2
  <2> QED
    BY <2>1, <2>2
<1>3. ASSUME NEW k \in 1..Len(bs), P(k) PROVE k = i
  <2>1. CASE k < i
    <3>1. k # Len(bs) /\ k \in 1..i-1
      BY <1>1, <2>1
    <3> QED
      BY <1>2, <1>3, <3>1
  <2>2. CASE k > i
    <3>1. i # Len(bs) /\ i \in 1..k-1
      BY <1>1, <2>2
    <3> QED
      BY <1>2, <1>3, <3>1
  <2> QED
    BY <1>1, <2>1, <2>2
<1>4. find_bucket(id, bs) = CHOOSE k \in 1..Len(bs) : P(k)
  BY DEF find_bucket
<1> HIDE DEF P
<1> QED
  BY <1>2, <1>3, <1>4

\* Every id has a bucket.
LEMMA FindBucket ==
  ASSUME NEW bs, Tabled(bs), NEW id \in Id
  PROVE  LET i == find_bucket(id, bs)
         IN  i \in 1..Len(bs) /\ bs[i].first <= id /\ id < UpTo(bs, i)
<1> DEFINE T == {k \in 1..Len(bs) : id < UpTo(bs, k)}
<1>1. Len(bs) \in Nat /\ Len(bs) \in 1..Len(bs) /\ id \in Nat /\ id < Pow2[Bits] /\ bs[1].first = 0
  BY Pow2Nat, TableAssumption DEF Id, Tabled
<1>2. Len(bs) \in T
  BY <1>1 DEF UpTo
<1>3. PICK i \in T : \A k \in T : i <= k
  <2>1. T \in SUBSET Nat /\ T # {}
    BY <1>2
  <2> HIDE DEF T
  <2> QED
    BY <2>1, LeastNumber
<1>4. bs[i].first <= id
  <2>1. CASE i = 1
    BY <1>1, <2>1
  <2>2. CASE i # 1
    <3>1. i - 1 \in 1..Len(bs) /\ ~(i <= i - 1) /\ i - 1 # Len(bs) /\ (i - 1) + 1 = i
      BY <1>1, <2>2
    <3>2. ~(id < UpTo(bs, i - 1))
      BY <1>3, <3>1
    <3>3. UpTo(bs, i - 1) = bs[i].first
      BY <3>1 DEF UpTo
    <3>4. bs[i].first \in Nat
      BY BucketFacts
    <3> QED
      BY <1>1, <3>2, <3>3, <3>4
  <2> QED
    BY <2>1, <2>2
<1>5. find_bucket(id, bs) = i
  BY <1>4, FindUnique
<1> QED
  BY <1>4, <1>5

\* find_node finds the node with an id, if there is one.
LEMMA FindNode ==
  ASSUME NEW bs, Tabled(bs), NEW id \in Id
  PROVE  LET ns == bs[find_bucket(id, bs)].nodes
             p == find_node(id, bs)
         IN  /\ p \in 0..Len(ns) /\ Len(ns) \in Nat
             /\ p = 0 => \A q \in 1..Len(ns) : ns[q].id # id
             /\ p # 0 => p \in 1..Len(ns) /\ ns[p].id = id
<1> DEFINE i == find_bucket(id, bs)
           ns == bs[i].nodes
           I == {q \in 1..Len(ns) : ns[q].id = id}
<1>1. i \in 1..Len(bs)
  BY FindBucket
<1>2. Len(ns) \in Nat
  <2> HIDE DEF i
  <2>1. NodeList(ns, bs[i].first, UpTo(bs, i))
    BY <1>1, BucketFacts
  <2> QED
    BY <2>1 DEF NodeList
<1>3. find_node(id, bs) = IF I # {} THEN Min(I) ELSE 0
  BY DEF find_node, SelectInSeq
<1> HIDE DEF ns, i
<1>4. I # {} => Min(I) \in I
  <2>1. I \in SUBSET (1..Len(ns))
    OBVIOUS
  <2> HIDE DEF I
  <2> QED
    BY <1>2, <2>1, MinFacts
<1>5. CASE I = {}
  BY <1>2, <1>3, <1>5 DEF ns, i
<1>6. CASE I # {}
  <2>1. Min(I) \in 1..Len(ns) /\ ns[Min(I)].id = id /\ Min(I) # 0
    BY <1>4, <1>6
  <2> HIDE DEF I
  <2> QED
    BY <1>2, <1>3, <1>6, <2>1 DEF ns, i
<1> QED
  BY <1>5, <1>6

\* A bucket is replaced by one for the same range.
LEMMA ReplaceTabled ==
  ASSUME NEW bs, Tabled(bs), NEW i \in 1..Len(bs), NEW b \in Bucket, b.first = bs[i].first,
         b.count = Len(b.nodes), NodeList(b.nodes, bs[i].first, UpTo(bs, i))
  PROVE  LET cs == [bs EXCEPT ![i] = b]
         IN  /\ Tabled(cs) /\ Len(cs) = Len(bs)
             /\ \A j \in 1..Len(bs) : cs[j].first = bs[j].first /\ UpTo(cs, j) = UpTo(bs, j)
<1> DEFINE cs == [bs EXCEPT ![i] = b]
<1>1. /\ bs \in Seq(Bucket) /\ Len(bs) \in Nat /\ DOMAIN bs = 1..Len(bs)
      /\ Len(bs) > 0 /\ bs[1].first = 0
  BY DEF Tabled
<1>2. /\ cs \in Seq(Bucket) /\ Len(cs) = Len(bs) /\ cs[i] = b
      /\ \A j \in 1..Len(bs) : j # i => cs[j] = bs[j]
  BY <1>1
<1> HIDE DEF cs
<1>3. \A j \in 1..Len(bs) : cs[j].first = bs[j].first
  BY <1>2
<1>4. ASSUME NEW j \in 1..Len(bs) PROVE UpTo(cs, j) = UpTo(bs, j)
  <2>1. CASE j = Len(bs)
    BY <1>2, <2>1 DEF UpTo
  <2>2. CASE j # Len(bs)
    <3>1. Len(bs) \in Nat
      BY <1>1
    <3>2. j + 1 \in 1..Len(bs)
      BY <2>2, <3>1
    <3> QED
      BY <1>2, <1>3, <2>2, <3>2 DEF UpTo
  <2> QED
    BY <2>1, <2>2
<1>5. ASSUME NEW j \in 1..Len(cs)
      PROVE  cs[j].count = Len(cs[j].nodes) /\ NodeList(cs[j].nodes, cs[j].first, UpTo(cs, j))
  <2>1. CASE j = i
    BY <1>2, <1>3, <1>4, <2>1
  <2>2. CASE j # i
    <3>1. cs[j] = bs[j] /\ UpTo(cs, j) = UpTo(bs, j)
      BY <1>2, <1>4, <2>2
    <3>2. bs[j].count = Len(bs[j].nodes) /\ NodeList(bs[j].nodes, bs[j].first, UpTo(bs, j))
      BY <1>2 DEF Tabled
    <3> QED
      BY <3>1, <3>2
  <2> QED
    BY <2>1, <2>2
<1>6. /\ \A j, k \in 1..Len(cs) : j < k => cs[j].first < cs[k].first
      /\ \A j \in 1..Len(cs) : \E d \in 0..Bits : Dyadic(cs[j].first, UpTo(cs, j), d)
  BY <1>2, <1>3, <1>4 DEF Tabled
<1>7. 1 \in 1..Len(bs)
  BY <1>1
<1>8. Tabled(cs)
  BY <1>1, <1>2, <1>3, <1>5, <1>6, <1>7 DEF Tabled
<1> QED
  BY <1>2, <1>3, <1>4, <1>8 DEF cs

\* Two lists one after the other.
LEMMA ConcatFacts ==
  ASSUME NEW S, NEW s \in Seq(S), NEW t \in Seq(S)
  PROVE  /\ s \o t \in Seq(S) /\ Len(s \o t) = Len(s) + Len(t)
         /\ \A j \in 1..Len(s) : (s \o t)[j] = s[j]
         /\ \A j \in 1..Len(t) : (s \o t)[Len(s) + j] = t[j]
  OBVIOUS

\* The list of buckets after a split: l and h stand where bucket i was.
Spliced(bs, i, l, h) == SubSeq(bs, 1, i - 1) \o <<l, h>> \o SubSeq(bs, i + 1, Len(bs))

\* Which bucket is where in cs.
SplicedAs(cs, bs, i, l, h) ==
  /\ cs \in Seq(Bucket) /\ Len(cs) = Len(bs) + 1
  /\ \A j \in 1..i-1 : cs[j] = bs[j]
  /\ cs[i] = l /\ cs[i + 1] = h
  /\ \A j \in i+2..Len(bs)+1 : cs[j] = bs[j - 1]

\* Which bucket is where after a split.
LEMMA SplicedFacts ==
  ASSUME NEW bs \in Seq(Bucket), NEW i \in 1..Len(bs), NEW l \in Bucket, NEW h \in Bucket
  PROVE  SplicedAs(Spliced(bs, i, l, h), bs, i, l, h)
<1> DEFINE cs == Spliced(bs, i, l, h)
           u == SubSeq(bs, 1, i - 1)
           v == <<l, h>>
           w == SubSeq(bs, i + 1, Len(bs))
           n == Len(bs)
<1>1. n \in Nat /\ i \in Nat /\ i <= n /\ i >= 1
  OBVIOUS
<1>2. u \in Seq(Bucket) /\ Len(u) = i - 1 /\ \A j \in 1..i-1 : u[j] = bs[j]
  OBVIOUS
<1>3. v \in Seq(Bucket) /\ Len(v) = 2 /\ v[1] = l /\ v[2] = h
  OBVIOUS
<1>4. w \in Seq(Bucket) /\ Len(w) = n - i /\ \A j \in 1..n-i : w[j] = bs[i + j]
  OBVIOUS
<1>5. cs = u \o v \o w
  BY DEF Spliced
<1> HIDE DEF u, v, w, n, cs
<1> DEFINE x == u \o v
<1>6. x \in Seq(Bucket) /\ Len(x) = i + 1 /\ (\A j \in 1..i-1 : x[j] = bs[j]) /\ x[i] = l /\ x[i + 1] = h
  <2>1. x \in Seq(Bucket) /\ Len(x) = Len(u) + Len(v)
    BY <1>2, <1>3, ConcatFacts
  <2>2. \A j \in 1..Len(u) : x[j] = u[j]
    BY <1>2, <1>3, ConcatFacts
  <2>3. \A j \in 1..Len(v) : x[Len(u) + j] = v[j]
    <3>1. u \in Seq(Bucket) /\ v \in Seq(Bucket)
      BY <1>2, <1>3
    <3> QED
      BY <3>1, ConcatFacts
  <2>4. 1 \in 1..Len(v) /\ 2 \in 1..Len(v) /\ Len(u) + 1 = i /\ Len(u) + 2 = i + 1 /\ Len(u) + Len(v) = i + 1
    BY <1>1, <1>2, <1>3
  <2> QED
    BY <1>2, <1>3, <2>1, <2>2, <2>3, <2>4
<1> HIDE DEF x
<1>7. cs \in Seq(Bucket) /\ Len(cs) = Len(x) + Len(w) /\ (\A j \in 1..Len(x) : cs[j] = x[j])
      /\ \A j \in 1..Len(w) : cs[Len(x) + j] = w[j]
  <2>1. cs = x \o w
    BY <1>5 DEF x
  <2>2. x \in Seq(Bucket) /\ w \in Seq(Bucket)
    BY <1>4, <1>6
  <2> QED
    BY <2>1, <2>2, ConcatFacts
<1>8. Len(cs) = n + 1
  BY <1>1, <1>4, <1>6, <1>7
<1>9. /\ \A j \in 1..i-1 : j \in 1..Len(x)
      /\ i \in 1..Len(x) /\ i + 1 \in 1..Len(x)
  BY <1>1, <1>6
<1>10. ASSUME NEW j \in i+2..n+1 PROVE cs[j] = bs[j - 1]
  <2> DEFINE k == j - (i + 1)
  <2>1. k \in 1..n-i /\ j = (i + 1) + k /\ i + k = j - 1
    BY <1>1
  <2> HIDE DEF k
  <2>2. cs[(i + 1) + k] = w[k]
    BY <2>1, <1>4, <1>6, <1>7
  <2> QED
    BY <2>1, <2>2, <1>4
<1> QED
  BY <1>6, <1>7, <1>8, <1>9, <1>10 DEF n, cs, SplicedAs

\* The nodes of a table.
LEMMA NodesOf ==
  ASSUME NEW bs \in Seq(Bucket), NEW n
  PROVE  n \in Nodes(bs) <=> \E j \in 1..Len(bs) : n \in Range(bs[j].nodes)
  BY DEF Nodes

\* cs has the nodes of bs, and the bucket of an id that was in bucket i is half as large.
SplitAs(cs, bs, i, d) ==
  /\ Tabled(cs) /\ Nodes(cs) = Nodes(bs)
  /\ d # Bits =>
       \A id \in Id : bs[i].first <= id /\ id < UpTo(bs, i) =>
          \E k \in 1..Len(cs) : /\ cs[k].first <= id /\ id < UpTo(cs, k)
                                /\ UpTo(cs, k) - cs[k].first = Pow2[Bits - 1 - d]

\* What split_bucket does to the table.
LEMMA SplitTabled ==
  ASSUME NEW bs, Tabled(bs), NEW i \in 1..Len(bs), NEW d, Dyadic(bs[i].first, UpTo(bs, i), d)
  PROVE  SplitAs(split_bucket(bs, i), bs, i, d)
<1> DEFINE lo == bs[i].first
           hi == UpTo(bs, i)
           mid == lo + Pow2[Bits - 1 - d]
           ns == bs[i].nodes
           n == Len(bs)
           b == send_cached_ping(bs[i])
           lower == {m \in Range(ns) : m.id < mid}
           low == Reverse(Kept(ns, lower))
           high == Reverse(Kept(ns, Range(ns) \ lower))
           l == [b EXCEPT !.nodes = low, !.count = Len(low)]
           h == [b EXCEPT !.first = mid, !.nodes = high, !.count = Len(high)]
           cs == Spliced(bs, i, l, h)
<1>1. /\ bs \in Seq(Bucket) /\ n \in Nat /\ i \in Nat /\ i >= 1 /\ i <= n /\ bs[i] \in Bucket
      /\ NodeList(ns, lo, hi) /\ n > 0 /\ bs[1].first = 0
      /\ \A j \in 1..n : bs[j].first \in Id /\ bs[j].first \in Nat
  <2>1. bs[i] \in Bucket /\ NodeList(ns, lo, hi) /\ n \in Nat /\ bs \in Seq(Bucket)
    BY BucketFacts
  <2>2. \A j \in 1..n : bs[j].first \in Id /\ bs[j].first \in Nat
    BY BucketFacts
  <2>3. n > 0 /\ bs[1].first = 0
    BY DEF Tabled
  <2> QED
    BY <2>1, <2>2, <2>3
<1>2. bucket_middle(bs, i) = IF d = Bits THEN -1 ELSE mid
  <2>1. i # Len(bs) => bs[i + 1].first \in Id
    <3>1. i # n => i + 1 \in 1..n
      BY <1>1
    <3> QED
      BY <1>1, <3>1
  <2> QED
    BY <1>1, <2>1, BucketMiddle
<1>3. CASE d = Bits
  <2>1. split_bucket(bs, i) = bs
    BY <1>2, <1>3 DEF split_bucket
  <2> QED
    BY <1>3, <2>1 DEF SplitAs
<1>4. CASE d # Bits
  <2>1. Dyadic(lo, hi, d) /\ Dyadic(lo, mid, d + 1) /\ Dyadic(mid, hi, d + 1)
    <3> HIDE DEF lo, hi
    <3>1. Dyadic(lo, hi, d)
      BY DEF lo, hi
    <3> QED
      BY <1>4, <3>1, DyadicHalves
  <2>2. /\ lo \in Id /\ lo \in Nat /\ mid \in Id /\ mid \in Nat /\ hi \in Nat
        /\ lo < mid /\ mid < hi /\ mid # -1
        /\ mid - lo = Pow2[Bits - 1 - d] /\ hi - mid = Pow2[Bits - 1 - d] /\ d + 1 \in 0..Bits
    <3> HIDE DEF lo, hi, mid
    <3> DEFINE w == Pow2[Bits - (d + 1)]
    <3>1. lo \in Id /\ lo \in Nat /\ mid \in Nat /\ lo < mid /\ mid = lo + w /\ w \in Nat
      BY <2>1, DyadicFacts
    <3>2. mid \in Id /\ hi \in Nat /\ mid < hi /\ hi = mid + w
      BY <2>1, DyadicFacts
    <3>3. Bits - (d + 1) = Bits - 1 - d /\ d + 1 \in 0..Bits
      BY <1>4, <2>1, TableAssumption DEF Dyadic
    <3>4. w = Pow2[Bits - 1 - d]
      BY <3>3
    <3> HIDE DEF w
    <3>5. mid - lo = w /\ hi - mid = w /\ mid # -1
      BY <3>1, <3>2
    <3> QED
      BY <3>1, <3>2, <3>3, <3>4, <3>5
  <2> HIDE DEF mid
  <2>3. b \in Bucket /\ b.first = lo /\ b.nodes = ns
    <3>1. b = [bs[i] EXCEPT !.cached = NoAddr]
      BY DEF send_cached_ping
    <3> HIDE DEF b
    <3> QED
      BY <1>1, <3>1 DEF Bucket
  <2>4. split_bucket(bs, i) = cs
    <3> DEFINE M == bucket_middle(bs, i)
               part == {m \in Range(b.nodes) : m.id < M}
               first == Reverse(Kept(b.nodes, part))
               second == Reverse(Kept(b.nodes, Range(b.nodes) \ part))
    <3>1. split_bucket(bs, i) =
            IF M = -1 THEN bs
            ELSE Spliced(bs, i, [b EXCEPT !.nodes = first, !.count = Len(first)],
                                [b EXCEPT !.first = M, !.nodes = second, !.count = Len(second)])
      BY DEF split_bucket, Spliced
    <3>2. M = mid /\ M # -1
      BY <1>2, <1>4, <2>2
    <3> HIDE DEF b, ns, lo, hi, M
    <3>3. part = lower
      BY <2>3, <3>2
    <3>4. first = low /\ second = high
      BY <2>3, <3>3
    <3> HIDE DEF part, first, second, low, high, lower
    <3> QED
      BY <3>1, <3>2, <3>4
  <2>5. NodeList(low, lo, mid) /\ Range(low) = lower \cap Range(ns) /\ Len(low) \in Nat
    <3>1. \A m \in lower : lo <= m.id /\ m.id < mid
      BY <1>1 DEF Range, NodeList
    <3> HIDE DEF lower, lo, hi, ns
    <3> QED
      BY <1>1, <3>1, ReversedList
  <2>6. NodeList(high, mid, hi) /\ Range(high) = (Range(ns) \ lower) \cap Range(ns) /\ Len(high) \in Nat
    <3> DEFINE S == Range(ns) \ lower
    <3>1. \A m \in S : mid <= m.id /\ m.id < hi
      <4> SUFFICES ASSUME NEW m \in S PROVE mid <= m.id /\ m.id < hi
        OBVIOUS
      <4>1. PICK p \in 1..Len(ns) : m = ns[p]
        BY <1>1 DEF Range, NodeList
      <4>2. m.id < hi /\ ~(m.id < mid)
        BY <1>1, <4>1 DEF NodeList
      <4>3. ns[p] \in Node
        BY <1>1 DEF NodeList
      <4>4. m.id \in Int
        BY <4>1, <4>3, Pow2Nat DEF Node, Id
      <4> QED
        BY <4>2, <4>4, <2>2
    <3> HIDE DEF S, lo, hi, ns
    <3>2. NodeList(Reverse(Kept(ns, S)), mid, hi)
          /\ Range(Reverse(Kept(ns, S))) = S \cap Range(ns) /\ Len(Reverse(Kept(ns, S))) \in Nat
      BY <1>1, <3>1, ReversedList
    <3> QED
      BY <3>2 DEF S
  <2> HIDE DEF low, high
  <2>7. l \in Bucket /\ l.first = lo /\ l.nodes = low /\ l.count = Len(low)
    <3>1. low \in Seq(Node)
      BY <2>5 DEF NodeList
    <3> HIDE DEF b
    <3> QED
      BY <2>3, <2>5, <3>1 DEF Bucket
  <2>8. h \in Bucket /\ h.first = mid /\ h.nodes = high /\ h.count = Len(high)
    <3>1. high \in Seq(Node)
      BY <2>6 DEF NodeList
    <3> HIDE DEF b
    <3> QED
      BY <2>2, <2>3, <2>6, <3>1 DEF Bucket
  <2> HIDE DEF l, h
  <2>9. /\ cs \in Seq(Bucket) /\ Len(cs) = n + 1
        /\ \A j \in 1..i-1 : cs[j] = bs[j]
        /\ cs[i] = l /\ cs[i + 1] = h
        /\ \A j \in i+2..n+1 : cs[j] = bs[j - 1]
    <3> HIDE DEF lo, hi, ns
    <3>1. bs \in Seq(Bucket) /\ l \in Bucket /\ h \in Bucket
      BY <1>1, <2>7, <2>8
    <3>2. cs = Spliced(bs, i, l, h)
      OBVIOUS
    <3> HIDE DEF cs
    <3>3. SplicedAs(cs, bs, i, l, h)
      BY <3>1, <3>2, SplicedFacts
    <3> QED
      BY <3>3 DEF SplicedAs
  <2> HIDE DEF cs, lo, hi, ns, n
  <2>10. \A j \in 1..Len(cs) : j \in 1..i-1 \/ j = i \/ j = i + 1 \/ j \in i+2..n+1
    BY <1>1, <2>9
  <2>11. /\ \A j \in 1..i-1 : j \in 1..Len(bs) /\ j \in 1..n
         /\ \A j \in i+2..n+1 : j - 1 \in 1..n /\ j - 1 # i
    BY <1>1 DEF n
  <2>12. cs[i].first = lo /\ cs[i + 1].first = mid
    BY <2>7, <2>8, <2>9
  <2>13. UpTo(cs, i) = mid
    <3>1. i # Len(cs)
      BY <1>1, <2>9
    <3> QED
      BY <2>12, <3>1 DEF UpTo
  <2>14. UpTo(cs, i + 1) = hi
    <3>1. CASE i = n
      BY <2>9, <3>1 DEF UpTo, hi, n
    <3>2. CASE i # n
      <4>1. (i + 1) # n + 1 /\ (i + 1) + 1 \in i+2..n+1 /\ ((i + 1) + 1) - 1 = i + 1
        BY <1>1, <3>2
      <4>2. cs[(i + 1) + 1] = bs[i + 1]
        BY <2>9, <4>1
      <4>3. hi = bs[i + 1].first
        BY <3>2 DEF UpTo, hi, n
      <4> QED
        BY <2>9, <4>1, <4>2, <4>3 DEF UpTo
    <3> QED
      BY <3>1, <3>2
  <2>15. ASSUME NEW j \in 1..i-1 PROVE UpTo(cs, j) = UpTo(bs, j)
    <3>1. j # n /\ j # n + 1 /\ (j + 1 = i \/ j + 1 \in 1..i-1)
      BY <1>1
    <3>2. cs[j + 1].first = bs[j + 1].first
      BY <2>9, <2>12, <3>1 DEF lo
    <3> QED
      BY <2>9, <3>1, <3>2 DEF UpTo, n
  <2>16. ASSUME NEW j \in i+2..n+1 PROVE UpTo(cs, j) = UpTo(bs, j - 1)
    <3>1. CASE j = n + 1
      <4>1. j - 1 = n
        BY <1>1, <3>1
      <4> QED
        BY <2>9, <3>1, <4>1 DEF UpTo, n
    <3>2. CASE j # n + 1
      <4>1. j - 1 # n /\ j + 1 \in i+2..n+1 /\ (j + 1) - 1 = j /\ (j - 1) + 1 = j
        BY <1>1, <3>2
      <4>2. cs[j + 1] = bs[j]
        BY <2>9, <4>1
      <4> QED
        BY <2>9, <3>2, <4>1, <4>2 DEF UpTo, n
    <3> QED
      BY <3>1, <3>2
  <2>17. cs[1].first = 0
    <3>1. CASE i = 1
      BY <1>1, <2>12, <3>1 DEF lo
    <3>2. CASE i # 1
      <4>1. 1 \in 1..i-1
        BY <1>1, <3>2
      <4> QED
        BY <1>1, <2>9, <4>1
    <3> QED
      BY <3>1, <3>2
  <2>18. ASSUME NEW j \in 1..Len(cs) PROVE \E e \in 0..Bits : Dyadic(cs[j].first, UpTo(cs, j), e)
    <3>1. CASE j \in 1..i-1
      BY <2>9, <2>11, <2>15, <3>1 DEF Tabled, n
    <3>2. CASE j = i
      BY <2>1, <2>2, <2>12, <2>13, <3>2
    <3>3. CASE j = i + 1
      BY <2>1, <2>2, <2>12, <2>14, <3>3
    <3>4. CASE j \in i+2..n+1
      <4>1. \E e \in 0..Bits : Dyadic(bs[j - 1].first, UpTo(bs, j - 1), e)
        BY <2>11, <3>4 DEF Tabled, n
      <4> QED
        BY <2>9, <2>16, <3>4, <4>1
    <3> QED
      BY <2>10, <3>1, <3>2, <3>3, <3>4
  <2>19. ASSUME NEW j \in 1..Len(cs)
         PROVE  cs[j].count = Len(cs[j].nodes) /\ NodeList(cs[j].nodes, cs[j].first, UpTo(cs, j))
    <3>1. CASE j \in 1..i-1
      <4>1. bs[j].count = Len(bs[j].nodes) /\ NodeList(bs[j].nodes, bs[j].first, UpTo(bs, j))
        BY <2>11, <3>1 DEF Tabled
      <4> QED
        BY <2>9, <2>15, <3>1, <4>1
    <3>2. CASE j = i
      BY <2>5, <2>7, <2>9, <2>13, <3>2
    <3>3. CASE j = i + 1
      BY <2>6, <2>8, <2>9, <2>14, <3>3
    <3>4. CASE j \in i+2..n+1
      <4> DEFINE k == j - 1
      <4>1. k \in 1..Len(bs) /\ cs[j] = bs[k] /\ UpTo(cs, j) = UpTo(bs, k)
        BY <2>9, <2>11, <2>16, <3>4 DEF n
      <4> HIDE DEF k
      <4>2. bs[k].count = Len(bs[k].nodes) /\ NodeList(bs[k].nodes, bs[k].first, UpTo(bs, k))
        BY <4>1 DEF Tabled
      <4> QED
        BY <4>1, <4>2
    <3> QED
      BY <2>10, <3>1, <3>2, <3>3, <3>4
  <2>20. \A j, k \in 1..n : j < k => bs[j].first < bs[k].first
    BY DEF Tabled, n
  <2>21. /\ \A j \in 1..i-1 : bs[j].first < lo
         /\ \A j \in i+2..n+1 : hi <= bs[j - 1].first
    <3>1. ASSUME NEW j \in 1..i-1 PROVE bs[j].first < lo
      <4>1. j \in 1..n /\ i \in 1..n /\ j < i
        BY <1>1
      <4> QED
        BY <2>20, <4>1 DEF lo
    <3>2. ASSUME NEW j \in i+2..n+1 PROVE hi <= bs[j - 1].first
      <4> DEFINE k == j - 1
      <4>1. i # n /\ i + 1 \in 1..n /\ k \in 1..n /\ (i + 1 = k \/ i + 1 < k)
        BY <1>1
      <4> HIDE DEF k
      <4>2. hi = bs[i + 1].first
        BY <4>1 DEF UpTo, hi, n
      <4>3. i + 1 < k => bs[i + 1].first < bs[k].first
        BY <2>20, <4>1
      <4>4. bs[k].first \in Nat /\ bs[i + 1].first \in Nat
        BY <1>1, <4>1
      <4>5. hi <= bs[k].first
        BY <4>1, <4>2, <4>3, <4>4
      <4> QED
        BY <4>5 DEF k
    <3> QED
      BY <3>1, <3>2
  <2>22. ASSUME NEW j \in 1..Len(cs), NEW k \in 1..Len(cs), j < k PROVE cs[j].first < cs[k].first
    <3>0. /\ \A x \in 1..i-1 : bs[x].first \in Nat /\ bs[x].first < lo
          /\ \A x \in i+2..n+1 : bs[x - 1].first \in Nat /\ hi <= bs[x - 1].first
      BY <1>1, <2>11, <2>21
    <3>1. CASE j \in 1..i-1 /\ k \in 1..i-1
      BY <2>9, <2>11, <2>20, <2>22, <3>1
    <3>2. CASE j \in i+2..n+1 /\ k \in i+2..n+1
      <4>1. j - 1 \in 1..n /\ k - 1 \in 1..n /\ j - 1 < k - 1
        BY <2>11, <2>22, <3>2
      <4>2. bs[j - 1].first < bs[k - 1].first
        BY <2>20, <4>1
      <4> QED
        BY <2>9, <3>2, <4>2
    <3>3. CASE j \in 1..i-1 /\ k = i
      BY <2>9, <2>12, <3>0, <3>3
    <3>4. CASE j \in 1..i-1 /\ k = i + 1
      BY <2>2, <2>9, <2>12, <3>0, <3>4
    <3>5. CASE j \in 1..i-1 /\ k \in i+2..n+1
      <4>1. cs[j] = bs[j] /\ cs[k] = bs[k - 1]
        BY <2>9, <3>5
      <4>2. bs[j].first < lo /\ bs[j].first \in Nat /\ hi <= bs[k - 1].first /\ bs[k - 1].first \in Nat
        BY <3>0, <3>5
      <4>3. bs[j].first < bs[k - 1].first
        BY <2>2, <4>2
      <4> QED
        BY <4>1, <4>3
    <3>6. CASE j = i /\ k = i + 1
      BY <2>2, <2>12, <3>6
    <3>7. CASE j = i /\ k \in i+2..n+1
      BY <2>2, <2>9, <2>12, <3>0, <3>7
    <3>8. CASE j = i + 1 /\ k \in i+2..n+1
      BY <2>2, <2>9, <2>12, <3>0, <3>8
    <3>9. ~(j = i /\ k \in 1..i-1) /\ ~(j = i + 1 /\ (k \in 1..i-1 \/ k = i))
          /\ ~(j \in i+2..n+1 /\ (k \in 1..i-1 \/ k = i \/ k = i + 1)) /\ j # k
      BY <1>1, <2>22
    <3> QED
      BY <2>10, <3>1, <3>2, <3>3, <3>4, <3>5, <3>6, <3>7, <3>8, <3>9
  <2>23. Tabled(cs)
    <3>1. Len(cs) > 0
      BY <1>1, <2>9
    <3> QED
      BY <2>9, <2>17, <2>18, <2>19, <2>22, <3>1 DEF Tabled
  <2>24. Range(low) \cup Range(high) = Range(ns)
    BY <2>5, <2>6
  <2>25. ASSUME NEW x PROVE x \in Nodes(cs) <=> x \in Nodes(bs)
    <3>1. ASSUME NEW j \in 1..Len(cs), x \in Range(cs[j].nodes) PROVE \E k \in 1..n : x \in Range(bs[k].nodes)
      <4>1. CASE j \in 1..i-1
        BY <2>9, <2>11, <3>1, <4>1
      <4>2. CASE j = i \/ j = i + 1
        <5>1. x \in Range(ns)
          BY <2>7, <2>8, <2>9, <2>24, <3>1, <4>2
        <5> QED
          BY <5>1, <1>1 DEF ns, n
      <4>3. CASE j \in i+2..n+1
        BY <2>9, <2>11, <3>1, <4>3
      <4> QED
        BY <2>10, <4>1, <4>2, <4>3
    <3>2. ASSUME NEW k \in 1..n, x \in Range(bs[k].nodes) PROVE \E j \in 1..Len(cs) : x \in Range(cs[j].nodes)
      <4>1. CASE k < i
        <5>1. k \in 1..i-1 /\ k \in 1..Len(cs)
          BY <1>1, <2>9, <4>1
        <5> QED
          BY <2>9, <3>2, <5>1
      <4>2. CASE k = i
        <5>1. x \in Range(low) \/ x \in Range(high)
          BY <2>24, <3>2, <4>2 DEF ns
        <5>2. i \in 1..Len(cs) /\ i + 1 \in 1..Len(cs)
          BY <1>1, <2>9
        <5> QED
          BY <2>7, <2>8, <2>9, <5>1, <5>2
      <4>3. CASE k > i
        <5>1. k + 1 \in i+2..n+1 /\ k + 1 \in 1..Len(cs) /\ (k + 1) - 1 = k
          BY <1>1, <2>9, <4>3
        <5>2. cs[k + 1] = bs[k]
          BY <2>9, <5>1
        <5> QED
          BY <3>2, <5>1, <5>2
      <4> QED
        BY <1>1, <4>1, <4>2, <4>3
    <3>3. x \in Nodes(cs) <=> \E j \in 1..Len(cs) : x \in Range(cs[j].nodes)
      BY <2>9, NodesOf
    <3>4. x \in Nodes(bs) <=> \E k \in 1..n : x \in Range(bs[k].nodes)
      BY <1>1, NodesOf DEF n
    <3> QED
      BY <3>1, <3>2, <3>3, <3>4
  <2>26. ASSUME NEW id \in Id, lo <= id, id < hi
         PROVE  \E k \in 1..Len(cs) : /\ cs[k].first <= id /\ id < UpTo(cs, k)
                                      /\ UpTo(cs, k) - cs[k].first = Pow2[Bits - 1 - d]
    <3>1. id \in Int /\ i \in 1..Len(cs) /\ i + 1 \in 1..Len(cs)
      BY <1>1, <2>9, Pow2Nat DEF Id
    <3>2. CASE id < mid
      BY <2>2, <2>12, <2>13, <2>26, <3>1, <3>2
    <3>3. CASE ~(id < mid)
      <4>1. mid <= id
        BY <2>2, <3>1, <3>3
      <4> QED
        BY <2>2, <2>12, <2>14, <2>26, <3>1, <4>1
    <3> QED
      BY <3>2, <3>3
  <2>27. Nodes(cs) = Nodes(bs)
    BY <2>25
  <2> QED
    BY <2>4, <2>23, <2>26, <2>27 DEF lo, hi, SplitAs
<1> QED
  BY <1>3, <1>4

(***************************************************************************)
(* What becomes of the nodes                                               *)
(***************************************************************************)
\* A node that neither new_node nor expire_buckets may drop: fewer than three requests to it
\* are unanswered, or the third has just been sent.  The ids in X are excepted.
Safe(X) == {n \in Node : n.id \notin X /\ (n.pinged <= 2 \/ (n.pinged = 3 /\ n.pinged_time = 0))}

\* Who is in the class G and in S is still so in T.
Keeps(S, T, G) == \A n \in S \cap G : \E m \in T \cap G : m.id = n.id

\* No node of T got an address in B, and none that has one got a reply from it.
NoNew(S, T, B) ==
  \A m \in T : m.addr \in B =>
    \E n \in S : n.id = m.id /\ n.addr = m.addr /\ m.reply_time >= n.reply_time

Follows(S, T, G, B) == Keeps(S, T, G) /\ NoNew(S, T, B)

\* Times are numbers.
LEMMA NodeFacts ==
  /\ 0 \in Age /\ Old \in Age /\ Old \in Nat /\ PingWait \in Nat
  /\ \A n \in Node : /\ n.id \in Id /\ n.id \in Nat /\ n.reply_time \in Nat /\ n.pinged \in 0..4
                     /\ n.pinged_time \in Age /\ n.pinged_time \in Nat /\ n.addr \in Addr /\ n.time \in Age
  /\ \A c \in Contact : c.id \in Id /\ c.id \in Nat /\ c.addr \in Addr
<1>1. Answered \in Nat /\ PingWait \in Nat /\ \A c \in Contact : c.id \in Id
  BY TableAssumption
<1>2. 0 \in Age /\ Old \in Age /\ Old \in Nat /\ \A a \in Age : a \in Nat
  BY <1>1 DEF Age, Old
<1>3. \A i \in Id : i \in Nat
  BY Pow2Nat DEF Id
<1>4. \A c \in Contact : c.addr \in Addr
  BY DEF Addr
<1>5. ASSUME NEW n \in Node
      PROVE  /\ n.id \in Id /\ n.reply_time \in Age /\ n.pinged \in 0..4
             /\ n.pinged_time \in Age /\ n.addr \in Addr /\ n.time \in Age
  BY DEF Node
<1> QED
  BY <1>1, <1>2, <1>3, <1>4, <1>5

\* The relation is reflexive and transitive.
LEMMA FollowsSame ==
  ASSUME NEW S \in SUBSET Node, NEW G, NEW B
  PROVE  Follows(S, S, G, B)
<1>1. \A n \in S : n.reply_time >= n.reply_time
  BY NodeFacts
<1> QED
  BY <1>1 DEF Follows, Keeps, NoNew

\* See FollowsSame.
LEMMA FollowsTrans ==
  ASSUME NEW S \in SUBSET Node, NEW T \in SUBSET Node, NEW U \in SUBSET Node, NEW G, NEW B,
         Follows(S, T, G, B), Follows(T, U, G, B)
  PROVE  Follows(S, U, G, B)
<1>1. Keeps(S, U, G)
  <2> SUFFICES ASSUME NEW n \in S \cap G PROVE \E m \in U \cap G : m.id = n.id
    BY DEF Keeps
  <2>1. PICK m \in T \cap G : m.id = n.id
    BY DEF Follows, Keeps
  <2>2. PICK l \in U \cap G : l.id = m.id
    BY DEF Follows, Keeps
  <2> QED
    BY <2>1, <2>2
<1>2. NoNew(S, U, B)
  <2> SUFFICES ASSUME NEW m \in U, m.addr \in B
               PROVE  \E n \in S : n.id = m.id /\ n.addr = m.addr /\ m.reply_time >= n.reply_time
    BY DEF NoNew
  <2>1. PICK l \in T : l.id = m.id /\ l.addr = m.addr /\ m.reply_time >= l.reply_time
    BY DEF Follows, NoNew
  <2>2. PICK n \in S : n.id = l.id /\ n.addr = l.addr /\ l.reply_time >= n.reply_time
    BY <2>1 DEF Follows, NoNew
  <2>3. m.reply_time \in Nat /\ l.reply_time \in Nat /\ n.reply_time \in Nat
    BY NodeFacts
  <2>4. m.reply_time >= n.reply_time
    BY <2>1, <2>2, <2>3
  <2> QED
    BY <2>1, <2>2, <2>4
<1> QED
  BY <1>1, <1>2 DEF Follows

\* Nodes are nodes.
LEMMA NodesTyped ==
  ASSUME NEW bs, Tabled(bs)
  PROVE  Nodes(bs) \in SUBSET Node /\ \A i \in 1..Len(bs) : Range(bs[i].nodes) \in SUBSET Node
<1>1. ASSUME NEW i \in 1..Len(bs) PROVE Range(bs[i].nodes) \in SUBSET Node
  <2>1. bs[i].nodes \in Seq(Node)
    BY BucketFacts DEF NodeList
  <2> QED
    BY <2>1 DEF Range
<1>2. bs \in Seq(Bucket)
  BY DEF Tabled
<1> QED
  BY <1>1, <1>2, NodesOf

\* A bucket for the ids from lo to hi - 1.
Filled(b, lo, hi) ==
  b \in Bucket /\ b.first = lo /\ b.count = Len(b.nodes) /\ NodeList(b.nodes, lo, hi)

\* A bucket takes another's place: the table stays a table, and its nodes follow.
LEMMA Replaced ==
  ASSUME NEW bs, Tabled(bs), NEW i \in 1..Len(bs), NEW b, Filled(b, bs[i].first, UpTo(bs, i)),
         NEW G, NEW B, Follows(Range(bs[i].nodes), Range(b.nodes), G, B)
  PROVE  /\ Tabled([bs EXCEPT ![i] = b])
         /\ Follows(Nodes(bs), Nodes([bs EXCEPT ![i] = b]), G, B)
<1> DEFINE cs == [bs EXCEPT ![i] = b]
<1>1. Tabled(cs) /\ Len(cs) = Len(bs)
  BY ReplaceTabled DEF Filled
<1>2. bs \in Seq(Bucket) /\ cs[i] = b /\ \A j \in 1..Len(bs) : j # i => cs[j] = bs[j]
  BY DEF Tabled
<1> HIDE DEF cs
<1>3. \A n : n \in Nodes(bs) <=> \E j \in 1..Len(bs) : n \in Range(bs[j].nodes)
  BY <1>2, NodesOf
<1>4. \A n : n \in Nodes(cs) <=> \E j \in 1..Len(bs) : n \in Range(cs[j].nodes)
  BY <1>1, NodesOf DEF Tabled
<1>5. Keeps(Nodes(bs), Nodes(cs), G)
  <2> SUFFICES ASSUME NEW n \in Nodes(bs) \cap G PROVE \E m \in Nodes(cs) \cap G : m.id = n.id
    BY DEF Keeps
  <2>1. PICK j \in 1..Len(bs) : n \in Range(bs[j].nodes)
    BY <1>3
  <2>2. CASE j = i
    <3>1. PICK m \in Range(b.nodes) \cap G : m.id = n.id
      BY <2>1, <2>2 DEF Follows, Keeps
    <3> QED
      BY <3>1, <1>2, <1>4
  <2>3. CASE j # i
    BY <1>2, <1>4, <2>1, <2>3
  <2> QED
    BY <2>2, <2>3
<1>6. NoNew(Nodes(bs), Nodes(cs), B)
  <2> SUFFICES ASSUME NEW m \in Nodes(cs), m.addr \in B
               PROVE  \E n \in Nodes(bs) : n.id = m.id /\ n.addr = m.addr /\ m.reply_time >= n.reply_time
    BY DEF NoNew
  <2>1. PICK j \in 1..Len(bs) : m \in Range(cs[j].nodes)
    BY <1>4
  <2>2. CASE j = i
    <3>1. PICK n \in Range(bs[i].nodes) : n.id = m.id /\ n.addr = m.addr /\ m.reply_time >= n.reply_time
      BY <1>2, <2>1, <2>2 DEF Follows, NoNew
    <3> QED
      BY <3>1, <1>3
  <2>3. CASE j # i
    <3>1. m \in Range(bs[j].nodes)
      BY <1>2, <2>1, <2>3
    <3>2. m \in Node
      BY <3>1, NodesTyped
    <3> QED
      BY <3>1, <3>2, <1>3, NodeFacts
  <2> QED
    BY <2>2, <2>3
<1> QED
  BY <1>1, <1>5, <1>6 DEF cs, Follows

\* m may take the place of n.
Succeeds(m, n, G, B) ==
  /\ n \in G => m \in G /\ m.id = n.id
  /\ m.addr \in B => n.id = m.id /\ n.addr = m.addr /\ m.reply_time >= n.reply_time

\* A node of a list changes, or another one takes its place.
LEMMA SetNode ==
  ASSUME NEW ns, NEW lo, NEW hi, NodeList(ns, lo, hi), NEW p \in 1..Len(ns), NEW m \in Node,
         \/ m.id = ns[p].id
         \/ /\ lo <= m.id /\ m.id < hi /\ m.id # myid
            /\ \A q \in 1..Len(ns) : ns[q].id # m.id,
         NEW G, NEW B, Succeeds(m, ns[p], G, B)
  PROVE  LET ms == [ns EXCEPT ![p] = m]
         IN  NodeList(ms, lo, hi) /\ Len(ms) = Len(ns) /\ Follows(Range(ns), Range(ms), G, B)
<1> DEFINE ms == [ns EXCEPT ![p] = m]
<1>1. ns \in Seq(Node) /\ Len(ns) \in Nat /\ DOMAIN ns = 1..Len(ns) /\ Len(ns) <= K
  BY DEF NodeList
<1>2. /\ ms \in Seq(Node) /\ Len(ms) = Len(ns) /\ ms[p] = m /\ DOMAIN ms = 1..Len(ns)
      /\ \A q \in 1..Len(ns) : q # p => ms[q] = ns[q]
  BY <1>1
<1> HIDE DEF ms
<1>3. NodeList(ms, lo, hi)
  <2>1. ASSUME NEW q \in 1..Len(ms) PROVE lo <= ms[q].id /\ ms[q].id < hi /\ ms[q].id # myid
    BY <1>2 DEF NodeList
  <2>2. ASSUME NEW q \in 1..Len(ms), NEW r \in 1..Len(ms), ms[q].id = ms[r].id PROVE q = r
    BY <1>2, <2>2 DEF NodeList
  <2> QED
    BY <1>1, <1>2, <2>1, <2>2 DEF NodeList
<1>4. \A x : x \in Range(ns) <=> \E q \in 1..Len(ns) : x = ns[q]
  BY <1>1 DEF Range
<1>5. \A x : x \in Range(ms) <=> \E q \in 1..Len(ns) : x = ms[q]
  BY <1>2 DEF Range
<1>6. Keeps(Range(ns), Range(ms), G)
  <2> SUFFICES ASSUME NEW n \in Range(ns) \cap G PROVE \E l \in Range(ms) \cap G : l.id = n.id
    BY DEF Keeps
  <2>1. PICK q \in 1..Len(ns) : n = ns[q]
    BY <1>4
  <2>2. CASE q = p
    <3>1. m \in G /\ m.id = n.id /\ m \in Range(ms)
      BY <1>2, <1>5, <2>1, <2>2 DEF Succeeds
    <3> QED
      BY <3>1
  <2>3. CASE q # p
    BY <1>2, <1>5, <2>1, <2>3
  <2> QED
    BY <2>2, <2>3
<1>7. NoNew(Range(ns), Range(ms), B)
  <2> SUFFICES ASSUME NEW l \in Range(ms), l.addr \in B
               PROVE  \E n \in Range(ns) : n.id = l.id /\ n.addr = l.addr /\ l.reply_time >= n.reply_time
    BY DEF NoNew
  <2>1. PICK q \in 1..Len(ns) : l = ms[q]
    BY <1>5
  <2>2. ns[q] \in Range(ns) /\ ns[q] \in Node
    BY <1>1, <1>4
  <2>3. CASE q = p
    BY <1>2, <2>1, <2>2, <2>3 DEF Succeeds
  <2>4. CASE q # p
    <3>1. l = ns[q] /\ l.reply_time \in Nat
      BY <1>2, <2>1, <2>2, <2>4, NodeFacts
    <3> QED
      BY <2>2, <3>1
  <2> QED
    BY <2>3, <2>4
<1> QED
  BY <1>2, <1>3, <1>6, <1>7 DEF ms, Follows

\* The same, seen from the bucket.
LEMMA SetBucketNode ==
  ASSUME NEW b, NEW lo, NEW hi, Filled(b, lo, hi), NEW p \in 1..Len(b.nodes), NEW m \in Node,
         \/ m.id = b.nodes[p].id
         \/ /\ lo <= m.id /\ m.id < hi /\ m.id # myid
            /\ \A q \in 1..Len(b.nodes) : b.nodes[q].id # m.id,
         NEW G, NEW B, Succeeds(m, b.nodes[p], G, B)
  PROVE  LET c == [b EXCEPT !.nodes = [b.nodes EXCEPT ![p] = m]]
         IN  Filled(c, lo, hi) /\ Follows(Range(b.nodes), Range(c.nodes), G, B)
<1> DEFINE ms == [b.nodes EXCEPT ![p] = m]
           c == [b EXCEPT !.nodes = ms]
<1>1. NodeList(ms, lo, hi) /\ Len(ms) = Len(b.nodes) /\ Follows(Range(b.nodes), Range(ms), G, B)
  <2> DEFINE ns == b.nodes
  <2>1. /\ NodeList(ns, lo, hi) /\ p \in 1..Len(ns) /\ Succeeds(m, ns[p], G, B)
        /\ \/ m.id = ns[p].id
           \/ /\ lo <= m.id /\ m.id < hi /\ m.id # myid
              /\ \A q \in 1..Len(ns) : ns[q].id # m.id
    BY DEF Filled
  <2> HIDE DEF ns
  <2>2. LET xs == [ns EXCEPT ![p] = m]
        IN  NodeList(xs, lo, hi) /\ Len(xs) = Len(ns) /\ Follows(Range(ns), Range(xs), G, B)
    BY <2>1, SetNode
  <2> QED
    BY <2>2 DEF ns
<1> HIDE DEF ms
<1>2. ms \in Seq(Node)
  BY <1>1 DEF NodeList
<1>3. c \in Bucket /\ c.first = lo /\ c.count = Len(ms) /\ c.nodes = ms
  BY <1>1, <1>2 DEF Filled, Bucket
<1> HIDE DEF c
<1> QED
  BY <1>1, <1>3 DEF Filled, c, ms

(***************************************************************************)
(* Requests                                                                *)
(***************************************************************************)
\* A node that is sent a request.
Requested(n) == [n EXCEPT !.pinged = Smaller(n.pinged + 1, 4), !.pinged_time = 0]

\* It stays the node it is, and a safe one that was not just asked stays safe.
LEMMA RequestedFacts ==
  ASSUME NEW n \in Node, NEW B
  PROVE  /\ Requested(n) \in Node /\ Requested(n).id = n.id
         /\ Succeeds(Requested(n), n, Node, B)
         /\ \A X : n.pinged_time > PingWait => Succeeds(Requested(n), n, Safe(X), B)
<1> DEFINE m == Requested(n)
           k == Smaller(n.pinged + 1, 4)
<1>1. n.pinged \in 0..4 /\ 0 \in Age /\ n.reply_time \in Nat
  BY NodeFacts
<1>2. k \in 0..4 /\ (n.pinged <= 2 => k <= 3)
  BY <1>1 DEF Smaller
<1> HIDE DEF k
<1>3. /\ m \in Node /\ m.id = n.id /\ m.addr = n.addr /\ m.reply_time = n.reply_time
      /\ m.pinged = k /\ m.pinged_time = 0
  BY <1>1, <1>2 DEF Requested, Node, k
<1> HIDE DEF m
<1>4. Succeeds(m, n, Node, B)
  BY <1>1, <1>3 DEF Succeeds
<1>5. ASSUME NEW X, n.pinged_time > PingWait PROVE Succeeds(m, n, Safe(X), B)
  <2>1. n.pinged_time # 0
    BY <1>5, NodeFacts
  <2>2. n \in Safe(X) => m \in Safe(X)
    BY <1>1, <1>2, <1>3, <2>1 DEF Safe
  <2> QED
    BY <1>1, <1>3, <2>2 DEF Succeeds
<1> QED
  BY <1>3, <1>4, <1>5 DEF m

\* Asked says the same of the bucket.
LEMMA AskedIs ==
  ASSUME NEW b \in Bucket, NEW p \in 1..Len(b.nodes)
  PROVE  Asked(b, p) = [b EXCEPT !.nodes = [b.nodes EXCEPT ![p] = Requested(b.nodes[p])]]
<1> DEFINE ns == b.nodes
           n == ns[p]
           k == Smaller(n.pinged + 1, 4)
           ms == [ns EXCEPT ![p] = Requested(n)]
<1>1. ns \in Seq(Node) /\ n \in Node /\ DOMAIN ns = 1..Len(ns)
  BY DEF Bucket
<1>2. [ns EXCEPT ![p].pinged = Smaller(@ + 1, 4), ![p].pinged_time = 0] = ms
  BY <1>1 DEF Requested
<1>3. Asked(b, p) = [b EXCEPT !.nodes = [ns EXCEPT ![p].pinged = Smaller(@ + 1, 4), ![p].pinged_time = 0]]
  BY <1>1 DEF Asked, Bucket
<1> QED
  BY <1>2, <1>3

\* A bucket is a bucket when one of its nodes was asked.
LEMMA AskedFilled ==
  ASSUME NEW b, NEW lo, NEW hi, Filled(b, lo, hi), NEW p \in 1..Len(b.nodes), NEW G, NEW B,
         Succeeds(Requested(b.nodes[p]), b.nodes[p], G, B)
  PROVE  /\ Filled(Asked(b, p), lo, hi)
         /\ Follows(Range(b.nodes), Range(Asked(b, p).nodes), G, B)
<1> DEFINE m == Requested(b.nodes[p])
<1>1. b \in Bucket /\ b.nodes[p] \in Node
  BY DEF Filled, NodeList
<1>2. m \in Node /\ m.id = b.nodes[p].id
  BY <1>1, RequestedFacts
<1>3. Asked(b, p) = [b EXCEPT !.nodes = [b.nodes EXCEPT ![p] = m]]
  BY <1>1, AskedIs
<1> HIDE DEF m
<1>4. Succeeds(m, b.nodes[p], G, B)
  BY DEF m
<1>5. LET c == [b EXCEPT !.nodes = [b.nodes EXCEPT ![p] = m]]
      IN  Filled(c, lo, hi) /\ Follows(Range(b.nodes), Range(c.nodes), G, B)
  BY <1>2, <1>4, SetBucketNode
<1> QED
  BY <1>3, <1>5

\* The candidate is no part of this.
LEMMA CachedFilled ==
  ASSUME NEW b, NEW lo, NEW hi, Filled(b, lo, hi), NEW a \in Addr \cup {NoAddr}
  PROVE  LET c == [b EXCEPT !.cached = a] IN Filled(c, lo, hi) /\ c.nodes = b.nodes
<1> DEFINE c == [b EXCEPT !.cached = a]
<1>1. c \in Bucket /\ c.first = b.first /\ c.count = b.count /\ c.nodes = b.nodes
  BY DEF Filled, Bucket
<1> HIDE DEF c
<1> QED
  BY <1>1 DEF Filled, c

\* pinged leaves a bucket a bucket, with the same ids.
LEMMA PingedFilled ==
  ASSUME NEW b, NEW lo, NEW hi, Filled(b, lo, hi), NEW p \in 1..Len(b.nodes), NEW G, NEW B,
         Succeeds(Requested(b.nodes[p]), b.nodes[p], G, B)
  PROVE  /\ Filled(pinged(b, p), lo, hi)
         /\ Follows(Range(b.nodes), Range(pinged(b, p).nodes), G, B)
<1> DEFINE a == Asked(b, p)
<1>1. Filled(a, lo, hi) /\ Follows(Range(b.nodes), Range(a.nodes), G, B)
  BY AskedFilled
<1>2. pinged(b, p) = IF a.nodes[p].pinged >= 3 THEN send_cached_ping(a) ELSE a
  BY DEF pinged
<1> HIDE DEF a
<1>3. Filled(send_cached_ping(a), lo, hi) /\ send_cached_ping(a).nodes = a.nodes
  BY <1>1, CachedFilled DEF send_cached_ping
<1> QED
  BY <1>1, <1>2, <1>3

(***************************************************************************)
(* new_node                                                                *)
(***************************************************************************)
\* A node that was heard of.
LEMMA FreshFacts ==
  ASSUME NEW c \in Contact, NEW confirm \in 0..2
  PROVE  Fresh(c, confirm) \in Node /\ Fresh(c, confirm).id = c.id /\ Fresh(c, confirm).addr = c.addr
  BY NodeFacts DEF Fresh, Node

\* A node we know stays the node it is.
LEMMA KnownFacts ==
  ASSUME NEW n \in Node, NEW c \in Contact, NEW confirm \in 0..2, NEW X, NEW B, c.addr \notin B
  PROVE  /\ Known(n, c, confirm) \in Node /\ Known(n, c, confirm).id = n.id
         /\ Succeeds(Known(n, c, confirm), n, Safe(X), B)
<1> DEFINE m == Known(n, c, confirm)
<1>1. n.reply_time \in Nat /\ c.addr \in Addr /\ 0 \in Age /\ Old \in Age
  BY NodeFacts
<1>2. CASE confirm = 0 /\ n.time <= Recent
  <2>1. m = n
    BY <1>2 DEF Known
  <2> QED
    BY <1>1, <2>1 DEF Succeeds
<1>3. CASE ~(confirm = 0 /\ n.time <= Recent)
  <2>1. /\ m \in Node /\ m.id = n.id /\ m.addr = c.addr
        /\ m.pinged = IF confirm = 2 THEN 0 ELSE n.pinged
        /\ m.pinged_time = IF confirm = 2 THEN Old ELSE n.pinged_time
    <3>1. m = [ n EXCEPT !.addr = c.addr, !.time = IF confirm > 0 THEN 0 ELSE @,
                         !.reply_time = IF confirm = 2 THEN 0 ELSE @,
                         !.pinged = IF confirm = 2 THEN 0 ELSE @,
                         !.pinged_time = IF confirm = 2 THEN Old ELSE @ ]
      BY <1>3 DEF Known
    <3> HIDE DEF m
    <3> DEFINE ti == IF confirm > 0 THEN 0 ELSE n.time
               rt == IF confirm = 2 THEN 0 ELSE n.reply_time
               pi == IF confirm = 2 THEN 0 ELSE n.pinged
               pt == IF confirm = 2 THEN Old ELSE n.pinged_time
    <3>2. ti \in Age /\ rt \in Age /\ pi \in 0..4 /\ pt \in Age
      <4>1. n.time \in Age /\ n.reply_time \in Age /\ n.pinged \in 0..4 /\ n.pinged_time \in Age /\ 0 \in 0..4
        BY DEF Node
      <4> QED
        BY <1>1, <4>1
    <3>3. m = [n EXCEPT !.addr = c.addr, !.time = ti, !.reply_time = rt, !.pinged = pi, !.pinged_time = pt]
      BY <3>1
    <3> HIDE DEF ti, rt, pi, pt
    <3>4. m \in Node /\ m.id = n.id /\ m.addr = c.addr /\ m.pinged = pi /\ m.pinged_time = pt
      BY <1>1, <3>2, <3>3 DEF Node
    <3> QED
      BY <3>4 DEF pi, pt
  <2> HIDE DEF m
  <2>2. n \in Safe(X) => m \in Safe(X)
    BY <2>1 DEF Safe
  <2> QED
    BY <2>1, <2>2 DEF Succeeds, m
<1> QED
  BY <1>2, <1>3

\* The table as new_node sees it.
Table == [buckets : Seq(Bucket), grow : Age, again : BOOLEAN]

Good(t) == t \in Table /\ Tabled(t.buckets)

\* The size of the range of id's bucket.
Width(bs, id) == UpTo(bs, find_bucket(id, bs)) - bs[find_bucket(id, bs)].first

\* The first of them that is dubious and has not just been asked, or none.
LEMMA DubiousFacts ==
  ASSUME NEW ns \in Seq(Node)
  PROVE  LET p == SelectInSeq(ns, LAMBDA n : ~node_good(n) /\ n.pinged_time > PingWait)
         IN  p # 0 => p \in 1..Len(ns) /\ ns[p].pinged_time > PingWait
<1> DEFINE I == {q \in 1..Len(ns) : ~node_good(ns[q]) /\ ns[q].pinged_time > PingWait}
<1>1. SelectInSeq(ns, LAMBDA n : ~node_good(n) /\ n.pinged_time > PingWait)
        = IF I # {} THEN Min(I) ELSE 0
  BY DEF SelectInSeq
<1>2. I # {} => Min(I) \in I
  <2>1. I \in SUBSET (1..Len(ns)) /\ Len(ns) \in Nat
    OBVIOUS
  <2> HIDE DEF I
  <2> QED
    BY <2>1, MinFacts
<1> QED
  BY <1>1, <1>2

\* Our own bucket, if it has another id in it, becomes half as large when it is split.
LEMMA SplitNarrows ==
  ASSUME NEW bs, Tabled(bs), NEW id \in Id, id # myid, in_bucket(myid, bs, find_bucket(id, bs))
  PROVE  LET cs == split_bucket(bs, find_bucket(id, bs))
         IN  /\ Tabled(cs) /\ Nodes(cs) = Nodes(bs)
             /\ 2 * Width(cs, id) = Width(bs, id) /\ Width(cs, id) \in Nat
<1> DEFINE i == find_bucket(id, bs)
           cs == split_bucket(bs, i)
           lo == bs[i].first
           hi == UpTo(bs, i)
<1>1. i \in 1..Len(bs) /\ lo <= id /\ id < hi
  BY FindBucket
<1>2. /\ lo \in Nat /\ hi \in Nat /\ hi <= Pow2[Bits] /\ id \in Nat /\ myid \in Nat /\ myid < Pow2[Bits]
      /\ Bits \in Nat /\ Pow2[Bits] \in Nat
  <2>1. Bits \in Nat /\ myid \in Id
    BY TableAssumption
  <2>2. Pow2[Bits] \in Nat
    BY <2>1, Pow2Nat
  <2>3. id \in Nat /\ myid \in Nat /\ myid < Pow2[Bits]
    BY <2>1, <2>2 DEF Id
  <2> HIDE DEF i
  <2> QED
    BY <1>1, <2>1, <2>2, <2>3, BucketFacts
<1>3. lo <= myid /\ myid < hi
  BY <1>2 DEF in_bucket, UpTo
<1>4. PICK d \in 0..Bits : Dyadic(lo, hi, d)
  BY <1>1 DEF Tabled
<1>5. d # Bits
  <2> SUFFICES ASSUME d = Bits PROVE FALSE
    OBVIOUS
  <2>1. Bits - d = 0
    BY <1>2
  <2>2. hi = lo + 1
    BY <1>4, <2>1, Pow2Unfold DEF Dyadic
  <2> HIDE DEF lo, hi
  <2> QED
    BY <1>1, <1>2, <1>3, <2>2
<1>6. Bits - d \in 1..Bits /\ (Bits - d) - 1 = Bits - 1 - d /\ Bits - 1 - d \in 0..Bits
  BY <1>2, <1>5
<1>7. hi - lo = 2 * Pow2[Bits - 1 - d] /\ Pow2[Bits - 1 - d] \in Nat
  <2>1. Pow2[Bits - d] = 2 * Pow2[Bits - 1 - d]
    BY <1>6, Pow2Unfold
  <2>2. hi = lo + Pow2[Bits - d]
    BY <1>4 DEF Dyadic
  <2>3. Pow2[Bits - 1 - d] \in Nat
    BY <1>6, Pow2Nat
  <2> HIDE DEF lo, hi
  <2> QED
    BY <1>2, <2>1, <2>2, <2>3
<1>8. /\ Tabled(cs) /\ Nodes(cs) = Nodes(bs)
      /\ \A x \in Id : lo <= x /\ x < hi =>
           \E k \in 1..Len(cs) : /\ cs[k].first <= x /\ x < UpTo(cs, k)
                                 /\ UpTo(cs, k) - cs[k].first = Pow2[Bits - 1 - d]
  <2>1. SplitAs(cs, bs, i, d)
    <3> HIDE DEF i
    <3> QED
      BY <1>1, <1>4, SplitTabled
  <2> HIDE DEF i, cs
  <2> QED
    BY <1>5, <2>1 DEF SplitAs
<1> HIDE DEF i, cs, lo, hi
<1>9. PICK k \in 1..Len(cs) : /\ cs[k].first <= id /\ id < UpTo(cs, k)
                              /\ UpTo(cs, k) - cs[k].first = Pow2[Bits - 1 - d]
  BY <1>1, <1>8
<1>10. find_bucket(id, cs) = k
  BY <1>8, <1>9, FindUnique
<1>11. Width(cs, id) = Pow2[Bits - 1 - d]
  BY <1>9, <1>10 DEF Width
<1>12. Width(bs, id) = hi - lo
  BY DEF Width, hi, lo, i
<1> QED
  BY <1>7, <1>8, <1>11, <1>12 DEF cs, i

\* u is a table and follows t; if it asks for another round, id's bucket is half as large.
RoundAs(u, t, id, X, B) ==
  /\ Good(u)
  /\ Follows(Nodes(t.buckets), Nodes(u.buckets), Safe(X), B)
  /\ u.again => 2 * Width(u.buckets, id) = Width(t.buckets, id) /\ Width(u.buckets, id) \in Nat

\* What a full bucket makes of the table.
LEMMA FullGood ==
  ASSUME NEW t, Good(t), t.again = FALSE, NEW c \in Contact, c.id # myid, NEW confirm \in 0..2,
         NEW i, i = find_bucket(c.id, t.buckets), NEW X, NEW B
  PROVE  RoundAs(Full(t, i, c, confirm, in_bucket(myid, t.buckets, i)), t, c.id, X, B)
<1> DEFINE mine == in_bucket(myid, t.buckets, i)
           u == Full(t, i, c, confirm, mine)
<1> SUFFICES RoundAs(u, t, c.id, X, B)
  OBVIOUS
<1> DEFINE bs == t.buckets
           b == bs[i]
           lo == bs[i].first
           hi == UpTo(bs, i)
           G == Safe(X)
           p == SelectInSeq(b.nodes, LAMBDA n : ~node_good(n) /\ n.pinged_time > PingWait)
           dubious == \E q \in 1..Len(b.nodes) : ~node_good(b.nodes[q])
           b1 == IF p # 0 THEN Asked(b, p) ELSE b
           b2 == IF confirm > 0 \/ b1.cached = NoAddr THEN [b1 EXCEPT !.cached = c.addr] ELSE b1
           bs1 == [bs EXCEPT ![i] = b1]
           bs2 == [bs EXCEPT ![i] = b2]
<1>1. Tabled(bs) /\ t \in Table /\ c.id \in Id /\ c.addr \in Addr
  BY NodeFacts DEF Good
<1>2. i \in 1..Len(bs) /\ lo <= c.id /\ c.id < hi
  BY <1>1, FindBucket
<1>3. Filled(b, lo, hi) /\ Range(b.nodes) \in SUBSET Node /\ b.nodes \in Seq(Node) /\ b \in Bucket
  <2>1. b \in Bucket /\ b.count = Len(b.nodes) /\ NodeList(b.nodes, lo, hi)
    BY <1>1, <1>2, BucketFacts
  <2>2. Range(b.nodes) \in SUBSET Node
    BY <1>1, <1>2, NodesTyped
  <2> QED
    BY <2>1, <2>2 DEF Filled, NodeList
<1>4. u = IF mine /\ (~dubious \/ Len(bs) = 1)
          THEN [t EXCEPT !.buckets = split_bucket(bs1, i), !.again = TRUE]
          ELSE [t EXCEPT !.buckets = bs2]
  BY <1>1 DEF Full, Table
<1> HIDE DEF b, lo, hi, dubious, u, mine
<1>5. Filled(b1, lo, hi) /\ Follows(Range(b.nodes), Range(b1.nodes), G, B)
  <2>1. CASE p = 0
    <3>1. b1 = b
      BY <2>1
    <3> QED
      BY <1>3, <3>1, FollowsSame
  <2>2. CASE p # 0
    <3>1. p \in 1..Len(b.nodes) /\ b.nodes[p].pinged_time > PingWait
      BY <1>3, <2>2, DubiousFacts
    <3>2. b1 = Asked(b, p)
      BY <2>2
    <3> HIDE DEF p, b1
    <3>3. Succeeds(Requested(b.nodes[p]), b.nodes[p], G, B)
      BY <1>3, <3>1, RequestedFacts
    <3> QED
      BY <1>3, <3>1, <3>2, <3>3, AskedFilled
  <2> QED
    BY <2>1, <2>2
<1> HIDE DEF p, b1
<1>6. Filled(b2, lo, hi) /\ Follows(Range(b.nodes), Range(b2.nodes), G, B)
  <2>1. Filled([b1 EXCEPT !.cached = c.addr], lo, hi) /\ [b1 EXCEPT !.cached = c.addr].nodes = b1.nodes
    BY <1>1, <1>5, CachedFilled
  <2> QED
    BY <1>5, <2>1
<1> HIDE DEF b2
<1>7. /\ Tabled(bs1) /\ Follows(Nodes(bs), Nodes(bs1), G, B)
      /\ Tabled(bs2) /\ Follows(Nodes(bs), Nodes(bs2), G, B)
  <2> HIDE DEF bs, G
  <2> QED
    BY <1>1, <1>2, <1>5, <1>6, Replaced DEF b, lo, hi
<1>8. CASE ~(mine /\ (~dubious \/ Len(bs) = 1))
  <2>1. u = [t EXCEPT !.buckets = bs2] /\ bs2 \in Seq(Bucket)
    BY <1>4, <1>7, <1>8 DEF Tabled
  <2> HIDE DEF bs2
  <2>2. u \in Table /\ u.buckets = bs2 /\ u.again = FALSE
    BY <1>1, <2>1 DEF Table
  <2> QED
    BY <1>7, <2>2 DEF Good, RoundAs
<1>9. CASE mine /\ (~dubious \/ Len(bs) = 1)
  <2>1. \A j \in 1..Len(bs) : bs1[j].first = bs[j].first /\ UpTo(bs1, j) = UpTo(bs, j)
    <3> HIDE DEF bs
    <3>1. b1 \in Bucket /\ b1.first = bs[i].first /\ b1.count = Len(b1.nodes)
          /\ NodeList(b1.nodes, bs[i].first, UpTo(bs, i))
      BY <1>5 DEF Filled, lo, hi
    <3> QED
      BY <1>1, <1>2, <3>1, ReplaceTabled
  <2>2. Len(bs1) = Len(bs)
    BY <1>1 DEF Tabled
  <2> HIDE DEF bs1
  <2>3. find_bucket(c.id, bs1) = i
    <3>1. i \in 1..Len(bs1) /\ bs1[i].first <= c.id /\ c.id < UpTo(bs1, i)
      BY <1>2, <2>1, <2>2 DEF lo, hi
    <3> QED
      BY <1>1, <1>7, <3>1, FindUnique
  <2>4. in_bucket(myid, bs1, i)
    <3>1. in_bucket(myid, bs, i)
      BY <1>9 DEF mine
    <3>2. i # Len(bs) => i + 1 \in 1..Len(bs)
      BY <1>1, <1>2 DEF Tabled
    <3> QED
      BY <1>2, <2>1, <2>2, <3>1, <3>2 DEF in_bucket
  <2>5. Width(bs1, c.id) = Width(bs, c.id)
    BY <1>2, <2>1, <2>3 DEF Width
  <2> DEFINE cs == split_bucket(bs1, i)
  <2>6. /\ Tabled(cs) /\ Nodes(cs) = Nodes(bs1)
        /\ 2 * Width(cs, c.id) = Width(bs1, c.id) /\ Width(cs, c.id) \in Nat
    BY <1>1, <1>7, <2>3, <2>4, SplitNarrows
  <2>7. u = [t EXCEPT !.buckets = cs, !.again = TRUE] /\ cs \in Seq(Bucket)
    BY <1>4, <1>9, <2>6 DEF Tabled
  <2> HIDE DEF cs
  <2>8. u \in Table /\ u.buckets = cs
    BY <1>1, <2>7 DEF Table
  <2> QED
    BY <1>7, <2>5, <2>6, <2>8 DEF Good, RoundAs
<1> QED
  BY <1>8, <1>9

\* A new node in front of a list.
LEMMA PrependNode ==
  ASSUME NEW ns, NEW lo, NEW hi, NodeList(ns, lo, hi), Len(ns) < K, NEW m \in Node,
         lo <= m.id, m.id < hi, m.id # myid, \A q \in 1..Len(ns) : ns[q].id # m.id,
         NEW G, NEW B, m.addr \notin B
  PROVE  LET ms == <<m>> \o ns
         IN  NodeList(ms, lo, hi) /\ Len(ms) = Len(ns) + 1 /\ Follows(Range(ns), Range(ms), G, B)
<1> DEFINE ms == <<m>> \o ns
           one == <<m>>
<1>1. ns \in Seq(Node) /\ Len(ns) \in Nat /\ DOMAIN ns = 1..Len(ns) /\ K \in Nat
  BY TableAssumption DEF NodeList
<1>2. one \in Seq(Node) /\ Len(one) = 1 /\ one[1] = m
  OBVIOUS
<1>3. /\ ms \in Seq(Node) /\ Len(ms) = Len(one) + Len(ns)
      /\ \A j \in 1..Len(one) : ms[j] = one[j]
      /\ \A j \in 1..Len(ns) : ms[Len(one) + j] = ns[j]
  <2> HIDE DEF one
  <2>1. one \o ns \in Seq(Node) /\ Len(one \o ns) = Len(one) + Len(ns)
    BY <1>1, <1>2, ConcatFacts
  <2>2. \A j \in 1..Len(one) : (one \o ns)[j] = one[j]
    BY <1>1, <1>2, ConcatFacts
  <2>3. \A j \in 1..Len(ns) : (one \o ns)[Len(one) + j] = ns[j]
    <3>1. one \in Seq(Node) /\ ns \in Seq(Node)
      BY <1>1, <1>2
    <3> QED
      BY <3>1, ConcatFacts
  <2> QED
    BY <2>1, <2>2, <2>3 DEF one
<1> HIDE DEF ms, one
<1>4. /\ Len(ms) = Len(ns) + 1 /\ DOMAIN ms = 1..(Len(ns) + 1) /\ ms[1] = m /\ Len(ms) <= K
      /\ \A j \in 1..Len(ns) : j + 1 \in 1..(Len(ns) + 1) /\ ms[j + 1] = ns[j] /\ 1 + j = j + 1
  BY <1>1, <1>2, <1>3
<1>5. ASSUME NEW q \in 1..Len(ms) PROVE q = 1 \/ \E j \in 1..Len(ns) : q = j + 1
  <2>1. q # 1 => q - 1 \in 1..Len(ns) /\ q = (q - 1) + 1
    BY <1>1, <1>4
  <2> QED
    BY <2>1
<1>6. NodeList(ms, lo, hi)
  <2>1. ASSUME NEW q \in 1..Len(ms) PROVE lo <= ms[q].id /\ ms[q].id < hi /\ ms[q].id # myid
    BY <1>4, <1>5 DEF NodeList
  <2>2. ASSUME NEW q \in 1..Len(ms), NEW r \in 1..Len(ms), ms[q].id = ms[r].id PROVE q = r
    <3>1. CASE q = 1
      BY <1>4, <1>5, <2>2, <3>1
    <3>2. CASE r = 1
      BY <1>4, <1>5, <2>2, <3>2
    <3>3. CASE q # 1 /\ r # 1
      <4>1. PICK j \in 1..Len(ns) : q = j + 1
        BY <1>5, <3>3
      <4>2. PICK k \in 1..Len(ns) : r = k + 1
        BY <1>5, <3>3
      <4>3. j = k
        BY <1>4, <2>2, <4>1, <4>2 DEF NodeList
      <4> QED
        BY <4>1, <4>2, <4>3
    <3> QED
      BY <3>1, <3>2, <3>3
  <2> QED
    BY <1>3, <1>4, <2>1, <2>2 DEF NodeList
<1>7. \A x : x \in Range(ns) <=> \E q \in 1..Len(ns) : x = ns[q]
  BY <1>1 DEF Range
<1>8. \A x : x \in Range(ms) <=> \E q \in 1..Len(ms) : x = ms[q]
  BY <1>4 DEF Range
<1>9. \A x \in Range(ns) : x \in Range(ms) /\ x \in Node
  <2> SUFFICES ASSUME NEW x \in Range(ns) PROVE x \in Range(ms) /\ x \in Node
    OBVIOUS
  <2>1. PICK q \in 1..Len(ns) : x = ns[q]
    BY <1>7
  <2>2. q + 1 \in 1..Len(ms) /\ x = ms[q + 1]
    BY <1>4, <2>1
  <2>3. x \in Range(ms)
    BY <1>8, <2>2
  <2>4. x \in Node
    BY <1>1, <2>1
  <2> QED
    BY <2>3, <2>4
<1>10. \A x \in Range(ms) : x = m \/ x \in Range(ns)
  <2> SUFFICES ASSUME NEW x \in Range(ms) PROVE x = m \/ x \in Range(ns)
    OBVIOUS
  <2>1. PICK q \in 1..Len(ms) : x = ms[q]
    BY <1>8
  <2>2. CASE q = 1
    BY <1>4, <2>1, <2>2
  <2>3. CASE q # 1
    <3>1. PICK j \in 1..Len(ns) : q = j + 1
      BY <1>5, <2>3
    <3> QED
      BY <1>4, <1>7, <2>1, <3>1
  <2> QED
    BY <2>2, <2>3
<1>11. Follows(Range(ns), Range(ms), G, B)
  <2>1. Keeps(Range(ns), Range(ms), G)
    BY <1>9 DEF Keeps
  <2>2. NoNew(Range(ns), Range(ms), B)
    <3> SUFFICES ASSUME NEW x \in Range(ms), x.addr \in B
                 PROVE  \E n \in Range(ns) : n.id = x.id /\ n.addr = x.addr /\ x.reply_time >= n.reply_time
      BY DEF NoNew
    <3>1. x \in Range(ns) /\ x \in Node
      BY <1>9, <1>10
    <3>2. x.reply_time >= x.reply_time
      BY <3>1, NodeFacts
    <3> QED
      BY <3>1, <3>2
  <2> QED
    BY <2>1, <2>2 DEF Follows
<1> QED
  BY <1>4, <1>6, <1>11 DEF ms

\* The first node that is bad, or none.
LEMMA BadFacts ==
  ASSUME NEW ns \in Seq(Node)
  PROVE  LET p == SelectInSeq(ns, Bad) IN p # 0 => p \in 1..Len(ns) /\ Bad(ns[p])
<1> DEFINE I == {q \in 1..Len(ns) : Bad(ns[q])}
<1>1. SelectInSeq(ns, Bad) = IF I # {} THEN Min(I) ELSE 0
  BY DEF SelectInSeq
<1>2. I # {} => Min(I) \in I
  <2>1. I \in SUBSET (1..Len(ns)) /\ Len(ns) \in Nat
    OBVIOUS
  <2> HIDE DEF I
  <2> QED
    BY <2>1, MinFacts
<1> QED
  BY <1>1, <1>2

\* A bad node is not safe.
LEMMA BadUnsafe ==
  ASSUME NEW n \in Node, Bad(n), NEW X
  PROVE  n \notin Safe(X)
  BY NodeFacts DEF Bad, Safe

\* A list with another bucket in it.
LEMMA SetBucket ==
  ASSUME NEW bs \in Seq(Bucket), NEW i \in 1..Len(bs), NEW b \in Bucket
  PROVE  [bs EXCEPT ![i] = b] \in Seq(Bucket)
  OBVIOUS

\* A round of new_node.
LEMMA RoundGood ==
  ASSUME NEW t, Good(t), t.again = FALSE, NEW c \in Contact, c.id # myid, NEW confirm \in 0..2,
         NEW X, NEW B, c.addr \notin B
  PROVE  RoundAs(Round(t, c, confirm), t, c.id, X, B)
<1> DEFINE u == Round(t, c, confirm)
<1> SUFFICES RoundAs(u, t, c.id, X, B)
  OBVIOUS
<1> DEFINE bs == t.buckets
           i == find_bucket(c.id, bs)
           mine == in_bucket(myid, bs, i)
           p == find_node(c.id, bs)
           lo == bs[i].first
           hi == UpTo(bs, i)
           G == Safe(X)
           b == IF confirm = 2 THEN [bs[i] EXCEPT !.time = 0] ELSE bs[i]
           bs1 == [bs EXCEPT ![i] = b]
           t1 == [t EXCEPT !.buckets = bs1]
           g2 == IF mine THEN 0 ELSE t.grow
           t2 == [t1 EXCEPT !.grow = g2]
           bad == SelectInSeq(b.nodes, Bad)
           f == Fresh(c, confirm)
<1>1. Tabled(bs) /\ t \in Table /\ c.id \in Id /\ c.addr \in Addr /\ 0 \in Age
  BY NodeFacts DEF Good
<1>2. i \in 1..Len(bs) /\ lo <= c.id /\ c.id < hi
  BY <1>1, FindBucket
<1>3. bs[i] \in Bucket /\ bs[i].count = Len(bs[i].nodes) /\ NodeList(bs[i].nodes, lo, hi)
      /\ bs \in Seq(Bucket) /\ DOMAIN bs = 1..Len(bs)
  <2> HIDE DEF i
  <2> QED
    BY <1>1, <1>2, BucketFacts
<1>4. Filled(b, lo, hi) /\ b.nodes = bs[i].nodes /\ b \in Bucket
  <2>1. b \in Bucket /\ b.nodes = bs[i].nodes /\ b.count = bs[i].count /\ b.first = bs[i].first
    <3> HIDE DEF i
    <3> QED
      BY <1>1, <1>3 DEF Bucket
  <2> HIDE DEF b
  <2> QED
    BY <1>3, <2>1 DEF Filled
<1>5. Range(b.nodes) \in SUBSET Node /\ b.nodes \in Seq(Node) /\ Len(b.nodes) \in Nat
  <2> HIDE DEF i, b
  <2>1. Range(bs[i].nodes) \in SUBSET Node
    BY <1>1, <1>2, NodesTyped
  <2>2. bs[i].nodes \in Seq(Node)
    BY <1>3 DEF NodeList
  <2> QED
    BY <1>4, <2>1, <2>2
<1>6. /\ Tabled(bs1) /\ Follows(Nodes(bs), Nodes(bs1), G, B) /\ Len(bs1) = Len(bs) /\ bs1[i] = b
      /\ \A j \in 1..Len(bs) : bs1[j].first = bs[j].first /\ UpTo(bs1, j) = UpTo(bs, j)
  <2>1. Follows(Range(bs[i].nodes), Range(b.nodes), G, B)
    <3> HIDE DEF b, G
    <3> QED
      BY <1>4, <1>5, FollowsSame
  <2> HIDE DEF b, i, G
  <2>2. Tabled(bs1) /\ Follows(Nodes(bs), Nodes(bs1), G, B)
    BY <1>1, <1>2, <1>4, <2>1, Replaced
  <2>3. \A j \in 1..Len(bs) : bs1[j].first = bs[j].first /\ UpTo(bs1, j) = UpTo(bs, j)
    BY <1>1, <1>2, <1>4, ReplaceTabled DEF Filled
  <2>4. Len(bs1) = Len(bs) /\ bs1[i] = b
    BY <1>2, <1>3
  <2> QED
    BY <2>2, <2>3, <2>4
<1>7. t1 \in Table /\ t1.buckets = bs1 /\ t1.grow = t.grow /\ t1.again = FALSE
  <2>1. bs1 \in Seq(Bucket)
    BY <1>6 DEF Tabled
  <2> HIDE DEF bs1
  <2> QED
    BY <1>1, <2>1 DEF Table
<1>8. t2 \in Table /\ t2.buckets = bs1 /\ t2.again = FALSE
  <2>1. g2 \in Age
    BY <1>1 DEF Table
  <2> HIDE DEF t1, g2
  <2> QED
    BY <1>7, <2>1 DEF Table
<1>9. /\ (IF confirm = 2 THEN [t EXCEPT !.buckets[i].time = 0] ELSE t) = t1
      /\ (IF mine THEN [t1 EXCEPT !.grow = 0] ELSE t1) = t2
  <2>1. (IF confirm = 2 THEN [t EXCEPT !.buckets[i].time = 0] ELSE t) = t1
    <3> HIDE DEF i
    <3>1. CASE confirm = 2
      <4>1. [t EXCEPT !.buckets[i].time = 0] = [t EXCEPT !.buckets = [bs EXCEPT ![i] = [bs[i] EXCEPT !.time = 0]]]
        BY <1>1 DEF Table
      <4> QED
        BY <3>1, <4>1
    <3>2. CASE confirm # 2
      <4>1. bs1 = bs
        BY <1>2, <1>3, <3>2
      <4>2. t1 = t
        <5> HIDE DEF bs1
        <5> QED
          BY <1>1, <4>1 DEF Table
      <4> QED
        BY <3>2, <4>2
    <3> QED
      BY <3>1, <3>2
  <2>2. (IF mine THEN [t1 EXCEPT !.grow = 0] ELSE t1) = t2
    <3> HIDE DEF t1, mine
    <3> QED
      BY <1>7 DEF Table
  <2> QED
    BY <2>1, <2>2
<1>10. u = IF p # 0 THEN [t1 EXCEPT !.buckets[i].nodes[p] = Known(@, c, confirm)]
           ELSE IF bad # 0 THEN [t2 EXCEPT !.buckets[i].nodes[bad] = f]
           ELSE IF b.count >= K THEN Full(t2, i, c, confirm, mine)
           ELSE [t2 EXCEPT !.buckets[i].nodes = <<f>> \o @, !.buckets[i].count = @ + 1]
  <2> DEFINE T1 == IF confirm = 2 THEN [t EXCEPT !.buckets[i].time = 0] ELSE t
             T2 == IF mine THEN [T1 EXCEPT !.grow = 0] ELSE T1
             B1 == T1.buckets[i]
             Bd == SelectInSeq(B1.nodes, Bad)
  <2>1. u = IF p # 0 THEN [T1 EXCEPT !.buckets[i].nodes[p] = Known(@, c, confirm)]
            ELSE IF Bd # 0 THEN [T2 EXCEPT !.buckets[i].nodes[Bd] = f]
            ELSE IF B1.count >= K THEN Full(T2, i, c, confirm, mine)
            ELSE [T2 EXCEPT !.buckets[i].nodes = <<f>> \o @, !.buckets[i].count = @ + 1]
    BY DEF Round
  <2>2. T1 = t1
    BY <1>9
  <2> HIDE DEF T1, t1
  <2>3. T2 = t2
    BY <1>9, <2>2
  <2>4. B1 = b
    BY <1>6, <1>7, <2>2
  <2> HIDE DEF T2, t2, B1
  <2>5. Bd = bad
    BY <2>4
  <2> HIDE DEF Bd, bad, f, b, mine, i, p
  <2> QED
    BY <2>1, <2>2, <2>3, <2>4, <2>5
<1>11. /\ p \in 0..Len(b.nodes)
       /\ p = 0 => \A q \in 1..Len(b.nodes) : b.nodes[q].id # c.id
       /\ p # 0 => p \in 1..Len(b.nodes) /\ b.nodes[p].id = c.id
  <2>1. /\ p \in 0..Len(bs[i].nodes)
        /\ p = 0 => \A q \in 1..Len(bs[i].nodes) : bs[i].nodes[q].id # c.id
        /\ p # 0 => p \in 1..Len(bs[i].nodes) /\ bs[i].nodes[p].id = c.id
    BY <1>1, FindNode
  <2> HIDE DEF b, i, p
  <2> QED
    BY <1>4, <2>1
<1>12. f \in Node /\ f.id = c.id /\ f.addr = c.addr
  BY FreshFacts
<1>13. Nodes(bs) \in SUBSET Node /\ Nodes(bs1) \in SUBSET Node
  <2> HIDE DEF bs1, bs
  <2> QED
    BY <1>1, <1>6, NodesTyped
<1> HIDE DEF f, b, t1, t2, p, bad, mine, g2, u
<1>14. ASSUME NEW nb, Filled(nb, lo, hi), Follows(Range(b.nodes), Range(nb.nodes), G, B),
              u \in Table, u.buckets = [bs1 EXCEPT ![i] = nb], u.again = FALSE
       PROVE  RoundAs(u, t, c.id, X, B)
  <2> HIDE DEF bs, bs1, i, G, lo, hi
  <2>1. i \in 1..Len(bs1) /\ Filled(nb, bs1[i].first, UpTo(bs1, i)) /\ bs1[i] = b
    BY <1>2, <1>6, <1>14 DEF lo, hi
  <2>2. Tabled(u.buckets) /\ Follows(Nodes(bs1), Nodes(u.buckets), G, B)
    BY <1>6, <1>14, <2>1, Replaced
  <2>3. Nodes(u.buckets) \in SUBSET Node
    BY <2>2, NodesTyped
  <2>4. Follows(Nodes(bs), Nodes(u.buckets), G, B)
    BY <1>6, <1>13, <2>2, <2>3, FollowsTrans
  <2> QED
    BY <1>14, <2>2, <2>4 DEF Good, RoundAs, bs, G
<1>15. CASE p # 0
  <2> DEFINE m == Known(b.nodes[p], c, confirm)
             nb == [b EXCEPT !.nodes = [b.nodes EXCEPT ![p] = m]]
  <2>1. p \in 1..Len(b.nodes) /\ b.nodes[p] \in Node
    BY <1>5, <1>11, <1>15
  <2>2. m \in Node /\ m.id = b.nodes[p].id /\ Succeeds(m, b.nodes[p], G, B)
    BY <2>1, KnownFacts
  <2>3. u = [t1 EXCEPT !.buckets[i].nodes[p] = Known(@, c, confirm)]
    BY <1>10, <1>15
  <2>4. Filled(nb, lo, hi) /\ Follows(Range(b.nodes), Range(nb.nodes), G, B)
    <3> HIDE DEF m, G, lo, hi
    <3> QED
      BY <1>4, <2>1, <2>2, SetBucketNode
  <2>5. u = [t1 EXCEPT !.buckets = [bs1 EXCEPT ![i] = nb]]
    <3> HIDE DEF bs1, bs, i
    <3>1. t1 \in Table /\ t1.buckets = bs1 /\ bs1[i] = b
      BY <1>6, <1>7
    <3>2. bs1 \in Seq(Bucket) /\ i \in 1..Len(bs1) /\ DOMAIN bs1 = 1..Len(bs1)
      BY <1>2, <1>6 DEF Tabled
    <3> QED
      BY <1>4, <2>1, <2>3, <3>1, <3>2 DEF Table, Bucket
  <2> DEFINE cs == [bs1 EXCEPT ![i] = nb]
  <2>6. cs \in Seq(Bucket)
    <3>1. bs1 \in Seq(Bucket) /\ nb \in Bucket
      BY <1>6, <2>4 DEF Tabled, Filled
    <3>2. i \in 1..Len(bs1)
      BY <1>2, <1>6
    <3> HIDE DEF bs1, nb, i
    <3> QED
      BY <3>1, <3>2, SetBucket
  <2>7. u \in Table /\ u.buckets = cs /\ u.again = FALSE
    <3> HIDE DEF cs
    <3> QED
      BY <1>7, <2>5, <2>6 DEF Table, cs
  <2> HIDE DEF nb, G, i, bs1, lo, hi
  <2> QED
    BY <1>14, <2>4, <2>7
<1>16. CASE p = 0 /\ bad # 0
  <2> DEFINE nb == [b EXCEPT !.nodes = [b.nodes EXCEPT ![bad] = f]]
             cs == [bs1 EXCEPT ![i] = nb]
  <2>1. bad \in 1..Len(b.nodes) /\ Bad(b.nodes[bad]) /\ b.nodes[bad] \in Node
    <3> DEFINE ns == b.nodes
    <3>1. ns \in Seq(Node) /\ bad = SelectInSeq(ns, Bad)
      BY <1>5 DEF bad
    <3> HIDE DEF ns
    <3>2. bad \in 1..Len(ns) /\ Bad(ns[bad])
      BY <1>16, <3>1, BadFacts
    <3>3. ns[bad] \in Node
      BY <3>1, <3>2
    <3> QED
      BY <3>2, <3>3 DEF ns
  <2>2. Succeeds(f, b.nodes[bad], G, B)
    BY <1>12, <2>1, BadUnsafe DEF Succeeds
  <2>3. u = [t2 EXCEPT !.buckets[i].nodes[bad] = f]
    BY <1>10, <1>16
  <2>4. Filled(nb, lo, hi) /\ Follows(Range(b.nodes), Range(nb.nodes), G, B)
    <3>1. lo <= f.id /\ f.id < hi /\ f.id # myid /\ \A q \in 1..Len(b.nodes) : b.nodes[q].id # f.id
      BY <1>2, <1>11, <1>12, <1>16
    <3> HIDE DEF G, lo, hi
    <3> QED
      BY <1>4, <1>12, <2>1, <2>2, <3>1, SetBucketNode
  <2>5. u = [t2 EXCEPT !.buckets = cs]
    <3> HIDE DEF bs1, bs, i
    <3>1. t2 \in Table /\ t2.buckets = bs1 /\ bs1[i] = b
      BY <1>6, <1>8
    <3>2. bs1 \in Seq(Bucket) /\ i \in 1..Len(bs1) /\ DOMAIN bs1 = 1..Len(bs1)
      BY <1>2, <1>6 DEF Tabled
    <3> QED
      BY <1>4, <2>1, <2>3, <3>1, <3>2 DEF Table, Bucket
  <2>6. cs \in Seq(Bucket)
    <3>1. bs1 \in Seq(Bucket) /\ nb \in Bucket
      BY <1>6, <2>4 DEF Tabled, Filled
    <3>2. i \in 1..Len(bs1)
      BY <1>2, <1>6
    <3> HIDE DEF bs1, nb, i
    <3> QED
      BY <3>1, <3>2, SetBucket
  <2>7. u \in Table /\ u.buckets = cs /\ u.again = FALSE
    <3> HIDE DEF cs
    <3> QED
      BY <1>8, <2>5, <2>6 DEF Table
  <2> HIDE DEF nb, G, i, bs1, lo, hi
  <2> QED
    BY <1>14, <2>4, <2>7
<1>17. CASE p = 0 /\ bad = 0 /\ ~(b.count >= K)
  <2> DEFINE ms == <<f>> \o b.nodes
             k == b.count + 1
             nb == [b EXCEPT !.nodes = ms, !.count = k]
             cs == [bs1 EXCEPT ![i] = nb]
  <2>1. b.count = Len(b.nodes) /\ b.count < K
    BY <1>4, <1>5, <1>17, TableAssumption DEF Filled
  <2>2. NodeList(ms, lo, hi) /\ Len(ms) = Len(b.nodes) + 1 /\ Follows(Range(b.nodes), Range(ms), G, B)
    <3> DEFINE ns == b.nodes
    <3>1. lo <= f.id /\ f.id < hi /\ f.id # myid /\ \A q \in 1..Len(ns) : ns[q].id # f.id
      BY <1>2, <1>11, <1>12, <1>17
    <3>2. NodeList(ns, lo, hi) /\ Len(ns) < K
      BY <1>4, <2>1 DEF Filled
    <3> HIDE DEF G, lo, hi, ns
    <3>3. LET xs == <<f>> \o ns
          IN  NodeList(xs, lo, hi) /\ Len(xs) = Len(ns) + 1 /\ Follows(Range(ns), Range(xs), G, B)
      BY <1>12, <3>1, <3>2, PrependNode
    <3> QED
      BY <3>3 DEF ns
  <2>3. u = [t2 EXCEPT !.buckets[i].nodes = <<f>> \o @, !.buckets[i].count = @ + 1]
    BY <1>10, <1>17
  <2>4. u = [t2 EXCEPT !.buckets = cs]
    <3> HIDE DEF bs1, bs, i
    <3>1. t2 \in Table /\ t2.buckets = bs1 /\ bs1[i] = b
      BY <1>6, <1>8
    <3>2. bs1 \in Seq(Bucket) /\ i \in 1..Len(bs1) /\ DOMAIN bs1 = 1..Len(bs1)
      BY <1>2, <1>6 DEF Tabled
    <3>3. [bs1 EXCEPT ![i].nodes = <<f>> \o @, ![i].count = @ + 1] = cs
      BY <1>4, <3>1, <3>2 DEF Bucket
    <3> HIDE DEF cs
    <3>4. u = [t2 EXCEPT !.buckets = [bs1 EXCEPT ![i].nodes = <<f>> \o @, ![i].count = @ + 1]]
      BY <2>3, <3>1 DEF Table
    <3> QED
      BY <3>3, <3>4
  <2> HIDE DEF ms
  <2>5. Filled(nb, lo, hi) /\ nb.nodes = ms
    <3>1. ms \in Seq(Node) /\ k \in Nat /\ k = Len(ms)
      BY <1>5, <2>1, <2>2 DEF NodeList
    <3> HIDE DEF k
    <3>2. nb \in Bucket /\ nb.nodes = ms /\ nb.count = k /\ nb.first = b.first
      BY <1>4, <3>1 DEF Bucket
    <3> HIDE DEF nb
    <3> QED
      BY <1>4, <2>2, <3>1, <3>2 DEF Filled
  <2>6. cs \in Seq(Bucket)
    <3>1. bs1 \in Seq(Bucket) /\ nb \in Bucket
      BY <1>6, <2>5 DEF Tabled, Filled
    <3>2. i \in 1..Len(bs1)
      BY <1>2, <1>6
    <3> HIDE DEF bs1, nb, i
    <3> QED
      BY <3>1, <3>2, SetBucket
  <2>7. u \in Table /\ u.buckets = cs /\ u.again = FALSE
    <3> HIDE DEF cs
    <3> QED
      BY <1>8, <2>4, <2>6 DEF Table
  <2> HIDE DEF nb, G, i, bs1, lo, hi
  <2> QED
    BY <1>14, <2>2, <2>5, <2>7
<1>18. CASE p = 0 /\ bad = 0 /\ b.count >= K
  <2>1. u = Full(t2, i, c, confirm, mine)
    BY <1>10, <1>18
  <2> HIDE DEF bs, bs1, G
  <2>2. find_bucket(c.id, bs1) = i
    <3> HIDE DEF i
    <3>1. i \in 1..Len(bs1) /\ bs1[i].first <= c.id /\ c.id < UpTo(bs1, i)
      BY <1>2, <1>6
    <3> QED
      BY <1>1, <1>6, <3>1, FindUnique
  <2>3. in_bucket(myid, bs1, i) = mine
    <3> HIDE DEF i
    <3>1. i # Len(bs) => i + 1 \in 1..Len(bs)
      BY <1>2, <1>3
    <3> QED
      BY <1>2, <1>6, <3>1 DEF in_bucket, mine
  <2>4. Width(bs1, c.id) = Width(bs, c.id)
    BY <1>2, <1>6, <2>2 DEF Width
  <2>5. Good(t2)
    BY <1>6, <1>8 DEF Good
  <2> HIDE DEF i, lo, hi
  <2>6. RoundAs(u, t2, c.id, X, B)
    <3>1. t2.buckets = bs1 /\ t2.again = FALSE
      BY <1>8
    <3>2. i = find_bucket(c.id, t2.buckets) /\ mine = in_bucket(myid, t2.buckets, i)
      BY <2>2, <2>3, <3>1
    <3> QED
      BY <2>1, <2>5, <3>1, <3>2, FullGood
  <2>7. Nodes(u.buckets) \in SUBSET Node
    BY <2>6, NodesTyped DEF Good, RoundAs
  <2>8. Follows(Nodes(bs), Nodes(u.buckets), G, B)
    <3>1. Follows(Nodes(bs1), Nodes(u.buckets), G, B)
      BY <1>8, <2>6 DEF RoundAs, G
    <3> QED
      BY <1>6, <1>13, <2>7, <3>1, FollowsTrans
  <2> QED
    BY <1>8, <2>4, <2>6, <2>8 DEF bs, G, RoundAs
<1> QED
  BY <1>11, <1>15, <1>16, <1>17, <1>18

\* One step of the recursion of new_node.
RoundStep(v, c, confirm) ==
  IF v.again THEN Round([v EXCEPT !.again = FALSE], c, confirm) ELSE v

\* Where it leads.
LEMMA StepGood ==
  ASSUME NEW v, Good(v), NEW c \in Contact, c.id # myid, NEW confirm \in 0..2,
         NEW X, NEW B, c.addr \notin B
  PROVE  /\ RoundAs(RoundStep(v, c, confirm), v, c.id, X, B)
         /\ RoundStep(v, c, confirm).again => v.again
<1> DEFINE u == RoundStep(v, c, confirm)
           w == [v EXCEPT !.again = FALSE]
<1>1. v \in Table /\ Tabled(v.buckets) /\ v.again \in BOOLEAN
  BY DEF Good, Table
<1>2. w \in Table /\ w.buckets = v.buckets /\ w.again = FALSE
  BY <1>1 DEF Table
<1> HIDE DEF w
<1>3. CASE v.again
  <2>1. u = Round(w, c, confirm)
    BY <1>3 DEF RoundStep, w
  <2>2. Good(w)
    BY <1>1, <1>2 DEF Good
  <2> HIDE DEF u
  <2>3. RoundAs(u, w, c.id, X, B)
    BY <1>2, <2>1, <2>2, RoundGood
  <2>4. RoundAs(u, v, c.id, X, B)
    BY <1>2, <2>3 DEF RoundAs
  <2> QED
    BY <1>3, <2>4 DEF u
<1>4. CASE ~v.again
  <2>1. u = v
    BY <1>4 DEF RoundStep
  <2> HIDE DEF u
  <2>2. Nodes(v.buckets) \in SUBSET Node
    <3> DEFINE bs == v.buckets
    <3>1. Tabled(bs)
      BY <1>1
    <3> HIDE DEF bs
    <3>2. Nodes(bs) \in SUBSET Node
      BY <3>1, NodesTyped
    <3> QED
      BY <3>2 DEF bs
  <2>3. Follows(Nodes(v.buckets), Nodes(v.buckets), Safe(X), B)
    BY <2>2, FollowsSame
  <2>4. RoundAs(u, v, c.id, X, B)
    BY <1>4, <2>1, <2>3 DEF RoundAs
  <2> QED
    BY <1>4, <2>1, <2>4 DEF u
<1> QED
  BY <1>1, <1>3, <1>4

\* f lists the tables between the rounds of new_node.
Rounds(f, t, c, confirm) ==
  /\ f[0] = [t EXCEPT !.again = TRUE]
  /\ \A k \in 0..Bits+1 : Good(f[k])
  /\ \A k \in 1..Bits+1 : f[k] = RoundStep(f[k - 1], c, confirm)

\* There is such a list, and new_node returns its last.
LEMMA NewNodeRounds ==
  ASSUME NEW t, Good(t), NEW c \in Contact, NEW confirm \in 0..2, ~Refused(c)
  PROVE  \E f : Rounds(f, t, c, confirm) /\ new_node(t, c, confirm) = f[Bits + 1]
<1> DEFINE N == Bits + 1
           A == {v \in Table : Good(v)}
           F == [k \in 1..N |-> [v \in A |-> RoundStep(v, c, confirm)]]
           e == [t EXCEPT !.again = TRUE]
           G(u) == [k \in 0..N |-> IF k = 0 THEN e ELSE RoundStep(u[k - 1], c, confirm)]
           rounds == CHOOSE u : u = G(u)
<1>1. N \in Nat /\ c.id # myid
  BY TableAssumption DEF Refused
<1>2. e \in A
  <2>1. t \in Table /\ Tabled(t.buckets)
    BY DEF Good
  <2>2. e \in Table /\ e.buckets = t.buckets
    BY <2>1 DEF Table
  <2> HIDE DEF e
  <2> QED
    BY <2>1, <2>2 DEF Good
<1>3. ASSUME NEW v \in A PROVE RoundStep(v, c, confirm) \in A
  <2> DEFINE none == {}
  <2>1. c.addr \notin none /\ Good(v)
    OBVIOUS
  <2> HIDE DEF none
  <2>2. RoundAs(RoundStep(v, c, confirm), v, c.id, none, none)
    BY <1>1, <2>1, StepGood
  <2> QED
    BY <2>2 DEF RoundAs, Good
<1>4. F \in [1..N -> [A -> A]]
  BY <1>3
<1>5. PICK f : Recurs(f, N, A, e, F)
  <2> HIDE DEF F, N, A, e, G, rounds
  <2> QED
    BY <1>1, <1>2, <1>4, Recursion
<1>6. f \in [0..N -> A] /\ f[0] = e /\ \A k \in 1..N : f[k] = F[k][f[k - 1]]
  BY <1>5 DEF Recurs
<1>7. \A k \in 1..N : k - 1 \in 0..N /\ f[k - 1] \in A
  <2> HIDE DEF F, N, G, rounds, A, e
  <2>1. \A k \in 1..N : k - 1 \in 0..N
    BY <1>1
  <2> QED
    BY <2>1, <1>6
<1>8. \A k \in 1..N : f[k] = RoundStep(f[k - 1], c, confirm)
  <2> HIDE DEF A, N, e
  <2> QED
    BY <1>6, <1>7
<1>9. f = G(f)
  <2> HIDE DEF N, e, A, F
  <2>1. ASSUME NEW k \in 0..N PROVE f[k] = G(f)[k]
    <3>1. CASE k = 0
      BY <1>6, <3>1
    <3>2. CASE k # 0
      <4>1. k \in 1..N
        BY <3>2, <1>1
      <4> QED
        BY <1>8, <3>2, <4>1
    <3> QED
      BY <3>1, <3>2
  <2> QED
    BY <1>6, <2>1
<1>10. rounds = G(rounds)
  <2> HIDE DEF G
  <2> QED
    BY <1>9
<1>11. new_node(t, c, confirm) = rounds[N]
  BY DEF new_node, RoundStep
<1> HIDE DEF rounds
<1>12. rounds[0] = e /\ \A k \in 1..N : rounds[k] = RoundStep(rounds[k - 1], c, confirm)
  <2> DEFINE g == G(rounds)
  <2>1. \A k \in 0..N : g[k] = IF k = 0 THEN e ELSE RoundStep(rounds[k - 1], c, confirm)
    OBVIOUS
  <2>2. rounds = g
    BY <1>10
  <2>3. 0 \in 0..N /\ \A k \in 1..N : k \in 0..N /\ k # 0
    BY <1>1
  <2> HIDE DEF g, N, e
  <2> QED
    BY <2>1, <2>2, <2>3
<1> DEFINE T == {k \in 0..N : rounds[k] \in A}
<1>13. 0..N \subseteq T
  <2> HIDE DEF N, e, F, G, A
  <2>1. 0 \in T
    BY <1>1, <1>2, <1>12
  <2>2. ASSUME NEW k \in 0..N, k \in T, k < N PROVE k + 1 \in T
    <3>1. k + 1 \in 1..N /\ k + 1 \in 0..N /\ (k + 1) - 1 = k
      BY <1>1, <2>2
    <3>2. rounds[k + 1] = RoundStep(rounds[k], c, confirm)
      BY <1>12, <3>1
    <3> QED
      BY <1>3, <2>2, <3>1, <3>2
  <2> HIDE DEF T
  <2> QED
    BY <1>1, <2>1, <2>2, SetInduction
<1>14. Rounds(rounds, t, c, confirm)
  BY <1>12, <1>13 DEF Rounds
<1> QED
  BY <1>11, <1>14

\* The addresses that are not listened to.
Listed == {blacklist[k] : k \in 0..MaxBlacklisted-1}

\* A table that is at rest and what is to become of its nodes.
Becomes(u, t, G, B) ==
  Good(u) /\ u.again = FALSE /\ Follows(Nodes(t.buckets), Nodes(u.buckets), G, B)

\* Tables follow each other.
LEMMA BecomesTrans ==
  ASSUME NEW t, Good(t), NEW u, NEW v, NEW G, NEW B, Becomes(u, t, G, B), Becomes(v, u, G, B)
  PROVE  Becomes(v, t, G, B)
<1> DEFINE S == Nodes(t.buckets)
           T == Nodes(u.buckets)
           U == Nodes(v.buckets)
<1>1. S \in SUBSET Node /\ T \in SUBSET Node /\ U \in SUBSET Node
  <2>1. ASSUME NEW w, Good(w) PROVE Nodes(w.buckets) \in SUBSET Node
    <3> DEFINE bs == w.buckets
    <3>1. Tabled(bs)
      BY <2>1 DEF Good
    <3> HIDE DEF bs
    <3>2. Nodes(bs) \in SUBSET Node
      BY <3>1, NodesTyped
    <3> QED
      BY <3>2 DEF bs
  <2> QED
    BY <2>1 DEF Becomes
<1>2. Follows(S, T, G, B) /\ Follows(T, U, G, B)
  BY DEF Becomes
<1> HIDE DEF S, T, U
<1>3. Follows(S, U, G, B)
  BY <1>1, <1>2, FollowsTrans
<1> QED
  BY <1>3 DEF Becomes, S, U

\* A table becomes itself.
LEMMA BecomesSame ==
  ASSUME NEW t, Good(t), t.again = FALSE, NEW G, NEW B
  PROVE  Becomes(t, t, G, B)
<1> DEFINE bs == t.buckets
<1>1. Tabled(bs)
  BY DEF Good
<1> HIDE DEF bs
<1>2. Nodes(bs) \in SUBSET Node
  BY <1>1, NodesTyped
<1>3. Follows(Nodes(bs), Nodes(bs), G, B)
  BY <1>2, FollowsSame
<1> QED
  BY <1>3 DEF Becomes, bs

\* A bucket has room for one id at least, and never for more than there are.
LEMMA WidthFacts ==
  ASSUME NEW bs, Tabled(bs), NEW id \in Id
  PROVE  Width(bs, id) \in Nat /\ 1 <= Width(bs, id) /\ Width(bs, id) <= Pow2[Bits]
<1> DEFINE i == find_bucket(id, bs)
           lo == bs[i].first
           hi == UpTo(bs, i)
<1>1. i \in 1..Len(bs)
  BY FindBucket
<1>2. lo \in Nat /\ hi \in Nat /\ lo < hi /\ hi <= Pow2[Bits]
  <2> HIDE DEF i
  <2> QED
    BY <1>1, BucketFacts
<1>3. Pow2[Bits] \in Nat
  BY Pow2Nat, TableAssumption
<1>4. Width(bs, id) = hi - lo
  BY DEF Width
<1> HIDE DEF lo, hi
<1> QED
  BY <1>2, <1>3, <1>4

\* new_node comes to an end: a bucket that is split often enough has one id only.
LEMMA NewNodeBecomes ==
  ASSUME NEW t, Good(t), t.again = FALSE, NEW c \in Contact, NEW confirm \in 0..2, NEW X
  PROVE  Becomes(new_node(t, c, confirm), t, Safe(X), Listed)
<1>1. CASE Refused(c)
  <2>1. new_node(t, c, confirm) = t
    BY <1>1 DEF new_node
  <2> QED
    BY <2>1, BecomesSame
<1>2. CASE ~Refused(c)
  <2> DEFINE N == Bits + 1
             G == Safe(X)
  <2>1. Bits \in Nat /\ N \in Nat /\ c.id # myid /\ c.id \in Id /\ c.addr \notin Listed
    BY <1>2, TableAssumption, NodeFacts DEF Refused, node_blacklisted, Listed
  <2>2. PICK f : Rounds(f, t, c, confirm) /\ new_node(t, c, confirm) = f[Bits + 1]
    BY <1>2, NewNodeRounds
  <2> DEFINE W(k) == Width(f[k].buckets, c.id)
             P(k) == /\ Follows(Nodes(t.buckets), Nodes(f[k].buckets), G, Listed)
                     /\ f[k].again => k <= Bits /\ W(k) <= Pow2[Bits - k]
             T == {k \in 0..N : P(k)}
  <2>3. ASSUME NEW k \in 0..N
        PROVE  /\ Good(f[k]) /\ f[k].again \in BOOLEAN /\ Nodes(f[k].buckets) \in SUBSET Node
               /\ W(k) \in Nat /\ 1 <= W(k) /\ W(k) <= Pow2[Bits]
    <3> DEFINE bs == f[k].buckets
    <3>1. Good(f[k]) /\ Tabled(bs) /\ f[k].again \in BOOLEAN
      BY <2>2 DEF Rounds, Good, Table
    <3> HIDE DEF bs
    <3>2. /\ Nodes(bs) \in SUBSET Node
          /\ Width(bs, c.id) \in Nat /\ 1 <= Width(bs, c.id) /\ Width(bs, c.id) <= Pow2[Bits]
      BY <2>1, <3>1, NodesTyped, WidthFacts
    <3> QED
      BY <3>1, <3>2 DEF bs
  <2>4. Nodes(t.buckets) \in SUBSET Node /\ f[0].buckets = t.buckets
    <3>1. t \in Table /\ f[0] = [t EXCEPT !.again = TRUE]
      BY <2>2 DEF Rounds, Good
    <3>2. f[0].buckets = t.buckets
      BY <3>1 DEF Table
    <3>3. 0 \in 0..N
      BY <2>1
    <3>4. Nodes(f[0].buckets) \in SUBSET Node
      BY <2>3, <3>3
    <3> QED
      BY <3>2, <3>4
  <2>5. 0 \in T
    <3>1. 0 \in 0..N /\ 0 <= Bits /\ Bits - 0 = Bits
      BY <2>1
    <3>2. Follows(Nodes(t.buckets), Nodes(f[0].buckets), G, Listed)
      BY <2>4, FollowsSame
    <3>3. W(0) <= Pow2[Bits - 0]
      BY <2>3, <3>1
    <3> HIDE DEF W, G
    <3> QED
      BY <3>1, <3>2, <3>3
  <2>6. ASSUME NEW k \in 0..N, k \in T, k < N PROVE k + 1 \in T
    <3>1. k + 1 \in 1..N /\ k + 1 \in 0..N /\ (k + 1) - 1 = k
      BY <2>1, <2>6
    <3>2. f[k + 1] = RoundStep(f[k], c, confirm)
      BY <2>2, <3>1 DEF Rounds
    <3> DEFINE v == f[k]
               u == f[k + 1]
    <3>3. RoundAs(u, v, c.id, X, Listed) /\ (u.again => v.again)
      <4>1. Good(v)
        BY <2>3
      <4> HIDE DEF v
      <4> QED
        BY <2>1, <3>2, <4>1, StepGood DEF v
    <3>4. Follows(Nodes(t.buckets), Nodes(u.buckets), G, Listed)
      <4>1. Nodes(u.buckets) \in SUBSET Node /\ Nodes(v.buckets) \in SUBSET Node
        BY <2>3, <3>1
      <4>2. Follows(Nodes(t.buckets), Nodes(v.buckets), G, Listed)
        BY <2>6
      <4>3. Follows(Nodes(v.buckets), Nodes(u.buckets), G, Listed)
        BY <3>3 DEF RoundAs
      <4> HIDE DEF v, u, G
      <4> QED
        BY <2>4, <4>1, <4>2, <4>3, FollowsTrans
    <3>5. u.again => k + 1 <= Bits /\ W(k + 1) <= Pow2[Bits - (k + 1)]
      <4> SUFFICES ASSUME u.again PROVE k + 1 <= Bits /\ W(k + 1) <= Pow2[Bits - (k + 1)]
        OBVIOUS
      <4>1. 2 * W(k + 1) = W(k) /\ v.again
        BY <3>3 DEF RoundAs
      <4>2. k <= Bits /\ W(k) <= Pow2[Bits - k]
        BY <2>6, <4>1
      <4>3. W(k + 1) \in Nat /\ 1 <= W(k + 1) /\ W(k) \in Nat
        BY <2>3, <3>1
      <4> HIDE DEF W, u, v
      <4>4. CASE k = Bits
        <5>1. Bits - k = 0
          BY <2>1, <4>4
        <5>2. W(k) <= 1
          BY <4>2, <5>1, Pow2Unfold
        <5> QED
          BY <4>1, <4>3, <5>2
      <4>5. CASE k # Bits
        <5>1. Bits - k \in 1..Bits /\ (Bits - k) - 1 = Bits - (k + 1) /\ Bits - (k + 1) \in 0..Bits /\ k + 1 <= Bits
          BY <2>1, <4>2, <4>5
        <5>2. Pow2[Bits - k] = 2 * Pow2[Bits - (k + 1)] /\ Pow2[Bits - (k + 1)] \in Nat
          BY <5>1, Pow2Unfold, Pow2Nat
        <5> DEFINE w == Pow2[Bits - (k + 1)]
        <5> HIDE DEF w
        <5>3. Pow2[Bits - k] = 2 * w /\ w \in Nat
          BY <5>2 DEF w
        <5>4. W(k + 1) <= w
          BY <4>1, <4>2, <4>3, <5>3
        <5> QED
          BY <5>1, <5>4 DEF w
      <4> QED
        BY <4>4, <4>5
    <3> HIDE DEF W, G
    <3> QED
      BY <3>1, <3>4, <3>5
  <2>7. N \in T
    <3> HIDE DEF T
    <3>1. 0..N \subseteq T
      BY <2>1, <2>5, <2>6, SetInduction
    <3> QED
      BY <2>1, <3>1
  <2>8. Follows(Nodes(t.buckets), Nodes(f[N].buckets), G, Listed) /\ f[N].again = FALSE /\ Good(f[N])
    <3>1. N \in 0..N /\ ~(N <= Bits)
      BY <2>1
    <3>2. P(N)
      BY <2>7
    <3>3. Good(f[N]) /\ f[N].again \in BOOLEAN
      BY <2>3, <3>1
    <3> HIDE DEF W, G, N
    <3> QED
      BY <3>1, <3>2, <3>3
  <2> QED
    BY <2>2, <2>8 DEF Becomes
<1> QED
  BY <1>1, <1>2

(***************************************************************************)
(* The other changes of the table                                          *)
(***************************************************************************)
\* All buckets are made anew for the ranges they have.
LEMMA Remade ==
  ASSUME NEW bs, Tabled(bs), NEW cs, cs \in [1..Len(bs) -> Bucket], NEW G, NEW B,
         \A i \in 1..Len(bs) : /\ Filled(cs[i], bs[i].first, UpTo(bs, i))
                               /\ Follows(Range(bs[i].nodes), Range(cs[i].nodes), G, B)
  PROVE  Tabled(cs) /\ Follows(Nodes(bs), Nodes(cs), G, B)
<1>1. bs \in Seq(Bucket) /\ Len(bs) \in Nat /\ Len(bs) > 0 /\ bs[1].first = 0 /\ 1 \in 1..Len(bs)
  BY DEF Tabled
<1>2. cs \in Seq(Bucket) /\ Len(cs) = Len(bs)
  BY <1>1
<1>3. \A i \in 1..Len(bs) : cs[i].first = bs[i].first
  BY DEF Filled
<1>4. ASSUME NEW j \in 1..Len(bs) PROVE UpTo(cs, j) = UpTo(bs, j)
  <2>1. CASE j = Len(bs)
    BY <1>2, <2>1 DEF UpTo
  <2>2. CASE j # Len(bs)
    <3>1. j + 1 \in 1..Len(bs)
      BY <1>1, <2>2
    <3> QED
      BY <1>2, <1>3, <2>2, <3>1 DEF UpTo
  <2> QED
    BY <2>1, <2>2
<1>5. Tabled(cs)
  <2>1. \A i, j \in 1..Len(cs) : i < j => cs[i].first < cs[j].first
    BY <1>2, <1>3 DEF Tabled
  <2>2. \A i \in 1..Len(cs) : \E d \in 0..Bits : Dyadic(cs[i].first, UpTo(cs, i), d)
    BY <1>2, <1>3, <1>4 DEF Tabled
  <2>3. \A i \in 1..Len(cs) : /\ cs[i].count = Len(cs[i].nodes)
                              /\ NodeList(cs[i].nodes, cs[i].first, UpTo(cs, i))
    BY <1>2, <1>3, <1>4 DEF Filled
  <2> QED
    BY <1>1, <1>2, <1>3, <2>1, <2>2, <2>3 DEF Tabled
<1>6. /\ \A n : n \in Nodes(bs) <=> \E j \in 1..Len(bs) : n \in Range(bs[j].nodes)
      /\ \A n : n \in Nodes(cs) <=> \E j \in 1..Len(bs) : n \in Range(cs[j].nodes)
  BY <1>1, <1>2, NodesOf
<1>7. Keeps(Nodes(bs), Nodes(cs), G)
  <2> SUFFICES ASSUME NEW n \in Nodes(bs) \cap G PROVE \E m \in Nodes(cs) \cap G : m.id = n.id
    BY DEF Keeps
  <2>1. PICK j \in 1..Len(bs) : n \in Range(bs[j].nodes)
    BY <1>6
  <2>2. PICK m \in Range(cs[j].nodes) \cap G : m.id = n.id
    BY <2>1 DEF Follows, Keeps
  <2> QED
    BY <1>6, <2>2
<1>8. NoNew(Nodes(bs), Nodes(cs), B)
  <2> SUFFICES ASSUME NEW m \in Nodes(cs), m.addr \in B
               PROVE  \E n \in Nodes(bs) : n.id = m.id /\ n.addr = m.addr /\ m.reply_time >= n.reply_time
    BY DEF NoNew
  <2>1. PICK j \in 1..Len(bs) : m \in Range(cs[j].nodes)
    BY <1>6
  <2>2. PICK n \in Range(bs[j].nodes) : n.id = m.id /\ n.addr = m.addr /\ m.reply_time >= n.reply_time
    BY <2>1 DEF Follows, NoNew
  <2> QED
    BY <1>6, <2>2
<1> QED
  BY <1>5, <1>7, <1>8 DEF Follows

\* What expire_buckets does to a bucket.
Expired(b) ==
  LET left == Kept(b.nodes, {n \in Range(b.nodes) : n.pinged < 4})
  IN IF Len(left) = Len(b.nodes) THEN b
     ELSE send_cached_ping([b EXCEPT !.nodes = left, !.count = Len(left)])

\* Nobody is dropped who is safe.
LEMMA ExpiredFilled ==
  ASSUME NEW b, NEW lo, NEW hi, Filled(b, lo, hi), NEW X, NEW B
  PROVE  Filled(Expired(b), lo, hi) /\ Follows(Range(b.nodes), Range(Expired(b).nodes), Safe(X), B)
<1> DEFINE ns == b.nodes
           S == {n \in Range(ns) : n.pinged < 4}
           left == Kept(ns, S)
           k == Len(left)
           c == [b EXCEPT !.nodes = left, !.count = k]
<1>1. b \in Bucket /\ b.first = lo /\ b.count = Len(ns) /\ NodeList(ns, lo, hi)
  BY DEF Filled
<1>2. Range(ns) \in SUBSET Node
  <2>1. ns \in Seq(Node)
    BY <1>1 DEF NodeList
  <2> HIDE DEF ns
  <2> QED
    BY <2>1 DEF Range
<1>3. Expired(b) = IF k = Len(ns) THEN b ELSE send_cached_ping(c)
  BY DEF Expired
<1>4. NodeList(left, lo, hi) /\ Range(left) = S \cap Range(ns)
  <2> HIDE DEF ns, S
  <2> QED
    BY <1>1, KeptList
<1>5. Follows(Range(ns), Range(left), Safe(X), B)
  <2>1. Range(left) \in SUBSET Range(ns)
    BY <1>4
  <2>2. \A n \in Range(ns) : n \in Safe(X) => n \in Range(left)
    <3> SUFFICES ASSUME NEW n \in Range(ns), n \in Safe(X) PROVE n \in Range(left)
      OBVIOUS
    <3>1. n.pinged < 4
      BY <1>2, NodeFacts DEF Safe
    <3> QED
      BY <1>4, <3>1
  <2> HIDE DEF left, ns
  <2>3. \A n \in Range(ns) : n.reply_time >= n.reply_time
    BY <1>2, NodeFacts
  <2> QED
    BY <2>1, <2>2, <2>3 DEF Follows, Keeps, NoNew
<1>6. Filled(c, lo, hi) /\ c.nodes = left
  <2>1. left \in Seq(Node) /\ k \in Nat
    BY <1>4 DEF NodeList
  <2> HIDE DEF left
  <2>2. c \in Bucket /\ c.nodes = left /\ c.count = k /\ c.first = lo
    <3> HIDE DEF k
    <3> QED
      BY <1>1, <2>1 DEF Bucket
  <2> HIDE DEF c
  <2> QED
    BY <1>4, <2>2 DEF Filled
<1> HIDE DEF c
<1>7. Filled(send_cached_ping(c), lo, hi) /\ send_cached_ping(c).nodes = c.nodes
  BY <1>6, CachedFilled DEF send_cached_ping
<1>8. Follows(Range(b.nodes), Range(b.nodes), Safe(X), B)
  BY <1>2, FollowsSame
<1> HIDE DEF left
<1> QED
  BY <1>3, <1>5, <1>6, <1>7, <1>8

\* expire_buckets leaves a table a table, with everybody who is safe.
LEMMA ExpireBecomes ==
  ASSUME NEW t, Good(t), t.again = FALSE, NEW X, NEW B
  PROVE  Becomes(expire_buckets(t), t, Safe(X), B)
<1> DEFINE bs == t.buckets
           cs == [i \in DOMAIN bs |-> Expired(bs[i])]
           G == Safe(X)
           u == expire_buckets(t)
<1>1. t \in Table /\ Tabled(bs)
  BY DEF Good
<1>2. u = [t EXCEPT !.buckets = cs]
  BY <1>1 DEF expire_buckets, Expired, Table
<1> HIDE DEF bs
<1>3. bs \in Seq(Bucket) /\ DOMAIN bs = 1..Len(bs)
  BY <1>1 DEF Tabled
<1>4. ASSUME NEW i \in 1..Len(bs)
      PROVE  /\ cs[i] \in Bucket /\ Filled(cs[i], bs[i].first, UpTo(bs, i))
             /\ Follows(Range(bs[i].nodes), Range(cs[i].nodes), G, B)
  <2>1. Filled(bs[i], bs[i].first, UpTo(bs, i))
    BY <1>1, BucketFacts DEF Filled
  <2>2. cs[i] = Expired(bs[i])
    BY <1>3
  <2> HIDE DEF cs
  <2>3. Filled(cs[i], bs[i].first, UpTo(bs, i)) /\ Follows(Range(bs[i].nodes), Range(cs[i].nodes), G, B)
    BY <2>1, <2>2, ExpiredFilled
  <2> QED
    BY <2>3 DEF Filled
<1>5. cs \in [1..Len(bs) -> Bucket]
  BY <1>3, <1>4
<1> HIDE DEF cs, G
<1>6. Tabled(cs) /\ Follows(Nodes(bs), Nodes(cs), G, B)
  BY <1>1, <1>4, <1>5, Remade
<1>7. u \in Table /\ u.buckets = cs /\ u.again = FALSE
  <2>1. cs \in Seq(Bucket)
    BY <1>6 DEF Tabled
  <2> QED
    BY <1>1, <1>2, <2>1 DEF Table
<1> HIDE DEF u
<1>8. Becomes(u, t, G, B)
  BY <1>6, <1>7 DEF Becomes, Good, bs
<1> QED
  BY <1>8 DEF u, G

\* One bucket changes.
LEMMA SetBecomes ==
  ASSUME NEW t, Good(t), t.again = FALSE, NEW i \in 1..Len(t.buckets), NEW b,
         Filled(b, t.buckets[i].first, UpTo(t.buckets, i)),
         NEW G, NEW B, Follows(Range(t.buckets[i].nodes), Range(b.nodes), G, B)
  PROVE  Becomes([t EXCEPT !.buckets[i] = b], t, G, B)
<1> DEFINE bs == t.buckets
           cs == [bs EXCEPT ![i] = b]
           u == [t EXCEPT !.buckets[i] = b]
<1>1. /\ t \in Table /\ Tabled(bs) /\ i \in 1..Len(bs) /\ Filled(b, bs[i].first, UpTo(bs, i))
      /\ Follows(Range(bs[i].nodes), Range(b.nodes), G, B)
  BY DEF Good
<1>2. u = [t EXCEPT !.buckets = cs]
  BY <1>1 DEF Table
<1> HIDE DEF bs
<1>3. Tabled(cs) /\ Follows(Nodes(bs), Nodes(cs), G, B)
  BY <1>1, Replaced
<1> HIDE DEF cs
<1>4. u \in Table /\ u.buckets = cs /\ u.again = FALSE
  <2>1. cs \in Seq(Bucket)
    BY <1>3 DEF Tabled
  <2> QED
    BY <1>1, <1>2, <2>1 DEF Table
<1> HIDE DEF u
<1>5. Becomes(u, t, G, B)
  BY <1>3, <1>4 DEF Becomes, Good, bs
<1> QED
  BY <1>5 DEF u

\* A bucket of a table at rest, and its nodes.
LEMMA GoodBucket ==
  ASSUME NEW t, Good(t), NEW i \in 1..Len(t.buckets)
  PROVE  /\ Filled(t.buckets[i], t.buckets[i].first, UpTo(t.buckets, i))
         /\ \A p \in 1..Len(t.buckets[i].nodes) : t.buckets[i].nodes[p] \in Node
<1> DEFINE bs == t.buckets
<1>1. Tabled(bs) /\ i \in 1..Len(bs)
  BY DEF Good
<1> HIDE DEF bs
<1>2. Filled(bs[i], bs[i].first, UpTo(bs, i)) /\ NodeList(bs[i].nodes, bs[i].first, UpTo(bs, i))
  BY <1>1, BucketFacts DEF Filled
<1>3. \A p \in 1..Len(bs[i].nodes) : bs[i].nodes[p] \in Node
  BY <1>2 DEF NodeList
<1> QED
  BY <1>2, <1>3 DEF bs

\* A request to a node leaves all nodes where they are.
LEMMA PingBecomes ==
  ASSUME NEW t, Good(t), t.again = FALSE, NEW i \in 1..Len(t.buckets),
         NEW p \in 1..Len(t.buckets[i].nodes), NEW B
  PROVE  Becomes([t EXCEPT !.buckets[i] = pinged(@, p)], t, Node, B)
<1> DEFINE b == t.buckets[i]
           lo == b.first
           hi == UpTo(t.buckets, i)
           a == pinged(b, p)
<1>1. Filled(b, lo, hi) /\ p \in 1..Len(b.nodes) /\ b.nodes[p] \in Node
  BY GoodBucket
<1>2. Filled(a, lo, hi) /\ Follows(Range(b.nodes), Range(a.nodes), Node, B)
  <2> HIDE DEF b, lo, hi
  <2>1. Succeeds(Requested(b.nodes[p]), b.nodes[p], Node, B)
    BY <1>1, RequestedFacts
  <2> QED
    BY <1>1, <2>1, PingedFilled
<1>3. [t EXCEPT !.buckets[i] = pinged(@, p)] = [t EXCEPT !.buckets[i] = a]
  OBVIOUS
<1> HIDE DEF a
<1>4. Becomes([t EXCEPT !.buckets[i] = a], t, Node, B)
  BY <1>2, SetBecomes
<1> QED
  BY <1>3, <1>4

\* Who is made easy to discard is still there, and nobody else is touched.
LEMMA DiscardBecomes ==
  ASSUME NEW t, Good(t), t.again = FALSE, NEW c \in Contact, NEW B
  PROVE  Becomes(Discard(t, c), t, Safe({c.id}), B)
<1> DEFINE bs == t.buckets
           i == find_bucket(c.id, bs)
           p == find_node(c.id, bs)
           G == Safe({c.id})
           u == Discard(t, c)
<1>1. Tabled(bs) /\ c.id \in Id
  BY NodeFacts DEF Good
<1>2. i \in 1..Len(bs)
  BY <1>1, FindBucket
<1>3. p \in 0..Len(bs[i].nodes) /\ (p # 0 => p \in 1..Len(bs[i].nodes) /\ bs[i].nodes[p].id = c.id)
  BY <1>1, FindNode
<1>4. u = IF p = 0 THEN t
          ELSE [t EXCEPT !.buckets[i] = pinged([@ EXCEPT !.nodes[p].pinged = 3], p)]
  BY DEF Discard
<1> HIDE DEF u, i, p, G
<1>5. CASE p = 0
  BY <1>4, <1>5, BecomesSame DEF u, G
<1>6. CASE p # 0
  <2> DEFINE b == bs[i]
             lo == b.first
             hi == UpTo(bs, i)
             n == b.nodes[p]
             m == [n EXCEPT !.pinged = 3]
             b1 == [b EXCEPT !.nodes = [b.nodes EXCEPT ![p] = m]]
             b2 == pinged(b1, p)
  <2>1. Filled(b, lo, hi) /\ p \in 1..Len(b.nodes) /\ n \in Node /\ n.id = c.id
    BY <1>2, <1>3, <1>6, GoodBucket
  <2>2. [b EXCEPT !.nodes[p].pinged = 3] = b1
    <3> HIDE DEF b
    <3>1. b \in Bucket /\ b.nodes \in Seq(Node)
      BY <2>1 DEF Filled, NodeList
    <3> QED
      BY <2>1, <3>1 DEF Bucket
  <2>3. u = [t EXCEPT !.buckets[i] = b2]
    BY <1>4, <1>6, <2>2
  <2>4. m \in Node /\ m.id = n.id /\ m.addr = n.addr /\ m.reply_time = n.reply_time
    <3> HIDE DEF n
    <3> QED
      BY <2>1 DEF Node
  <2>5. Succeeds(m, n, G, B)
    <3> HIDE DEF m, n
    <3>1. n \notin G /\ n.reply_time \in Nat
      BY <2>1, NodeFacts DEF G, Safe
    <3> QED
      BY <2>4, <3>1 DEF Succeeds
  <2>6. Filled(b1, lo, hi) /\ Follows(Range(b.nodes), Range(b1.nodes), G, B)
    <3>1. Succeeds(m, b.nodes[p], G, B) /\ m.id = b.nodes[p].id
      BY <2>4, <2>5
    <3> HIDE DEF b, lo, hi, m
    <3> QED
      BY <2>1, <2>4, <3>1, SetBucketNode
  <2>7. p \in 1..Len(b1.nodes) /\ b1.nodes[p] = m
    <3> HIDE DEF b, m
    <3>1. b \in Bucket /\ b.nodes \in Seq(Node)
      BY <2>1 DEF Filled, NodeList
    <3>2. b1.nodes = [b.nodes EXCEPT ![p] = m]
      BY <3>1 DEF Bucket
    <3> HIDE DEF b1
    <3> QED
      BY <2>1, <3>1, <3>2
  <2> HIDE DEF b1
  <2>8. Succeeds(Requested(m), m, G, B)
    <3> HIDE DEF m, n
    <3>1. m \notin G /\ m.reply_time \in Nat
      BY <2>1, <2>4, NodeFacts DEF G, Safe
    <3>2. Requested(m).id = m.id /\ Requested(m).addr = m.addr /\ Requested(m).reply_time = m.reply_time
      BY <2>4 DEF Requested, Node
    <3> QED
      BY <3>1, <3>2 DEF Succeeds
  <2>9. Filled(b2, lo, hi) /\ Follows(Range(b1.nodes), Range(b2.nodes), G, B)
    <3>1. Succeeds(Requested(b1.nodes[p]), b1.nodes[p], G, B)
      BY <2>7, <2>8
    <3> HIDE DEF b, lo, hi, m, n
    <3> QED
      BY <2>6, <2>7, <3>1, PingedFilled
  <2> HIDE DEF b2
  <2>10. Follows(Range(b.nodes), Range(b2.nodes), G, B)
    <3> HIDE DEF b, lo, hi
    <3>1. ASSUME NEW d, Filled(d, lo, hi) PROVE Range(d.nodes) \in SUBSET Node
      <4>1. d.nodes \in Seq(Node)
        BY <3>1 DEF Filled, NodeList
      <4> QED
        BY <4>1 DEF Range
    <3>2. Range(b.nodes) \in SUBSET Node /\ Range(b1.nodes) \in SUBSET Node /\ Range(b2.nodes) \in SUBSET Node
      BY <2>1, <2>6, <2>9, <3>1
    <3> QED
      BY <2>6, <2>9, <3>2, FollowsTrans
  <2>11. Becomes([t EXCEPT !.buckets[i] = b2], t, G, B)
    BY <1>2, <2>9, <2>10, SetBecomes
  <2> QED
    BY <2>3, <2>11 DEF u, G
<1> QED
  BY <1>5, <1>6

\* Somebody is asked who is in the table.
LEMMA AskBecomes ==
  ASSUME NEW t, Good(t), t.again = FALSE, NEW i \in 1..Len(t.buckets), NEW u \in Ask(t, i), NEW B
  PROVE  Becomes(u, t, Node, B)
<1>1. Len(t.buckets) \in Nat
  BY DEF Good, Tabled
<1>2. Source(t.buckets, i) \subseteq 1..Len(t.buckets)
  <2> DEFINE bs == t.buckets
             s1 == {i} \cup (IF i < Len(bs) THEN {i + 1} ELSE {})
             s2 == IF bs[i].count = 0 /\ i < Len(bs) THEN {i + 1} ELSE s1
             back == IF i > 1 /\ bs[i - 1].count > 0 THEN {i - 1} ELSE {}
  <2>1. i \in 1..Len(bs) /\ Len(bs) \in Nat
    BY <1>1
  <2>2. Source(bs, i) = {q \in s2 : bs[q].count > 0 \/ back = {}} \cup back
    BY DEF Source
  <2> HIDE DEF bs
  <2>3. s2 \subseteq 1..Len(bs) /\ back \subseteq 1..Len(bs)
    BY <2>1
  <2> HIDE DEF s2, back
  <2>4. Source(bs, i) \subseteq 1..Len(bs)
    BY <2>2, <2>3
  <2> QED
    BY <2>4 DEF bs
<1>3. PICK q \in Source(t.buckets, i) :
        u \in {[t EXCEPT !.buckets[q] = pinged(@, p)] : p \in 1..Len(t.buckets[q].nodes)}
  BY DEF Ask
<1>4. PICK p \in 1..Len(t.buckets[q].nodes) : u = [t EXCEPT !.buckets[q] = pinged(@, p)]
  BY <1>3
<1>5. q \in 1..Len(t.buckets)
  BY <1>2
<1> QED
  BY <1>4, <1>5, PingBecomes

\* Maintenance only asks.
LEMMA ConfirmBecomes ==
  ASSUME NEW t, Good(t), t.again = FALSE, NEW u \in Confirm(t), NEW B
  PROVE  Becomes(u, t, Node, B)
<1>1. CASE u \in bucket_maintenance(t)
  <2>1. PICK i \in Stale(t) : u \in Ask(t, i)
    BY <1>1 DEF bucket_maintenance
  <2>2. i \in 1..Len(t.buckets)
    BY DEF Stale
  <2> QED
    BY <2>1, <2>2, AskBecomes
<1>2. CASE u \in neighbourhood_maintenance(t)
  <2> DEFINE i == find_bucket(myid, t.buckets)
  <2>1. i \in 1..Len(t.buckets)
    <3>1. Tabled(t.buckets) /\ myid \in Id
      BY TableAssumption DEF Good
    <3> QED
      BY <3>1, FindBucket
  <2>2. u = t \/ u \in Ask(t, i)
    BY <1>2 DEF neighbourhood_maintenance
  <2> HIDE DEF i
  <2> QED
    BY <2>1, <2>2, AskBecomes, BecomesSame
<1> QED
  BY <1>1, <1>2 DEF Confirm

\* The nodes of S that are in G are in T, whatever they are there.
Stays(S, T, G, B) ==
  (\A n \in S \cap G : \E m \in T : m.id = n.id) /\ NoNew(S, T, B)

Ends(u, t, G, B) ==
  Good(u) /\ u.again = FALSE /\ Stays(Nodes(t.buckets), Nodes(u.buckets), G, B)

\* The last change may be one that makes nodes unsafe.
LEMMA BecomesEnds ==
  ASSUME NEW t, Good(t), NEW u, NEW v, NEW G \in SUBSET Node, NEW B,
         Becomes(u, t, G, B), Becomes(v, u, Node, B)
  PROVE  Ends(v, t, G, B)
<1> DEFINE S == Nodes(t.buckets)
           T == Nodes(u.buckets)
           U == Nodes(v.buckets)
<1>1. S \in SUBSET Node /\ T \in SUBSET Node /\ U \in SUBSET Node
  <2>1. ASSUME NEW w, Good(w) PROVE Nodes(w.buckets) \in SUBSET Node
    <3> DEFINE bs == w.buckets
    <3>1. Tabled(bs)
      BY <2>1 DEF Good
    <3> HIDE DEF bs
    <3>2. Nodes(bs) \in SUBSET Node
      BY <3>1, NodesTyped
    <3> QED
      BY <3>2 DEF bs
  <2> QED
    BY <2>1 DEF Becomes
<1>2. Follows(S, T, G, B) /\ Follows(T, U, Node, B)
  BY DEF Becomes
<1> HIDE DEF S, T, U
<1>3. NoNew(S, U, B)
  <2> DEFINE none == {}
  <2>1. Follows(S, T, none, B) /\ Follows(T, U, none, B)
    BY <1>2 DEF Follows, Keeps
  <2> HIDE DEF none
  <2>2. Follows(S, U, none, B)
    BY <1>1, <2>1, FollowsTrans
  <2> QED
    BY <2>2 DEF Follows
<1>4. ASSUME NEW n \in S \cap G PROVE \E m \in U : m.id = n.id
  <2>1. PICK m \in T \cap G : m.id = n.id
    BY <1>2 DEF Follows, Keeps
  <2>2. PICK l \in U : l.id = m.id
    BY <1>2 DEF Follows, Keeps
  <2> QED
    BY <2>1, <2>2
<1>5. Stays(S, U, G, B)
  BY <1>3, <1>4 DEF Stays
<1> QED
  BY <1>5 DEF Ends, Becomes, S, U

\* What dht_periodic does after the packet.
LEMMA TimersEnd ==
  ASSUME NEW t, Good(t), NEW h, NEW X, NEW B, Becomes(h, t, Safe(X), B), NEW u \in Timers(h)
  PROVE  Ends(u, t, Safe(X), B)
<1> DEFINE G == Safe(X)
           e == expire_buckets(h)
<1>1. Good(h) /\ h.again = FALSE /\ G \in SUBSET Node
  BY DEF Becomes, Safe
<1>2. Becomes(e, h, G, B)
  BY <1>1, ExpireBecomes
<1>3. PICK w \in {h, e} : u = w \/ u \in Confirm(w)
  BY DEF Timers
<1> HIDE DEF e, G
<1>4. Becomes(h, t, G, B)
  BY DEF G
<1>5. Becomes(e, t, G, B)
  BY <1>2, <1>4, BecomesTrans
<1>6. Becomes(w, t, G, B)
  BY <1>4, <1>5
<1>7. Good(w) /\ w.again = FALSE
  BY <1>6 DEF Becomes
<1>8. Becomes(u, w, Node, B)
  BY <1>3, <1>7, BecomesSame, ConfirmBecomes
<1>9. Ends(u, t, G, B)
  BY <1>1, <1>6, <1>8, BecomesEnds
<1> QED
  BY <1>9 DEF G

\* The handler of a packet.
LEMMA HandledBecomes ==
  ASSUME NEW t, Good(t), t.again = FALSE, NEW c \in Contact, NEW h \in Handled(t, c), NEW X
  PROVE  Becomes(h, t, Safe(X), Listed)
<1> DEFINE G == Safe(X)
           B == Listed
<1>1. 0 \in 0..2 /\ 1 \in 0..2 /\ 2 \in 0..2
  OBVIOUS
<1>2. Becomes(new_node(t, c, 2), t, G, B) /\ Becomes(new_node(t, c, 1), t, G, B)
  BY <1>1, NewNodeBecomes
<1>3. ASSUME NEW o \in Contact PROVE Becomes(Learn(t, c, o), t, G, B)
  <2> DEFINE u == new_node(t, c, 2)
             v == new_node(u, o, 0)
  <2>1. Becomes(u, t, G, B)
    BY <1>2
  <2> HIDE DEF u
  <2>2. Good(u) /\ u.again = FALSE
    BY <2>1 DEF Becomes
  <2>3. Becomes(v, u, G, B)
    BY <1>1, <2>2, NewNodeBecomes
  <2> HIDE DEF v, G, B
  <2>4. Becomes(v, t, G, B)
    BY <2>1, <2>3, BecomesTrans
  <2> QED
    BY <2>4 DEF Learn, u, v
<1>4. h = new_node(t, c, 2) \/ h = new_node(t, c, 1) \/ \E o \in Contact : h = Learn(t, c, o)
  BY DEF Handled
<1> HIDE DEF G, B
<1>5. Becomes(h, t, G, B)
  BY <1>2, <1>3, <1>4
<1> QED
  BY <1>5 DEF G, B

(***************************************************************************)
(* The clock                                                               *)
(***************************************************************************)
\* A bucket, a step later.
LaterBucket(b) ==
  [b EXCEPT !.time = Aged(@), !.nodes = [p \in DOMAIN @ |-> Later(@[p])]]

\* Ages stay ages and do not get less.
LEMMA AgedFacts ==
  ASSUME NEW a \in Age
  PROVE  Aged(a) \in Age /\ Aged(a) \in Nat /\ a \in Nat /\ Aged(a) >= a
<1>1. Old \in Nat
  BY NodeFacts
<1> QED
  BY <1>1 DEF Aged, Smaller, Age

\* The node it is.
LEMMA LaterFacts ==
  ASSUME NEW n \in Node
  PROVE  /\ Later(n) \in Node /\ Later(n).id = n.id /\ Later(n).addr = n.addr
         /\ Later(n).reply_time >= n.reply_time
<1>1. n.time \in Age /\ n.reply_time \in Age /\ n.pinged_time \in Age
  BY DEF Node
<1> DEFINE a == Aged(n.time)
           r == Aged(n.reply_time)
           p == Aged(n.pinged_time)
<1>2. a \in Age /\ r \in Age /\ p \in Age /\ r >= n.reply_time
  BY <1>1, AgedFacts
<1>3. Later(n) = [n EXCEPT !.time = a, !.reply_time = r, !.pinged_time = p]
  BY DEF Later
<1> HIDE DEF a, r, p
<1> QED
  BY <1>2, <1>3 DEF Node

\* A bucket keeps its nodes.
LEMMA LaterFilled ==
  ASSUME NEW b, NEW lo, NEW hi, Filled(b, lo, hi), NEW B
  PROVE  /\ Filled(LaterBucket(b), lo, hi)
         /\ Follows(Range(b.nodes), Range(LaterBucket(b).nodes), Node, B)
<1> DEFINE ns == b.nodes
           ms == [p \in DOMAIN ns |-> Later(ns[p])]
           a == Aged(b.time)
           c == [b EXCEPT !.time = a, !.nodes = ms]
<1>1. /\ b \in Bucket /\ b.time \in Age /\ b.first = lo /\ b.count = Len(ns) /\ NodeList(ns, lo, hi)
      /\ LaterBucket(b) = c
  BY DEF Filled, LaterBucket, Bucket
<1>2. a \in Age
  BY <1>1, AgedFacts
<1> HIDE DEF ns, a
<1>3. ns \in Seq(Node) /\ Len(ns) \in Nat /\ DOMAIN ns = 1..Len(ns) /\ Len(ns) <= K
  BY <1>1 DEF NodeList
<1>4. \A p \in 1..Len(ns) : /\ ns[p] \in Node /\ ms[p] \in Node /\ ms[p].id = ns[p].id
                            /\ ms[p].addr = ns[p].addr /\ ms[p].reply_time >= ns[p].reply_time
  <2> SUFFICES ASSUME NEW p \in 1..Len(ns)
               PROVE  /\ ns[p] \in Node /\ ms[p] \in Node /\ ms[p].id = ns[p].id
                      /\ ms[p].addr = ns[p].addr /\ ms[p].reply_time >= ns[p].reply_time
    OBVIOUS
  <2>1. ns[p] \in Node /\ ms[p] = Later(ns[p])
    BY <1>3
  <2> HIDE DEF ms
  <2> QED
    BY <2>1, LaterFacts
<1>5. ms \in [1..Len(ns) -> Node]
  BY <1>3, <1>4
<1> HIDE DEF ms
<1>6. ms \in Seq(Node) /\ Len(ms) = Len(ns) /\ DOMAIN ms = 1..Len(ns)
  BY <1>3, <1>5
<1>7. NodeList(ms, lo, hi)
  BY <1>1, <1>3, <1>4, <1>6 DEF NodeList
<1>8. Filled(c, lo, hi) /\ c.nodes = ms
  <2>1. c \in Bucket /\ c.nodes = ms /\ c.count = Len(ns) /\ c.first = lo
    BY <1>1, <1>2, <1>6 DEF Bucket, ns
  <2> HIDE DEF c
  <2> QED
    BY <1>6, <1>7, <2>1 DEF Filled
<1>9. /\ \A x : x \in Range(ns) <=> \E p \in 1..Len(ns) : x = ns[p]
      /\ \A x : x \in Range(ms) <=> \E p \in 1..Len(ns) : x = ms[p]
  BY <1>3, <1>6 DEF Range
<1>10. Follows(Range(ns), Range(ms), Node, B)
  <2>1. Keeps(Range(ns), Range(ms), Node)
    <3> SUFFICES ASSUME NEW n \in Range(ns) PROVE \E m \in Range(ms) \cap Node : m.id = n.id
      BY DEF Keeps
    <3>1. PICK p \in 1..Len(ns) : n = ns[p]
      BY <1>9
    <3>2. ms[p] \in Range(ms) \cap Node /\ ms[p].id = n.id
      BY <1>4, <1>9, <3>1
    <3> QED
      BY <3>2
  <2>2. NoNew(Range(ns), Range(ms), B)
    <3> SUFFICES ASSUME NEW m \in Range(ms)
                 PROVE  \E n \in Range(ns) : n.id = m.id /\ n.addr = m.addr /\ m.reply_time >= n.reply_time
      BY DEF NoNew
    <3>1. PICK p \in 1..Len(ns) : m = ms[p]
      BY <1>9
    <3>2. ns[p] \in Range(ns)
      BY <1>9
    <3> QED
      BY <1>4, <3>1, <3>2
  <2> QED
    BY <2>1, <2>2 DEF Follows
<1> HIDE DEF c
<1> QED
  BY <1>1, <1>8, <1>10 DEF ns

(***************************************************************************)
(* Steps                                                                   *)
(***************************************************************************)
\* The table between two steps.
LEMMA TableGood ==
  ASSUME IInv, running
  PROVE  /\ Good(table) /\ table.again = FALSE /\ table.buckets = buckets
         /\ Tabled(buckets) /\ Nodes(buckets) \in SUBSET Node
<1>1. Tabled(buckets) /\ mybucket_grow \in Age /\ recursing = FALSE
  BY DEF IInv
<1>2. buckets \in Seq(Bucket)
  BY <1>1 DEF Tabled
<1>3. table \in Table /\ table.buckets = buckets /\ table.again = FALSE
  BY <1>1, <1>2 DEF table, Table
<1>4. Nodes(buckets) \in SUBSET Node
  BY <1>1, NodesTyped
<1> QED
  BY <1>1, <1>3, <1>4 DEF Good

\* The table after a step, and who stays in it if the ids in X do not count.
NextTable(X) ==
  /\ Tabled(buckets') /\ mybucket_grow' \in Age /\ recursing' = FALSE
  /\ Stays(Nodes(buckets), Nodes(buckets'), Safe(X), Listed)

\* A table that is stored.
LEMMA StoredTable ==
  ASSUME IInv, running, NEW t, SetTable(t), NEW X, Ends(t, table, Safe(X), Listed)
  PROVE  NextTable(X)
<1>1. table.buckets = buckets
  BY TableGood
<1>2. Good(t) /\ t.again = FALSE /\ Stays(Nodes(buckets), Nodes(t.buckets), Safe(X), Listed)
  BY <1>1 DEF Ends
<1>3. t \in Table /\ Tabled(t.buckets) /\ t.grow \in Age
  BY <1>2 DEF Good, Table
<1>4. buckets' = t.buckets /\ mybucket_grow' = t.grow /\ recursing' = t.again
  BY DEF SetTable
<1> QED
  BY <1>2, <1>3, <1>4 DEF NextTable

\* dht_periodic without a packet, or with one that is dropped.
LEMMA IdleStep ==
  ASSUME IInv, dht_periodic_idle, NEW X
  PROVE  NextTable(X)
<1>1. running
  BY DEF dht_periodic_idle
<1>2. PICK t \in Timers(table) : SetTable(t)
  BY DEF dht_periodic_idle
<1>3. Good(table) /\ table.again = FALSE
  BY <1>1, TableGood
<1>4. Becomes(table, table, Safe(X), Listed)
  BY <1>3, BecomesSame
<1>5. Ends(t, table, Safe(X), Listed)
  BY <1>3, <1>4, TimersEnd
<1> QED
  BY <1>1, <1>2, <1>5, StoredTable

\* dht_periodic with a packet.
LEMMA PeriodicStep ==
  ASSUME IInv, NEW c \in Contact, dht_periodic(c), NEW X
  PROVE  NextTable(X)
<1>1. running
  BY DEF dht_periodic
<1>2. PICK h \in Handled(table, c) : \E t \in Timers(h) : SetTable(t)
  BY DEF dht_periodic
<1>3. PICK t \in Timers(h) : SetTable(t)
  BY <1>2
<1>4. Good(table) /\ table.again = FALSE
  BY <1>1, TableGood
<1>5. Becomes(h, table, Safe(X), Listed)
  BY <1>4, HandledBecomes
<1>6. Ends(t, table, Safe(X), Listed)
  BY <1>4, <1>5, TimersEnd
<1> QED
  BY <1>1, <1>3, <1>6, StoredTable

\* dht_periodic with a broken reply.
LEMMA BrokenStep ==
  ASSUME IInv, NEW c \in Contact, dht_periodic_broken(c)
  PROVE  NextTable({c.id})
<1> DEFINE X == {c.id}
           h == Discard(table, c)
<1>1. running
  BY DEF dht_periodic_broken
<1>2. PICK t \in Timers(h) : SetTable(t)
  BY DEF dht_periodic_broken
<1>3. Good(table) /\ table.again = FALSE
  BY <1>1, TableGood
<1>4. Becomes(h, table, Safe(X), Listed)
  BY <1>3, DiscardBecomes
<1> HIDE DEF h
<1>5. Ends(t, table, Safe(X), Listed)
  BY <1>3, <1>4, TimersEnd
<1> QED
  BY <1>1, <1>2, <1>5, StoredTable

\* One change of the table is enough.
LEMMA EndsOnce ==
  ASSUME NEW t, Good(t), NEW u, NEW G \in SUBSET Node, NEW B, Becomes(u, t, G, B)
  PROVE  Ends(u, t, G, B)
<1>1. Becomes(u, u, Node, B)
  BY BecomesSame DEF Becomes
<1> QED
  BY <1>1, BecomesEnds

\* A node that the user of the DHT knows of.
LEMMA InsertStep ==
  ASSUME IInv, NEW c \in Contact, dht_insert_node(c), NEW X
  PROVE  NextTable(X)
<1> DEFINE t == new_node(table, c, 0)
<1>1. running /\ SetTable(t)
  BY DEF dht_insert_node
<1> HIDE DEF t
<1>2. Good(table) /\ table.again = FALSE
  BY <1>1, TableGood
<1>3. Becomes(t, table, Safe(X), Listed)
  <2>1. 0 \in 0..2
    OBVIOUS
  <2> QED
    BY <1>2, <2>1, NewNodeBecomes DEF t
<1>4. Safe(X) \in SUBSET Node
  BY DEF Safe
<1>5. Ends(t, table, Safe(X), Listed)
  BY <1>2, <1>3, <1>4, EndsOnce
<1> QED
  BY <1>1, <1>5, StoredTable

\* A request for a search.
LEMMA AsksStep ==
  ASSUME IInv, NEW i \in 1..Len(buckets), search_asks(i), NEW X
  PROVE  NextTable(X)
<1>1. running /\ mybucket_grow' = mybucket_grow /\ recursing' = recursing
  BY DEF search_asks
<1>2. PICK p \in 1..Len(buckets[i].nodes) : buckets' = [buckets EXCEPT ![i] = pinged(@, p)]
  BY DEF search_asks
<1> DEFINE t == table
           u == [t EXCEPT !.buckets[i] = pinged(@, p)]
<1>3. Good(t) /\ t.again = FALSE /\ t.buckets = buckets /\ t \in Table
  BY <1>1, TableGood DEF Good
<1>4. t.grow = mybucket_grow
  BY DEF table
<1> HIDE DEF t
<1>5. u.buckets = buckets' /\ u.grow = t.grow /\ u.again = t.again
  BY <1>2, <1>3 DEF Table
<1>6. i \in 1..Len(t.buckets) /\ p \in 1..Len(t.buckets[i].nodes)
  BY <1>2, <1>3
<1>7. Becomes(u, t, Node, Listed)
  BY <1>3, <1>6, PingBecomes
<1>8. SetTable(u)
  BY <1>1, <1>3, <1>4, <1>5 DEF SetTable, IInv
<1> HIDE DEF u
<1>9. Ends(u, t, Safe(X), Listed)
  <2>1. Becomes(t, t, Safe(X), Listed) /\ Safe(X) \in SUBSET Node
    BY <1>3, BecomesSame DEF Safe
  <2> QED
    BY <1>3, <1>7, <2>1, BecomesEnds
<1> QED
  BY <1>1, <1>8, <1>9, StoredTable DEF t

\* A step of the clock.
LEMMA TickStep ==
  ASSUME IInv, Tick, NEW X
  PROVE  NextTable(X)
<1>1. running /\ recursing' = recursing /\ mybucket_grow' = Aged(mybucket_grow)
  BY DEF Tick
<1>2. Tabled(buckets) /\ mybucket_grow \in Age /\ recursing = FALSE /\ Nodes(buckets) \in SUBSET Node
  BY <1>1, TableGood DEF IInv
<1>3. mybucket_grow' \in Age
  BY <1>1, <1>2, AgedFacts
<1> DEFINE cs == [i \in DOMAIN buckets |-> LaterBucket(buckets[i])]
<1>4. buckets' = cs
  BY DEF Tick, LaterBucket
<1>5. buckets \in Seq(Bucket) /\ DOMAIN buckets = 1..Len(buckets)
  BY <1>2 DEF Tabled
<1>6. ASSUME NEW i \in 1..Len(buckets)
      PROVE  /\ cs[i] \in Bucket /\ Filled(cs[i], buckets[i].first, UpTo(buckets, i))
             /\ Follows(Range(buckets[i].nodes), Range(cs[i].nodes), Node, Listed)
  <2>1. Filled(buckets[i], buckets[i].first, UpTo(buckets, i))
    BY <1>2, BucketFacts DEF Filled
  <2>2. cs[i] = LaterBucket(buckets[i])
    BY <1>5
  <2> HIDE DEF cs
  <2>3. /\ Filled(cs[i], buckets[i].first, UpTo(buckets, i))
        /\ Follows(Range(buckets[i].nodes), Range(cs[i].nodes), Node, Listed)
    BY <2>1, <2>2, LaterFilled
  <2> QED
    BY <2>3 DEF Filled
<1>7. cs \in [1..Len(buckets) -> Bucket]
  BY <1>5, <1>6
<1> HIDE DEF cs
<1>8. Tabled(cs) /\ Follows(Nodes(buckets), Nodes(cs), Node, Listed)
  BY <1>2, <1>6, <1>7, Remade
<1>9. Stays(Nodes(buckets), Nodes(cs), Safe(X), Listed)
  BY <1>2, <1>8 DEF Stays, Follows, Keeps
<1> QED
  BY <1>1, <1>2, <1>3, <1>4, <1>8, <1>9 DEF NextTable

\* The empty table.
LEMMA EmptyTabled ==
  Tabled(Empty)
<1> DEFINE b == [first |-> 0, time |-> Old, nodes |-> <<>>, count |-> 0, cached |-> NoAddr]
<1>1. Pow2[Bits] \in Nat /\ Pow2[Bits] > 0 /\ Bits \in Nat /\ K \in Nat
  BY Pow2Nat, TableAssumption
<1>2. b \in Bucket /\ b.first = 0 /\ b.count = 0 /\ b.nodes = <<>>
  <2>1. 0 \in Id /\ Old \in Age
    BY <1>1, NodeFacts DEF Id
  <2> QED
    BY <2>1 DEF Bucket
<1>3. Empty = <<b>>
  BY DEF Empty
<1> HIDE DEF b
<1>4. Empty \in Seq(Bucket) /\ Len(Empty) = 1 /\ Empty[1] = b
  BY <1>2, <1>3
<1>5. UpTo(Empty, 1) = Pow2[Bits]
  BY <1>4 DEF UpTo
<1>6. Dyadic(0, Pow2[Bits], 0)
  <2>1. Bits - 0 = Bits /\ 0 \in 0..Bits /\ 0 + Pow2[Bits] = Pow2[Bits] /\ 0 * Pow2[Bits] = 0
    BY <1>1
  <2>2. Pow2[Bits] <= Pow2[Bits]
    BY <1>1
  <2> QED
    BY <2>1, <2>2 DEF Dyadic
<1>7. NodeList(<<>>, 0, Pow2[Bits])
  BY <1>1 DEF NodeList
<1>8. 0 \in 0..Bits /\ Len(<<>>) = 0
  BY <1>1
<1>9. \A i \in 1..Len(Empty) : i = 1
  BY <1>4
<1>10. \A i, j \in 1..Len(Empty) : ~(i < j)
  BY <1>4
<1>11. \A i \in 1..Len(Empty) : \E d \in 0..Bits : Dyadic(Empty[i].first, UpTo(Empty, i), d)
  BY <1>2, <1>4, <1>5, <1>6, <1>8, <1>9
<1>12. \A i \in 1..Len(Empty) : /\ Empty[i].count = Len(Empty[i].nodes)
                                /\ NodeList(Empty[i].nodes, Empty[i].first, UpTo(Empty, i))
  BY <1>2, <1>4, <1>5, <1>7, <1>8, <1>9
<1> QED
  BY <1>2, <1>4, <1>10, <1>11, <1>12 DEF Tabled

(***************************************************************************)
(* The blacklist                                                           *)
(***************************************************************************)
\* The slot of the j-th of the last offenders, if next is the slot to be used next.
Slot(next, j) == IF j <= next THEN next - j ELSE next - j + MaxBlacklisted

\* One slot further, the last offender is in the slot just used, and the others are where they were.
LEMMA SlotNext ==
  ASSUME NEW next \in 0..MaxBlacklisted-1
  PROVE  LET then == (next + 1) % MaxBlacklisted
         IN  /\ then \in 0..MaxBlacklisted-1
             /\ next + 1 < MaxBlacklisted => then = next + 1
             /\ Slot(then, 1) = next
             /\ \A j \in 2..MaxBlacklisted : Slot(then, j) = Slot(next, j - 1)
             /\ \A j \in 1..MaxBlacklisted : Slot(next, j) \in 0..MaxBlacklisted-1
             /\ \A j \in 1..MaxBlacklisted-1 : Slot(next, j) # next
<1> DEFINE M == MaxBlacklisted
           then == (next + 1) % M
<1>1. M \in Nat /\ M > 0
  BY TableAssumption
<1>2. then = IF next + 1 = M THEN 0 ELSE next + 1
  <2>1. CASE next + 1 = M
    BY <1>1, <2>1
  <2>2. CASE next + 1 # M
    BY <1>1, <2>2
  <2> QED
    BY <2>1, <2>2
<1> HIDE DEF then
<1>3. then \in 0..M-1 /\ (next + 1 < M => then = next + 1)
  BY <1>1, <1>2
<1>4. Slot(then, 1) = next
  BY <1>1, <1>2 DEF Slot
<1>5. ASSUME NEW j \in 2..M PROVE Slot(then, j) = Slot(next, j - 1)
  BY <1>1, <1>2 DEF Slot
<1>6. ASSUME NEW j \in 1..M PROVE Slot(next, j) \in 0..M-1
  BY <1>1 DEF Slot
<1>7. ASSUME NEW j \in 1..M-1 PROVE Slot(next, j) # next
  BY <1>1 DEF Slot
<1> QED
  BY <1>3, <1>4, <1>5, <1>6, <1>7 DEF then

\* The list of offenders with one more.
LEMMA OffendersNext ==
  ASSUME NEW os \in Seq(Addr), Len(os) <= MaxBlacklisted, NEW a \in Addr
  PROVE  LET all == Append(os, a)
             ps == SubSeq(all, Larger(1, Len(all) - MaxBlacklisted + 1), Len(all))
         IN  /\ ps \in Seq(Addr) /\ Len(ps) = IF Len(os) < MaxBlacklisted THEN Len(os) + 1 ELSE Len(os)
             /\ ps[Len(ps)] = a
             /\ \A j \in 2..Len(ps) : ps[Len(ps) + 1 - j] = os[Len(os) + 1 - (j - 1)] /\ j - 1 \in 1..Len(os)
<1> DEFINE M == MaxBlacklisted
           all == Append(os, a)
           l == Len(os)
           from == Larger(1, Len(all) - M + 1)
           ps == SubSeq(all, from, Len(all))
<1>1. M \in Nat /\ M > 0 /\ l \in Nat /\ l <= M
  BY TableAssumption
<1>2. all \in Seq(Addr) /\ Len(all) = l + 1 /\ all[l + 1] = a /\ \A k \in 1..l : all[k] = os[k]
  OBVIOUS
<1> HIDE DEF all, l
<1>3. from = IF l < M THEN 1 ELSE 2
  BY <1>1, <1>2 DEF Larger
<1>4. from \in 1..2 /\ from <= l + 1
  BY <1>1, <1>3
<1> HIDE DEF from
<1>5. /\ ps \in Seq(Addr) /\ Len(ps) = (l + 1) - from + 1
      /\ \A k \in 1..((l + 1) - from + 1) : ps[k] = all[from + k - 1]
  <2>1. from \in 1..Len(all) /\ Len(all) \in 1..Len(all)
    BY <1>1, <1>2, <1>4
  <2>2. \A k \in from..Len(all) : all[k] \in Addr
    BY <1>2, <1>4
  <2>3. ps = [k \in 1..(Len(all) - from + 1) |-> all[from + k - 1]]
    BY <1>2, <2>1
  <2>4. \A k \in 1..((l + 1) - from + 1) : from + k - 1 \in from..Len(all)
    BY <1>1, <1>2, <1>4
  <2>5. Len(all) - from + 1 = (l + 1) - from + 1 /\ (l + 1) - from + 1 \in Nat
    BY <1>1, <1>2, <1>4
  <2> HIDE DEF ps
  <2>6. ps \in [1..((l + 1) - from + 1) -> Addr]
    BY <2>2, <2>3, <2>4, <2>5
  <2>7. ps \in Seq(Addr) /\ Len(ps) = (l + 1) - from + 1
    <3> DEFINE n == (l + 1) - from + 1
    <3>1. n \in Nat /\ ps \in [1..n -> Addr]
      BY <2>5, <2>6
    <3> HIDE DEF n
    <3>2. ps \in Seq(Addr) /\ Len(ps) = n
      BY <3>1
    <3> QED
      BY <3>2 DEF n
  <2>8. \A k \in 1..((l + 1) - from + 1) : ps[k] = all[from + k - 1]
    BY <2>3, <2>5
  <2> QED
    BY <2>7, <2>8
<1> HIDE DEF ps
<1>6. Len(ps) = IF l < M THEN l + 1 ELSE l
  BY <1>1, <1>3, <1>5
<1>7. ps[Len(ps)] = a
  <2>1. Len(ps) \in 1..((l + 1) - from + 1) /\ from + Len(ps) - 1 = l + 1
    BY <1>1, <1>4, <1>5
  <2> QED
    BY <1>2, <1>5, <2>1
<1>8. ASSUME NEW j \in 2..Len(ps)
      PROVE  ps[Len(ps) + 1 - j] = os[l + 1 - (j - 1)] /\ j - 1 \in 1..l
  <2>1. /\ Len(ps) + 1 - j \in 1..((l + 1) - from + 1)
        /\ from + (Len(ps) + 1 - j) - 1 = l + 1 - (j - 1)
        /\ l + 1 - (j - 1) \in 1..l /\ j - 1 \in 1..l
    BY <1>1, <1>4, <1>5, <1>6
  <2>2. ps[Len(ps) + 1 - j] = all[l + 1 - (j - 1)]
    BY <1>5, <2>1
  <2> QED
    BY <1>2, <2>1, <2>2
<1> QED
  BY <1>5, <1>6, <1>7, <1>8 DEF ps, from, all, l

\* The ring with one more offender.
LEMMA RingStep ==
  ASSUME IInv, NEW c \in Contact, dht_periodic_broken(c)
  PROVE  /\ blacklist' \in [0..MaxBlacklisted-1 -> Addr \cup {NoAddr}]
         /\ next_blacklisted' \in 0..MaxBlacklisted-1
         /\ RingOK'
         /\ ~node_blacklisted(c.addr) /\ node_blacklisted(c.addr)'
<1> DEFINE M == MaxBlacklisted
           next == next_blacklisted
           then == (next + 1) % M
           os == offenders
           all == Append(os, c.addr)
           ps == SubSeq(all, Larger(1, Len(all) - M + 1), Len(all))
<1>1. /\ blacklist' = [blacklist EXCEPT ![next] = c.addr] /\ next_blacklisted' = then
      /\ offenders' = ps /\ ~node_blacklisted(c.addr)
  BY DEF dht_periodic_broken, blacklist_node
<1>2. c.addr \in Addr
  BY NodeFacts
<1>3. /\ blacklist \in [0..M-1 -> Addr \cup {NoAddr}] /\ next \in 0..M-1
      /\ os \in Seq(Addr) /\ Len(os) <= M /\ Len(os) \in Nat /\ M \in Nat
      /\ Len(os) < M => next = Len(os)
      /\ \A j \in 1..Len(os) : blacklist[Slot(next, j)] = os[Len(os) + 1 - j]
  BY TableAssumption DEF IInv, RingOK, Slot
<1>4. /\ then \in 0..M-1 /\ (next + 1 < M => then = next + 1) /\ Slot(then, 1) = next
      /\ \A j \in 2..M : Slot(then, j) = Slot(next, j - 1)
      /\ \A j \in 1..M : Slot(next, j) \in 0..M-1
      /\ \A j \in 1..M-1 : Slot(next, j) # next
  <2> HIDE DEF next
  <2> QED
    BY <1>3, SlotNext
<1>5. /\ ps \in Seq(Addr) /\ Len(ps) = IF Len(os) < M THEN Len(os) + 1 ELSE Len(os)
      /\ ps[Len(ps)] = c.addr
      /\ \A j \in 2..Len(ps) : ps[Len(ps) + 1 - j] = os[Len(os) + 1 - (j - 1)] /\ j - 1 \in 1..Len(os)
  <2> DEFINE a == c.addr
  <2> HIDE DEF os, a
  <2>1. LET al == Append(os, a)
            qs == SubSeq(al, Larger(1, Len(al) - M + 1), Len(al))
        IN  /\ qs \in Seq(Addr) /\ Len(qs) = IF Len(os) < M THEN Len(os) + 1 ELSE Len(os)
            /\ qs[Len(qs)] = a
            /\ \A j \in 2..Len(qs) : qs[Len(qs) + 1 - j] = os[Len(os) + 1 - (j - 1)] /\ j - 1 \in 1..Len(os)
    BY <1>2, <1>3, OffendersNext DEF a
  <2> QED
    BY <2>1 DEF a
<1> HIDE DEF then, ps, next
<1>6. /\ blacklist' \in [0..M-1 -> Addr \cup {NoAddr}] /\ blacklist'[next] = c.addr
      /\ \A k \in 0..M-1 : k # next => blacklist'[k] = blacklist[k]
  BY <1>1, <1>2, <1>3
<1>7. Len(ps) <= M /\ Len(ps) \in Nat /\ (Len(ps) < M => then = Len(ps))
  BY <1>3, <1>4, <1>5
<1>8. ASSUME NEW j \in 1..Len(ps) PROVE blacklist'[Slot(then, j)] = ps[Len(ps) + 1 - j]
  <2>1. CASE j = 1
    <3>1. Len(ps) + 1 - j = Len(ps)
      BY <1>7, <2>1
    <3> QED
      BY <1>4, <1>5, <1>6, <2>1, <3>1
  <2>2. CASE j # 1
    <3>1. j \in 2..Len(ps) /\ j \in 2..M /\ j - 1 \in 1..M-1 /\ j - 1 \in 1..M
      BY <1>3, <1>7, <2>2
    <3>2. Slot(then, j) = Slot(next, j - 1) /\ Slot(next, j - 1) # next /\ Slot(next, j - 1) \in 0..M-1
      BY <1>4, <3>1
    <3>3. ps[Len(ps) + 1 - j] = os[Len(os) + 1 - (j - 1)] /\ j - 1 \in 1..Len(os)
      BY <1>5, <3>1
    <3>4. blacklist[Slot(next, j - 1)] = os[Len(os) + 1 - (j - 1)]
      BY <1>3, <3>3
    <3> QED
      BY <1>6, <3>2, <3>3, <3>4
  <2> QED
    BY <2>1, <2>2
<1>9. RingOK'
  BY <1>1, <1>5, <1>7, <1>8 DEF RingOK, Slot
<1>10. node_blacklisted(c.addr)'
  BY <1>3, <1>6 DEF node_blacklisted
<1> QED
  BY <1>1, <1>4, <1>6, <1>9, <1>10

\* The offenders are on the list.
LEMMA OffendersListed ==
  ASSUME IInv
  PROVE  Range(offenders) \subseteq Listed
<1> DEFINE M == MaxBlacklisted
           next == next_blacklisted
           os == offenders
<1>1. /\ next \in 0..M-1 /\ os \in Seq(Addr) /\ Len(os) <= M /\ Len(os) \in Nat /\ M \in Nat
      /\ \A j \in 1..Len(os) : blacklist[Slot(next, j)] = os[Len(os) + 1 - j]
  BY TableAssumption DEF IInv, RingOK, Slot
<1>2. \A j \in 1..M : Slot(next, j) \in 0..M-1
  <2> HIDE DEF next
  <2> QED
    BY <1>1, SlotNext
<1> SUFFICES ASSUME NEW a \in Range(os) PROVE a \in Listed
  OBVIOUS
<1>3. PICK k \in 1..Len(os) : a = os[k]
  BY <1>1 DEF Range
<1>4. Len(os) + 1 - k \in 1..Len(os) /\ Len(os) + 1 - k \in 1..M /\ Len(os) + 1 - (Len(os) + 1 - k) = k
  BY <1>1
<1>5. blacklist[Slot(next, Len(os) + 1 - k)] = a
  BY <1>1, <1>3, <1>4
<1> QED
  BY <1>2, <1>4, <1>5 DEF Listed

(***************************************************************************)
(* The invariant, and what the table keeps                                 *)
(***************************************************************************)
\* The steps that change the table.
LEMMA TableStep ==
  ASSUME IInv, Next, running, running'
  PROVE  \/ \A X : NextTable(X)
         \/ \E c \in Broken : dht_periodic_broken(c) /\ NextTable({c.id})
<1>1. ASSUME dht_init PROVE FALSE
  BY <1>1 DEF dht_init
<1>2. ASSUME dht_uninit PROVE FALSE
  BY <1>2 DEF dht_uninit
<1>3. ASSUME Tick \/ dht_periodic_idle PROVE \A X : NextTable(X)
  BY <1>3, TickStep, IdleStep
<1>4. ASSUME NEW i \in 1..Len(buckets), search_asks(i) PROVE \A X : NextTable(X)
  BY <1>4, AsksStep
<1>5. ASSUME NEW c \in Contact, dht_periodic(c) \/ dht_insert_node(c) PROVE \A X : NextTable(X)
  BY <1>5, PeriodicStep, InsertStep
<1>6. ASSUME NEW c \in Broken, dht_periodic_broken(c) PROVE NextTable({c.id})
  <2>1. c \in Contact
    BY TableAssumption
  <2> QED
    BY <1>6, <2>1, BrokenStep
<1> QED
  BY <1>1, <1>2, <1>3, <1>4, <1>5, <1>6 DEF Next

\* The other variables.
LEMMA RestStep ==
  ASSUME IInv, Next
  PROVE  /\ running' \in BOOLEAN
         /\ blacklist' \in [0..MaxBlacklisted-1 -> Addr \cup {NoAddr}]
         /\ next_blacklisted' \in 0..MaxBlacklisted-1
         /\ RingOK'
<1>1. /\ running \in BOOLEAN /\ blacklist \in [0..MaxBlacklisted-1 -> Addr \cup {NoAddr}]
      /\ next_blacklisted \in 0..MaxBlacklisted-1 /\ RingOK
  BY DEF IInv
<1>2. CASE UNCHANGED <<blacklist, next_blacklisted, offenders>> /\ running' \in BOOLEAN
  BY <1>1, <1>2 DEF RingOK
<1>3. CASE dht_init
  <2>1. /\ running' = TRUE /\ blacklist' = blacklist /\ next_blacklisted' = 0 /\ offenders' = <<>>
    BY <1>3 DEF dht_init
  <2>2. MaxBlacklisted \in Nat \ {0}
    BY TableAssumption
  <2>3. RingOK'
    BY <2>1, <2>2 DEF RingOK
  <2> QED
    BY <1>1, <2>1, <2>2, <2>3
<1>4. ASSUME NEW c \in Broken, dht_periodic_broken(c)
      PROVE  /\ running' \in BOOLEAN /\ blacklist' \in [0..MaxBlacklisted-1 -> Addr \cup {NoAddr}]
             /\ next_blacklisted' \in 0..MaxBlacklisted-1 /\ RingOK'
  <2>1. c \in Contact /\ running' = running
    BY <1>4, TableAssumption DEF dht_periodic_broken
  <2> QED
    BY <1>1, <1>4, <2>1, RingStep
<1>5. \/ dht_init \/ \E c \in Broken : dht_periodic_broken(c)
      \/ UNCHANGED <<blacklist, next_blacklisted, offenders>> /\ running' \in BOOLEAN
  BY <1>1 DEF Next, dht_uninit, Tick, dht_periodic_idle, search_asks, dht_periodic, dht_insert_node
<1> QED
  BY <1>2, <1>3, <1>4, <1>5

\* The inductive invariant holds: the buckets are aligned ranges, in order and without a gap.
THEOREM InvariantHolds == Spec => []IInv
<1>1. Init => IInv
  <2> SUFFICES ASSUME Init PROVE IInv
    OBVIOUS
  <2>1. 0 \in Age /\ MaxBlacklisted \in Nat \ {0}
    BY NodeFacts, TableAssumption
  <2>2. RingOK
    BY <2>1 DEF Init, RingOK
  <2>3. /\ running \in BOOLEAN /\ ~running /\ recursing = FALSE /\ mybucket_grow \in Age /\ buckets = <<>>
    BY <2>1 DEF Init
  <2>4. /\ blacklist \in [0..MaxBlacklisted-1 -> Addr \cup {NoAddr}]
        /\ next_blacklisted \in 0..MaxBlacklisted-1
    BY <2>1 DEF Init
  <2> QED
    BY <2>2, <2>3, <2>4 DEF IInv
<1>2. IInv /\ [Next]_vars => IInv'
  <2> SUFFICES ASSUME IInv, [Next]_vars PROVE IInv'
    OBVIOUS
  <2>1. CASE UNCHANGED vars
    BY <2>1 DEF vars, IInv, RingOK
  <2>2. CASE Next
    <3>1. /\ running' \in BOOLEAN /\ blacklist' \in [0..MaxBlacklisted-1 -> Addr \cup {NoAddr}]
          /\ next_blacklisted' \in 0..MaxBlacklisted-1 /\ RingOK'
      BY <2>2, RestStep
    <3>2. CASE running /\ running'
      <4>1. PICK X : NextTable(X)
        BY <2>2, <3>2, TableStep
      <4> QED
        BY <3>1, <3>2, <4>1 DEF IInv, NextTable
    <3>3. CASE running /\ ~running'
      <4>1. dht_uninit
        BY <2>2, <3>3 DEF Next, dht_init, Tick, dht_periodic_idle, search_asks, dht_periodic,
                          dht_insert_node, dht_periodic_broken
      <4>2. buckets' = <<>> /\ mybucket_grow' = mybucket_grow /\ recursing' = recursing
        BY <4>1 DEF dht_uninit
      <4> QED
        BY <3>1, <3>3, <4>2 DEF IInv
    <3>4. CASE ~running
      <4>1. dht_init
        BY <2>2, <3>4 DEF Next, dht_uninit, Tick, dht_periodic_idle, search_asks, dht_periodic,
                          dht_insert_node, dht_periodic_broken
      <4>2. running' = TRUE /\ buckets' = Empty /\ mybucket_grow' = 0 /\ recursing' = recursing
        BY <4>1 DEF dht_init
      <4>3. Tabled(buckets')
        BY <4>2, EmptyTabled
      <4>4. mybucket_grow' \in Age
        BY <4>2, NodeFacts
      <4> QED
        BY <3>1, <4>2, <4>3, <4>4 DEF IInv
    <3> QED
      BY <3>2, <3>3, <3>4 DEF IInv
  <2> QED
    BY <2>1, <2>2
<1> QED
  BY <1>1, <1>2, PTL DEF Spec

\* Every variable of the table has its type.
THEOREM TypeCorrect == Spec => []TypeOK
<1>1. IInv => TypeOK
  <2> SUFFICES ASSUME IInv PROVE TypeOK
    OBVIOUS
  <2>1. ASSUME NEW i \in DOMAIN buckets
        PROVE  /\ buckets[i].first \in Id /\ buckets[i].time \in Age
               /\ buckets[i].cached \in Addr \cup {NoAddr}
               /\ buckets[i].count \in 0..K
               /\ \A p \in DOMAIN buckets[i].nodes : buckets[i].nodes[p] \in Node
    <3>1. Tabled(buckets)
      BY <2>1 DEF IInv
    <3>2. i \in 1..Len(buckets)
      BY <2>1, <3>1 DEF Tabled
    <3>3. /\ buckets[i] \in Bucket /\ buckets[i].count = Len(buckets[i].nodes)
          /\ NodeList(buckets[i].nodes, buckets[i].first, UpTo(buckets, i))
      BY <3>1, <3>2, BucketFacts
    <3>4. buckets[i].first \in Id /\ buckets[i].time \in Age /\ buckets[i].cached \in Addr \cup {NoAddr}
      BY <3>3 DEF Bucket
    <3>5. buckets[i].nodes \in Seq(Node) /\ Len(buckets[i].nodes) <= K
      BY <3>3 DEF NodeList
    <3>6. \A p \in DOMAIN buckets[i].nodes : buckets[i].nodes[p] \in Node
      BY <3>5
    <3>7. buckets[i].count \in 0..K
      BY <3>3, <3>5, TableAssumption
    <3> QED
      BY <3>4, <3>6, <3>7
  <2> QED
    BY <2>1 DEF IInv, TypeOK
<1> QED
  BY <1>1, InvariantHolds, PTL

\* However nodes come, are asked, fail and are replaced, and buckets are split, the table is a partition
\* of the ids, and new_node does not call itself without end.
THEOREM TablePartitioned == Spec => []TableIsPartition
<1>1. IInv => TableIsPartition
  <2> SUFFICES ASSUME IInv, running PROVE TableIsPartition
    BY DEF TableIsPartition
  <2>1. Tabled(buckets) /\ ~recursing
    BY DEF IInv
  <2>2. /\ buckets \in Seq(Bucket) /\ Len(buckets) \in Nat /\ DOMAIN buckets = 1..Len(buckets)
        /\ buckets[1].first = 0
    BY <2>1 DEF Tabled
  <2>3. ASSUME NEW i \in 1..Len(buckets)-1 PROVE buckets[i].first < buckets[i + 1].first
    <3>1. i \in 1..Len(buckets) /\ i + 1 \in 1..Len(buckets) /\ i < i + 1
      BY <2>2
    <3> QED
      BY <2>1, <3>1 DEF Tabled
  <2>4. ASSUME NEW i \in DOMAIN buckets
        PROVE  /\ buckets[i].count = Len(buckets[i].nodes) /\ buckets[i].count <= K
               /\ \A p \in DOMAIN buckets[i].nodes :
                    LET n == buckets[i].nodes[p]
                    IN /\ in_bucket(n.id, buckets, i) /\ n.id # myid
                       /\ \A q \in DOMAIN buckets[i].nodes : buckets[i].nodes[q].id = n.id => q = p
    <3> DEFINE ns == buckets[i].nodes
    <3>1. i \in 1..Len(buckets)
      BY <2>2
    <3>2. buckets[i].count = Len(ns) /\ NodeList(ns, buckets[i].first, UpTo(buckets, i))
      BY <2>1, <3>1, BucketFacts
    <3> HIDE DEF ns
    <3>3. Len(ns) <= K /\ DOMAIN ns = 1..Len(ns)
      BY <3>2 DEF NodeList
    <3>4. ASSUME NEW p \in DOMAIN ns
          PROVE  /\ in_bucket(ns[p].id, buckets, i) /\ ns[p].id # myid
                 /\ \A q \in DOMAIN ns : ns[q].id = ns[p].id => q = p
      <4>1. buckets[i].first <= ns[p].id /\ ns[p].id < UpTo(buckets, i) /\ ns[p].id # myid
        BY <3>2, <3>3 DEF NodeList
      <4>2. \A q \in DOMAIN ns : ns[q].id = ns[p].id => q = p
        BY <3>2, <3>3 DEF NodeList
      <4>3. in_bucket(ns[p].id, buckets, i)
        BY <4>1 DEF in_bucket, UpTo
      <4> QED
        BY <4>1, <4>2, <4>3
    <3> QED
      BY <3>2, <3>3, <3>4 DEF ns
  <2> QED
    BY <2>1, <2>2, <2>3, <2>4 DEF TableIsPartition
<1> QED
  BY <1>1, InvariantHolds, PTL

\* A node that answers is not pushed out, by however many others.
THEOREM SilentNodesLeave == Spec => OnlySilentNodesLeave
<1> DEFINE Blamed(n) == \E c \in Contact : c.id = n.id /\ ~node_blacklisted(c.addr)
                                           /\ node_blacklisted(c.addr)'
           A == running /\ running' =>
                  \A n \in Nodes(buckets) :
                    n.id \notin Ids(buckets') =>
                      \/ n.pinged >= 3
                      \/ \E c \in Contact : c.id = n.id /\ ~node_blacklisted(c.addr)
                                           /\ node_blacklisted(c.addr)'
<1>1. IInv /\ [Next]_vars => [A]_vars
  <2> SUFFICES ASSUME IInv, Next, running, running', NEW n \in Nodes(buckets),
                      n.id \notin Ids(buckets'), ~(n.pinged >= 3)
               PROVE  Blamed(n)
    OBVIOUS
  <2>1. n \in Node /\ n.pinged \in 0..4
    BY TableGood, NodeFacts
  <2>2. ASSUME NEW X, NextTable(X) PROVE n.id \in X
    <3> SUFFICES ASSUME n.id \notin X PROVE FALSE
      OBVIOUS
    <3>1. n \in Safe(X)
      BY <2>1 DEF Safe
    <3>2. PICK m \in Nodes(buckets') : m.id = n.id
      BY <2>2, <3>1 DEF NextTable, Stays
    <3> QED
      BY <3>2 DEF Ids
  <2>3. ~(\A X : NextTable(X))
    BY <2>2
  <2>4. PICK c \in Broken : dht_periodic_broken(c) /\ NextTable({c.id})
    BY <2>3, TableStep
  <2>5. c \in Contact /\ c.id = n.id
    BY <2>2, <2>4, TableAssumption
  <2>6. ~node_blacklisted(c.addr) /\ node_blacklisted(c.addr)'
    BY <2>4, <2>5, RingStep
  <2> QED
    BY <2>5, <2>6
<1> QED
  BY <1>1, InvariantHolds, PTL DEF Spec, OnlySilentNodesLeave

\* No node gets the address of one of the last offenders, or a good name from it.
THEOREM OffendersOut == Spec => OffendersStayOut
<1> DEFINE A == running /\ running' =>
                  \A m \in Nodes(buckets') : m.addr \in Range(offenders) =>
                    \E n \in Nodes(buckets) :
                      n.id = m.id /\ n.addr = m.addr /\ m.reply_time >= n.reply_time
<1>1. IInv /\ [Next]_vars => [A]_vars
  <2> SUFFICES ASSUME IInv, Next, running, running', NEW m \in Nodes(buckets'),
                      m.addr \in Range(offenders)
               PROVE  \E n \in Nodes(buckets) :
                        n.id = m.id /\ n.addr = m.addr /\ m.reply_time >= n.reply_time
    OBVIOUS
  <2>1. m.addr \in Listed
    BY OffendersListed
  <2>2. PICK X : NextTable(X)
    BY TableStep
  <2>3. NoNew(Nodes(buckets), Nodes(buckets'), Listed)
    BY <2>2 DEF NextTable, Stays
  <2> QED
    BY <2>1, <2>3 DEF NoNew
<1> QED
  BY <1>1, InvariantHolds, PTL DEF Spec, OffendersStayOut

(***************************************************************************)
(* Distances                                                               *)
(***************************************************************************)
\* The first k bits of an id.
Prefix(x, k) == x \div Pow2[Bits - k]

\* One bit more.
LEMMA PrefixNext ==
  ASSUME NEW x \in Id, NEW k \in 0..Bits-1
  PROVE  /\ Prefix(x, k) \in Nat /\ Bit(x, k) \in 0..1
         /\ Prefix(x, k + 1) = 2 * Prefix(x, k) + Bit(x, k)
<1> DEFINE w == Pow2[Bits - 1 - k]
           a == x \div w
<1>1. Bits \in Nat /\ Bits - k \in 1..Bits /\ (Bits - k) - 1 = Bits - 1 - k /\ Bits - (k + 1) = Bits - 1 - k
      /\ Bits - 1 - k \in 0..Bits
  BY TableAssumption
<1>2. w \in Nat /\ w > 0 /\ Pow2[Bits - k] = 2 * w
  BY <1>1, Pow2Nat, Pow2Unfold
<1>3. x \in Nat
  BY Pow2Nat DEF Id
<1>4. Prefix(x, k) = x \div (2 * w) /\ Prefix(x, k + 1) = a /\ Bit(x, k) = a % 2
  BY <1>1, <1>2 DEF Prefix, Bit
<1> HIDE DEF w
<1>5. a \in Nat
  BY <1>2, <1>3
<1>6. a \div 2 = x \div (2 * w)
  BY <1>2, <1>3
<1> HIDE DEF a
<1>7. a % 2 = a - 2 * (a \div 2) /\ a % 2 \in 0..1 /\ a \div 2 \in Nat
  BY <1>5
<1> QED
  BY <1>4, <1>5, <1>6, <1>7

\* The prefix of no bit and of all bits.
LEMMA PrefixEnds ==
  ASSUME NEW x \in Id
  PROVE  Prefix(x, 0) = 0 /\ Prefix(x, Bits) = x
<1>1. Bits \in Nat /\ Bits - 0 = Bits /\ Bits - Bits = 0
  BY TableAssumption
<1> DEFINE w == Pow2[Bits]
<1>2. w \in Nat /\ w > 0 /\ Pow2[0] = 1
  BY <1>1, Pow2Nat, Pow2Unfold
<1>3. x \in Nat /\ x < w
  BY <1>2 DEF Id
<1>4. Prefix(x, 0) = x \div w /\ Prefix(x, Bits) = x \div 1
  BY <1>1, <1>2 DEF Prefix
<1> HIDE DEF w
<1>5. x \div w = 0 /\ x \div 1 = x
  BY <1>2, <1>3
<1> QED
  BY <1>4, <1>5

\* Ids with the same bits have the same prefix.
LEMMA SamePrefix ==
  ASSUME NEW x \in Id, NEW y \in Id, NEW n \in 0..Bits, \A j \in 0..n-1 : Bit(x, j) = Bit(y, j)
  PROVE  Prefix(x, n) = Prefix(y, n)
<1> DEFINE T == {k \in 0..n : Prefix(x, k) = Prefix(y, k)}
<1>1. Bits \in Nat /\ n \in Nat
  BY TableAssumption
<1>2. 0 \in T
  BY <1>1, PrefixEnds
<1>3. ASSUME NEW k \in 0..n, k \in T, k < n PROVE k + 1 \in T
  <2>1. k \in 0..Bits-1 /\ k \in 0..n-1 /\ k + 1 \in 0..n
    BY <1>1, <1>3
  <2>2. /\ Prefix(x, k + 1) = 2 * Prefix(x, k) + Bit(x, k)
        /\ Prefix(y, k + 1) = 2 * Prefix(y, k) + Bit(y, k)
    BY <2>1, PrefixNext
  <2>3. Prefix(x, k) = Prefix(y, k) /\ Bit(x, k) = Bit(y, k)
    BY <1>3, <2>1
  <2> QED
    BY <2>1, <2>2, <2>3
<1>4. 0..n \subseteq T
  <2> HIDE DEF T
  <2> QED
    BY <1>1, <1>2, <1>3, SetInduction
<1> QED
  BY <1>1, <1>4

\* Ids with the same prefix have the same bits.
LEMMA SameBits ==
  ASSUME NEW x \in Id, NEW y \in Id, NEW n \in 0..Bits, Prefix(x, n) = Prefix(y, n)
  PROVE  \A j \in 0..n-1 : Bit(x, j) = Bit(y, j)
<1> DEFINE T == {k \in 0..n : Prefix(x, n - k) = Prefix(y, n - k)}
<1>1. Bits \in Nat /\ n \in Nat
  BY TableAssumption
<1>2. ASSUME NEW j \in 0..n-1, Prefix(x, j + 1) = Prefix(y, j + 1)
      PROVE  Prefix(x, j) = Prefix(y, j) /\ Bit(x, j) = Bit(y, j)
  <2>1. j \in 0..Bits-1
    BY <1>1
  <2> DEFINE a == Prefix(x, j)
             b == Prefix(y, j)
             e == Bit(x, j)
             f == Bit(y, j)
  <2>2. a \in Nat /\ b \in Nat /\ e \in 0..1 /\ f \in 0..1 /\ 2 * a + e = 2 * b + f
    BY <1>2, <2>1, PrefixNext
  <2> HIDE DEF a, b, e, f
  <2>3. a = b /\ e = f
    BY <2>2
  <2> QED
    BY <2>3 DEF a, b, e, f
<1>3. 0 \in T
  <2>1. n - 0 = n /\ 0 \in 0..n
    BY <1>1
  <2> QED
    BY <2>1
<1>4. ASSUME NEW k \in 0..n, k \in T, k < n PROVE k + 1 \in T
  <2>1. n - (k + 1) \in 0..n-1 /\ (n - (k + 1)) + 1 = n - k /\ k + 1 \in 0..n
    BY <1>1, <1>4
  <2>2. Prefix(x, n - k) = Prefix(y, n - k)
    BY <1>4
  <2>3. Prefix(x, n - (k + 1)) = Prefix(y, n - (k + 1))
    BY <1>2, <2>1, <2>2
  <2> QED
    BY <2>1, <2>3
<1>5. 0..n \subseteq T
  <2> HIDE DEF T
  <2> QED
    BY <1>1, <1>3, <1>4, SetInduction
<1> SUFFICES ASSUME NEW j \in 0..n-1 PROVE Bit(x, j) = Bit(y, j)
  OBVIOUS
<1>6. n - (j + 1) \in 0..n /\ n - (n - (j + 1)) = j + 1
  BY <1>1
<1>7. Prefix(x, j + 1) = Prefix(y, j + 1)
  BY <1>5, <1>6
<1> QED
  BY <1>2, <1>7

\* Ids with different prefixes differ in a first bit.
LEMMA FirstDifference ==
  ASSUME NEW x \in Id, NEW y \in Id, NEW n \in 0..Bits, Prefix(x, n) # Prefix(y, n)
  PROVE  \E k \in 0..n-1 : Bit(x, k) # Bit(y, k) /\ \A j \in 0..k-1 : Bit(x, j) = Bit(y, j)
<1> DEFINE I == {k \in 0..n-1 : Bit(x, k) # Bit(y, k)}
<1>1. I \in SUBSET Nat /\ I # {} /\ n \in Nat
  BY SamePrefix, TableAssumption
<1>2. PICK k \in I : \A j \in I : k <= j
  <2> HIDE DEF I
  <2> QED
    BY <1>1, LeastNumber
<1>3. k \in 0..n-1 /\ Bit(x, k) # Bit(y, k)
  OBVIOUS
<1>4. ASSUME NEW j \in 0..k-1 PROVE Bit(x, j) = Bit(y, j)
  <2>1. j \in 0..n-1 /\ ~(k <= j)
    BY <1>1, <1>3
  <2> QED
    BY <1>2, <2>1
<1> QED
  BY <1>3, <1>4

\* The distance of the first k bits, as a function that is known to exist.
DistanceAs(f, x, y) ==
  /\ f[0] = 0
  /\ \A k \in 0..Bits : f[k] \in Nat
  /\ \A k \in 1..Bits : f[k] = 2 * f[k - 1] + (IF Bit(x, k - 1) = Bit(y, k - 1) THEN 0 ELSE 1)

\* What the recursion of Distance computes.
LEMMA DistanceUnfold ==
  ASSUME NEW x \in Id, NEW y \in Id
  PROVE  \E f : DistanceAs(f, x, y) /\ Distance[x][y] = f[Bits]
<1> DEFINE N == Bits
           A == Nat
           e == 0
           D(k) == IF Bit(x, k - 1) = Bit(y, k - 1) THEN 0 ELSE 1
           F == [k \in 1..N |-> [v \in A |-> 2 * v + D(k)]]
           G(u) == [k \in 0..N |-> IF k = 0 THEN e ELSE 2 * u[k - 1] + D(k)]
           first == CHOOSE u : u = G(u)
<1>1. N \in Nat /\ e \in A /\ \A k \in 1..N : D(k) \in 0..1
  BY TableAssumption
<1>2. F \in [1..N -> [A -> A]]
  <2> HIDE DEF D
  <2> QED
    BY <1>1
<1>3. PICK f : Recurs(f, N, A, e, F)
  <2> HIDE DEF F, N, A, e, G, first
  <2> QED
    BY <1>1, <1>2, Recursion
<1>4. f \in [0..N -> A] /\ f[0] = e /\ \A k \in 1..N : f[k] = F[k][f[k - 1]]
  BY <1>3 DEF Recurs
<1>5. \A k \in 1..N : k - 1 \in 0..N /\ f[k - 1] \in A
  <2> HIDE DEF F, N, G, first, A, e
  <2>1. \A k \in 1..N : k - 1 \in 0..N
    BY <1>1
  <2> QED
    BY <2>1, <1>4
<1>6. \A k \in 1..N : f[k] = 2 * f[k - 1] + D(k)
  <2> HIDE DEF A, N, e, D
  <2> QED
    BY <1>4, <1>5
<1>7. f = G(f)
  <2> HIDE DEF N, e, A, F, D
  <2>1. ASSUME NEW k \in 0..N PROVE f[k] = G(f)[k]
    <3>1. CASE k = 0
      BY <1>4, <3>1
    <3>2. CASE k # 0
      <4>1. k \in 1..N
        BY <3>2, <1>1
      <4> QED
        BY <1>6, <3>2, <4>1
    <3> QED
      BY <3>1, <3>2
  <2> QED
    BY <1>4, <2>1
<1>8. first = G(first)
  <2> HIDE DEF G
  <2> QED
    BY <1>7
<1>9. Distance[x][y] = first[N]
  BY DEF Distance
<1> HIDE DEF first
<1>10. first[0] = e /\ \A k \in 1..N : first[k] = 2 * first[k - 1] + D(k)
  <2> DEFINE g == G(first)
  <2>1. \A k \in 0..N : g[k] = IF k = 0 THEN e ELSE 2 * first[k - 1] + D(k)
    OBVIOUS
  <2>2. first = g
    BY <1>8
  <2>3. 0 \in 0..N /\ \A k \in 1..N : k \in 0..N /\ k # 0
    BY <1>1
  <2> HIDE DEF g, N, e, D
  <2> QED
    BY <2>1, <2>2, <2>3
<1> DEFINE T == {k \in 0..N : first[k] \in Nat}
<1>11. 0..N \subseteq T
  <2> HIDE DEF N, F, G, D
  <2>1. 0 \in T
    BY <1>1, <1>10
  <2>2. ASSUME NEW k \in 0..N, k \in T, k < N PROVE k + 1 \in T
    <3>1. k + 1 \in 1..N /\ k + 1 \in 0..N /\ (k + 1) - 1 = k
      BY <1>1, <2>2
    <3>2. first[k + 1] = 2 * first[k] + D(k + 1) /\ D(k + 1) \in 0..1
      BY <1>1, <1>10, <3>1
    <3> QED
      BY <2>2, <3>1, <3>2
  <2> HIDE DEF T
  <2> QED
    BY <1>1, <2>1, <2>2, SetInduction
<1>12. DistanceAs(first, x, y)
  BY <1>10, <1>11 DEF DistanceAs
<1> QED
  BY <1>9, <1>12

\* The closer of two ids is the one at the smaller distance.
LEMMA CloserDistance ==
  ASSUME NEW x \in Id, NEW y \in Id, NEW id \in Id, CloserTo(x, y, id)
  PROVE  Distance[x][id] < Distance[y][id]
<1>1. Bits \in Nat
  BY TableAssumption
<1>2. PICK f : DistanceAs(f, x, id) /\ Distance[x][id] = f[Bits]
  BY DistanceUnfold
<1>3. PICK g : DistanceAs(g, y, id) /\ Distance[y][id] = g[Bits]
  BY DistanceUnfold
<1>4. PICK k \in 0..Bits-1 : /\ Bit(x, k) # Bit(y, k) /\ Bit(x, k) = Bit(id, k)
                             /\ \A j \in 0..k-1 : Bit(x, j) = Bit(y, j)
  BY DEF CloserTo
<1> DEFINE D(z, j) == IF Bit(z, j) = Bit(id, j) THEN 0 ELSE 1
<1>5. /\ f[0] = 0 /\ g[0] = 0 /\ \A j \in 0..Bits : f[j] \in Nat /\ g[j] \in Nat
      /\ \A j \in 1..Bits : f[j] = 2 * f[j - 1] + D(x, j - 1) /\ g[j] = 2 * g[j - 1] + D(y, j - 1)
  BY <1>2, <1>3 DEF DistanceAs
<1>6. \A j \in 0..Bits-1 : D(x, j) \in 0..1 /\ D(y, j) \in 0..1
  OBVIOUS
<1>7. D(x, k) = 0 /\ D(y, k) = 1 /\ \A j \in 0..k-1 : D(x, j) = D(y, j)
  BY <1>4
<1> HIDE DEF D
<1> DEFINE S == {j \in 0..k : f[j] = g[j]}
<1>8. 0..k \subseteq S
  <2>1. k \in Nat
    BY <1>1
  <2>2. 0 \in S
    BY <1>5, <2>1
  <2>3. ASSUME NEW j \in 0..k, j \in S, j < k PROVE j + 1 \in S
    <3>1. j + 1 \in 0..k /\ j + 1 \in 1..Bits /\ (j + 1) - 1 = j /\ j \in 0..k-1
      BY <1>1, <2>1, <2>3
    <3>2. f[j + 1] = 2 * f[j] + D(x, j) /\ g[j + 1] = 2 * g[j] + D(y, j)
      BY <1>5, <3>1
    <3> QED
      BY <1>7, <2>3, <3>1, <3>2
  <2> HIDE DEF S
  <2> QED
    BY <2>1, <2>2, <2>3, SetInduction
<1> DEFINE M == Bits - (k + 1)
           T == {m \in 0..M : f[(k + 1) + m] < g[(k + 1) + m]}
<1>9. M \in Nat /\ (k + 1) + M = Bits
  BY <1>1
<1>10. 0..M \subseteq T
  <2>1. 0 \in T
    <3>1. k \in 0..k /\ k + 1 \in 1..Bits /\ (k + 1) - 1 = k /\ (k + 1) + 0 = k + 1 /\ k \in 0..Bits /\ 0 \in 0..M
      BY <1>1, <1>9
    <3>2. f[k + 1] = 2 * f[k] + 0 /\ g[k + 1] = 2 * g[k] + 1 /\ f[k] \in Nat /\ f[k] = g[k]
      BY <1>5, <1>7, <1>8, <3>1
    <3>3. f[k + 1] < g[k + 1]
      BY <3>2
    <3> QED
      BY <3>1, <3>3
  <2>2. ASSUME NEW m \in 0..M, m \in T, m < M PROVE m + 1 \in T
    <3> DEFINE j == (k + 1) + m
    <3>1. /\ j \in 0..Bits /\ j + 1 \in 1..Bits /\ (j + 1) - 1 = j /\ j \in 0..Bits-1
          /\ (k + 1) + (m + 1) = j + 1 /\ m + 1 \in 0..M
      BY <1>1, <2>2
    <3>2. f[j] < g[j]
      BY <2>2
    <3> HIDE DEF j
    <3>3. f[j + 1] = 2 * f[j] + D(x, j) /\ g[j + 1] = 2 * g[j] + D(y, j) /\ f[j] \in Nat /\ g[j] \in Nat
      BY <1>5, <3>1
    <3>4. D(x, j) \in 0..1 /\ D(y, j) \in 0..1
      BY <1>6, <3>1
    <3>5. f[j + 1] < g[j + 1]
      BY <3>2, <3>3, <3>4
    <3> QED
      BY <3>1, <3>5
  <2> HIDE DEF T, M
  <2> QED
    BY <1>9, <2>1, <2>2, SetInduction
<1>11. M \in T
  BY <1>9, <1>10
<1> QED
  BY <1>2, <1>3, <1>9, <1>11

\* Distances are numbers, different ids have different ones, and CloserTo compares them.
LEMMA DistanceOrder ==
  ASSUME NEW x \in Id, NEW y \in Id, NEW id \in Id
  PROVE  /\ Distance[x][id] \in Nat
         /\ Distance[x][id] = Distance[y][id] => x = y
         /\ CloserTo(x, y, id) <=> Distance[x][id] < Distance[y][id]
<1>1. ASSUME NEW z \in Id PROVE Distance[z][id] \in Nat
  <2>1. PICK f : DistanceAs(f, z, id) /\ Distance[z][id] = f[Bits]
    BY DistanceUnfold
  <2>2. Bits \in 0..Bits
    BY TableAssumption
  <2> QED
    BY <2>1, <2>2 DEF DistanceAs
<1>2. ASSUME x # y PROVE CloserTo(x, y, id) \/ CloserTo(y, x, id)
  <2>1. Bits \in 0..Bits /\ Prefix(x, Bits) # Prefix(y, Bits)
    BY <1>2, PrefixEnds, TableAssumption
  <2>2. PICK k \in 0..Bits-1 : Bit(x, k) # Bit(y, k) /\ \A j \in 0..k-1 : Bit(x, j) = Bit(y, j)
    BY <2>1, FirstDifference
  <2>3. Bit(x, k) \in 0..1 /\ Bit(y, k) \in 0..1 /\ Bit(id, k) \in 0..1
    BY PrefixNext
  <2>4. Bit(x, k) = Bit(id, k) \/ Bit(y, k) = Bit(id, k)
    BY <2>2, <2>3
  <2> QED
    BY <2>2, <2>4 DEF CloserTo
<1> DEFINE a == Distance[x][id]
           b == Distance[y][id]
<1>3. a \in Nat /\ b \in Nat
  BY <1>1
<1>4. (CloserTo(x, y, id) => a < b) /\ (CloserTo(y, x, id) => b < a)
  BY CloserDistance
<1>5. x = y => a = b
  OBVIOUS
<1> HIDE DEF a, b
<1>6. (a = b => x = y) /\ (CloserTo(x, y, id) <=> a < b)
  BY <1>2, <1>3, <1>4, <1>5
<1> QED
  BY <1>3, <1>6 DEF a, b

\* The ids of an aligned range are closer to each other than any id outside.
LEMMA InsideCloser ==
  ASSUME NEW lo, NEW hi, NEW d, Dyadic(lo, hi, d), NEW id \in Id, NEW x \in Id, NEW y \in Id,
         lo <= id, id < hi, lo <= x, x < hi, ~(lo <= y /\ y < hi)
  PROVE  Distance[x][id] < Distance[y][id]
<1> DEFINE w == Pow2[Bits - d]
<1>1. d \in 0..Bits /\ w \in Nat /\ w > 0 /\ hi = lo + w
  BY DyadicFacts DEF Dyadic
<1>2. PICK a \in Nat : lo = a * w
  BY DEF Dyadic
<1>3. id \in Nat /\ x \in Nat /\ y \in Nat
  BY Pow2Nat DEF Id
<1>4. Prefix(id, d) = id \div w /\ Prefix(x, d) = x \div w /\ Prefix(y, d) = y \div w
  BY DEF Prefix
<1> HIDE DEF w
<1>5. ASSUME NEW z \in Nat, lo <= z, z < hi PROVE z \div w = a
  <2>1. a * w <= z /\ z < a * w + w
    BY <1>1, <1>2, <1>5
  <2> QED
    BY <1>1, <2>1
<1>6. y \div w # a
  <2> SUFFICES ASSUME y \div w = a PROVE FALSE
    OBVIOUS
  <2>1. y % w = y - w * (y \div w) /\ y % w \in 0..w-1
    BY <1>1, <1>3
  <2>2. y % w = y - w * a /\ w * a = a * w
    BY <1>1, <2>1
  <2> DEFINE r == y % w
             v == a * w
  <2>3. r \in 0..w-1 /\ r = y - v /\ lo = v /\ hi = v + w /\ v \in Nat
    BY <1>1, <1>2, <2>1, <2>2
  <2> HIDE DEF r, v
  <2> QED
    BY <1>1, <1>3, <2>3
<1>7. Prefix(x, d) = Prefix(id, d) /\ Prefix(x, d) # Prefix(y, d)
  BY <1>3, <1>4, <1>5, <1>6
<1>8. PICK k \in 0..d-1 : Bit(x, k) # Bit(y, k) /\ \A j \in 0..k-1 : Bit(x, j) = Bit(y, j)
  BY <1>1, <1>7, FirstDifference
<1>9. Bit(x, k) = Bit(id, k)
  BY <1>1, <1>7, SameBits
<1>10. k \in 0..Bits-1
  BY <1>1, TableAssumption
<1>11. CloserTo(x, y, id)
  BY <1>8, <1>9, <1>10 DEF CloserTo
<1> QED
  BY <1>11, CloserDistance

(***************************************************************************)
(* Replies                                                                 *)
(***************************************************************************)
\* n stands at i, before what r has there.
Squeezed(all, r, n, i) ==
  /\ all \in Seq(Node) /\ Len(all) = Len(r) + 1
  /\ \A j \in 1..i-1 : all[j] = r[j]
  /\ all[i] = n
  /\ \A j \in i+1..Len(r)+1 : all[j] = r[j - 1]

\* Who is where when a node is put into a list.
LEMMA SqueezedFacts ==
  ASSUME NEW r \in Seq(Node), NEW n \in Node, NEW i \in 1..Len(r)+1
  PROVE  Squeezed(SubSeq(r, 1, i - 1) \o <<n>> \o SubSeq(r, i, Len(r)), r, n, i)
<1> DEFINE u == SubSeq(r, 1, i - 1)
           v == <<n>>
           w == SubSeq(r, i, Len(r))
           l == Len(r)
           x == u \o v
           all == x \o w
<1>1. l \in Nat /\ i \in Nat /\ i <= l + 1 /\ i >= 1
  OBVIOUS
<1>2. u \in Seq(Node) /\ Len(u) = i - 1 /\ \A j \in 1..i-1 : u[j] = r[j]
  OBVIOUS
<1>3. v \in Seq(Node) /\ Len(v) = 1 /\ v[1] = n
  OBVIOUS
<1>4. w \in Seq(Node) /\ Len(w) = (l + 1) - i /\ \A j \in 1..((l + 1) - i) : w[j] = r[(i + j) - 1]
  <2>1. CASE i = l + 1
    <3>1. w = <<>> /\ (l + 1) - i = 0
      BY <1>1, <2>1
    <3> QED
      BY <3>1
  <2>2. CASE i # l + 1
    <3>1. i \in 1..l
      BY <1>1, <2>2
    <3> QED
      BY <3>1
  <2> QED
    BY <2>1, <2>2
<1> HIDE DEF u, v, w, l
<1>5. x \in Seq(Node) /\ Len(x) = i /\ (\A j \in 1..i-1 : x[j] = r[j]) /\ x[i] = n
  <2>1. x \in Seq(Node) /\ Len(x) = Len(u) + Len(v)
    BY <1>2, <1>3, ConcatFacts
  <2>2. \A j \in 1..Len(u) : x[j] = u[j]
    BY <1>2, <1>3, ConcatFacts
  <2>3. \A j \in 1..Len(v) : x[Len(u) + j] = v[j]
    <3>1. u \in Seq(Node) /\ v \in Seq(Node)
      BY <1>2, <1>3
    <3> QED
      BY <3>1, ConcatFacts
  <2>4. 1 \in 1..Len(v) /\ Len(u) + 1 = i /\ Len(u) + Len(v) = i
    BY <1>1, <1>2, <1>3
  <2> QED
    BY <1>2, <1>3, <2>1, <2>2, <2>3, <2>4
<1> HIDE DEF x
<1>6. all \in Seq(Node) /\ Len(all) = Len(x) + Len(w) /\ (\A j \in 1..Len(x) : all[j] = x[j])
      /\ \A j \in 1..Len(w) : all[Len(x) + j] = w[j]
  <2>1. x \in Seq(Node) /\ w \in Seq(Node)
    BY <1>4, <1>5
  <2> QED
    BY <2>1, ConcatFacts
<1> HIDE DEF all
<1>7. Len(all) = l + 1
  BY <1>1, <1>4, <1>5, <1>6
<1>8. i \in 1..Len(x) /\ \A j \in 1..i-1 : j \in 1..Len(x)
  BY <1>1, <1>5
<1>9. ASSUME NEW j \in i+1..l+1 PROVE all[j] = r[j - 1]
  <2> DEFINE k == j - i
  <2>1. k \in 1..((l + 1) - i) /\ j = i + k /\ (i + k) - 1 = j - 1
    BY <1>1
  <2> HIDE DEF k
  <2>2. all[i + k] = w[k]
    BY <2>1, <1>4, <1>5, <1>6
  <2> QED
    BY <2>1, <2>2, <1>4
<1> QED
  BY <1>5, <1>6, <1>7, <1>8, <1>9 DEF Squeezed, all, x, u, v, w, l

\* Where a node is put: before the first that is farther, or at the end.
Place(r, n, id) ==
  LET p == SelectInSeq(r, LAMBDA m : m.id = n.id \/ CloserTo(n.id, m.id, id))
  IN IF p = 0 THEN Len(r) + 1 ELSE p

\* It is a place in the list.
LEMMA PlaceFacts ==
  ASSUME NEW r \in Seq(Node), NEW n \in Node, NEW id
  PROVE  LET i == Place(r, n, id)
             P(m) == m.id = n.id \/ CloserTo(n.id, m.id, id)
         IN  /\ i \in 1..Len(r)+1
             /\ i <= Len(r) => P(r[i])
             /\ \A j \in 1..i-1 : ~P(r[j])
<1> DEFINE P(m) == m.id = n.id \/ CloserTo(n.id, m.id, id)
           I == {q \in 1..Len(r) : P(r[q])}
           i == Place(r, n, id)
<1>1. i = LET p == IF I # {} THEN Min(I) ELSE 0 IN IF p = 0 THEN Len(r) + 1 ELSE p
  BY DEF Place, SelectInSeq
<1>2. Len(r) \in Nat
  OBVIOUS
<1>3. I # {} => Min(I) \in I /\ \A k \in I : Min(I) <= k
  <2>1. I \in SUBSET (1..Len(r))
    OBVIOUS
  <2> HIDE DEF I
  <2> QED
    BY <1>2, <2>1, MinFacts
<1>4. CASE I = {}
  <2>1. i = Len(r) + 1
    BY <1>1, <1>4
  <2>2. \A j \in 1..Len(r) : ~P(r[j])
    BY <1>4
  <2> HIDE DEF i, P, I
  <2>3. \A j \in 1..i-1 : ~P(r[j])
    BY <1>2, <2>1, <2>2
  <2>4. i \in 1..Len(r)+1 /\ ~(i <= Len(r))
    BY <1>2, <2>1
  <2> QED
    BY <2>3, <2>4 DEF i, P
<1>5. CASE I # {}
  <2>1. Min(I) \in 1..Len(r) /\ P(r[Min(I)]) /\ \A k \in I : Min(I) <= k
    BY <1>3, <1>5
  <2>2. i = Min(I)
    <3> HIDE DEF I
    <3> QED
      BY <1>1, <1>2, <1>5, <2>1
  <2>3. ASSUME NEW j \in 1..i-1 PROVE ~P(r[j])
    <3> HIDE DEF i, P
    <3>1. j \in 1..Len(r) /\ ~(Min(I) <= j)
      BY <1>2, <2>1, <2>2
    <3> QED
      BY <2>1, <3>1
  <2> HIDE DEF i, P, I
  <2>4. i \in 1..Len(r)+1
    BY <1>2, <2>1, <2>2
  <2> QED
    BY <2>1, <2>2, <2>3, <2>4 DEF i, P
<1> QED
  BY <1>4, <1>5

\* The first K of a list.
LEMMA FirstK ==
  ASSUME NEW all \in Seq(Node)
  PROVE  LET r == SubSeq(all, 1, Smaller(K, Len(all)))
         IN  /\ r \in Seq(Node) /\ Len(r) = Smaller(K, Len(all)) /\ Len(r) \in Nat
             /\ Len(r) <= K /\ Len(r) <= Len(all)
             /\ \A j \in 1..Len(r) : r[j] = all[j]
<1> DEFINE k == Smaller(K, Len(all))
<1>1. k \in Nat /\ k <= K /\ k <= Len(all)
  BY TableAssumption DEF Smaller
<1> HIDE DEF k
<1>2. SubSeq(all, 1, k) \in Seq(Node) /\ Len(SubSeq(all, 1, k)) = k /\ \A j \in 1..k : SubSeq(all, 1, k)[j] = all[j]
  BY <1>1
<1> QED
  BY <1>1, <1>2 DEF k

\* insert_closest_node by the place of the new node.
LEMMA InsertIs ==
  ASSUME NEW r \in Seq(Node), NEW n \in Node, NEW id
  PROVE  LET i == Place(r, n, id)
         IN  \E all : /\ Squeezed(all, r, n, i)
                      /\ insert_closest_node(r, n, id)
                           = IF i <= Len(r) /\ r[i].id = n.id THEN r
                             ELSE SubSeq(all, 1, Smaller(K, Len(all)))
<1> DEFINE i == Place(r, n, id)
           all == SubSeq(r, 1, i - 1) \o <<n>> \o SubSeq(r, i, Len(r))
<1>1. insert_closest_node(r, n, id) = IF i <= Len(r) /\ r[i].id = n.id THEN r
                                      ELSE SubSeq(all, 1, Smaller(K, Len(all)))
  BY DEF insert_closest_node, Place
<1>2. i \in 1..Len(r)+1
  BY PlaceFacts
<1>3. Squeezed(all, r, n, i)
  <2> HIDE DEF i
  <2> QED
    BY <1>2, SqueezedFacts
<1> HIDE DEF i, all
<1> QED
  BY <1>1, <1>3 DEF i

\* It returns a list.
LEMMA InsertTyped ==
  ASSUME NEW r \in Seq(Node), NEW n \in Node, NEW id
  PROVE  insert_closest_node(r, n, id) \in Seq(Node)
<1> DEFINE i == Place(r, n, id)
<1>1. PICK all : /\ Squeezed(all, r, n, i)
                 /\ insert_closest_node(r, n, id)
                      = IF i <= Len(r) /\ r[i].id = n.id THEN r
                        ELSE SubSeq(all, 1, Smaller(K, Len(all)))
  BY InsertIs
<1> HIDE DEF i
<1>2. all \in Seq(Node)
  BY <1>1 DEF Squeezed
<1>3. SubSeq(all, 1, Smaller(K, Len(all))) \in Seq(Node)
  BY <1>2, FirstK
<1> QED
  BY <1>1, <1>3

\* r has the K nodes of S that are closest to id, or all of them, in the order of their distance.
Ranked(r, S, id) ==
  /\ r \in Seq(Node) /\ Len(r) <= K
  /\ \A p, q \in 1..Len(r) : p < q => Distance[r[p].id][id] < Distance[r[q].id][id]
  /\ \A p \in 1..Len(r) : r[p] \in S
  /\ \A n \in S : \/ \E p \in 1..Len(r) : r[p] = n
                  \/ Len(r) = K /\ Distance[r[K].id][id] < Distance[n.id][id]

\* One node more.
LEMMA InsertRanked ==
  ASSUME NEW S \in SUBSET Node, NEW n \in Node, NEW id \in Id, NEW r, Ranked(r, S, id),
         \A m \in S : m.id # n.id
  PROVE  Ranked(insert_closest_node(r, n, id), S \cup {n}, id)
<1> DEFINE i == Place(r, n, id)
           D(m) == Distance[m.id][id]
           l == Len(r)
           s == insert_closest_node(r, n, id)
<1>1. r \in Seq(Node) /\ l \in Nat /\ l <= K /\ K \in Nat /\ K > 0
  BY TableAssumption DEF Ranked
<1>2. \A p \in 1..l : r[p] \in S /\ r[p] \in Node /\ r[p].id # n.id
  BY <1>1 DEF Ranked
<1>3. ASSUME NEW m \in Node PROVE D(m) \in Nat
  BY DistanceOrder, NodeFacts
<1>4. ASSUME NEW m \in Node, m.id # n.id
      PROVE  (CloserTo(n.id, m.id, id) <=> D(n) < D(m)) /\ (~CloserTo(n.id, m.id, id) => D(m) < D(n))
  <2>1. m.id \in Id /\ n.id \in Id
    BY NodeFacts
  <2>2. (CloserTo(n.id, m.id, id) <=> D(n) < D(m)) /\ D(n) # D(m)
    BY <1>4, <2>1, DistanceOrder
  <2>3. D(n) \in Nat /\ D(m) \in Nat
    BY <1>3
  <2> HIDE DEF D
  <2> QED
    BY <2>2, <2>3
<1>5. /\ i \in 1..l+1
      /\ i <= l => r[i].id = n.id \/ CloserTo(n.id, r[i].id, id)
      /\ \A j \in 1..i-1 : ~(r[j].id = n.id \/ CloserTo(n.id, r[j].id, id))
  BY <1>1, PlaceFacts
<1>6. PICK all : /\ Squeezed(all, r, n, i)
                 /\ s = IF i <= l /\ r[i].id = n.id THEN r
                        ELSE SubSeq(all, 1, Smaller(K, Len(all)))
  BY <1>1, InsertIs
<1> HIDE DEF i, s, D, l
<1>7. \A p, q \in 1..l : p < q => D(r[p]) < D(r[q])
  BY DEF Ranked, D, l
<1>8. s = SubSeq(all, 1, Smaller(K, Len(all)))
  <2>1. i <= l => i \in 1..l
    BY <1>1, <1>5
  <2> QED
    BY <1>2, <1>6, <2>1
<1>9. /\ all \in Seq(Node) /\ Len(all) = l + 1 /\ all[i] = n
      /\ \A j \in 1..i-1 : all[j] = r[j]
      /\ \A j \in i+1..l+1 : all[j] = r[j - 1]
  BY <1>6 DEF Squeezed, l
<1>10. /\ s \in Seq(Node) /\ Len(s) = Smaller(K, l + 1) /\ Len(s) \in Nat /\ Len(s) <= K /\ Len(s) <= l + 1
       /\ \A j \in 1..Len(s) : s[j] = all[j]
  BY <1>8, <1>9, FirstK
<1>11. Len(s) = IF l < K THEN l + 1 ELSE K
  BY <1>1, <1>10 DEF Smaller
<1>12. ASSUME NEW j \in 1..i-1 PROVE j \in 1..l /\ D(r[j]) < D(n)
  <2>1. j \in 1..l
    BY <1>1, <1>5
  <2> QED
    BY <1>2, <1>4, <1>5, <2>1
<1>13. ASSUME NEW j \in i..l PROVE j \in 1..l /\ D(n) < D(r[j])
  <2>1. j \in 1..l /\ i \in 1..l /\ i <= l /\ (i = j \/ i < j)
    BY <1>1, <1>5
  <2>2. D(n) < D(r[i])
    BY <1>2, <1>4, <1>5, <2>1
  <2>3. i < j => D(r[i]) < D(r[j])
    BY <1>7, <2>1
  <2>4. D(n) \in Nat /\ D(r[i]) \in Nat /\ D(r[j]) \in Nat
    BY <1>2, <1>3, <2>1
  <2> QED
    BY <2>1, <2>2, <2>3, <2>4
<1>14. ASSUME NEW j \in 1..l+1
       PROVE  \/ j \in 1..i-1 /\ j \in 1..l /\ all[j] = r[j]
              \/ j = i /\ all[j] = n
              \/ j \in i+1..l+1 /\ j - 1 \in i..l /\ j - 1 \in 1..l /\ all[j] = r[j - 1]
  <2>1. \/ j \in 1..i-1 /\ j \in 1..l
        \/ j = i
        \/ j \in i+1..l+1 /\ j - 1 \in i..l /\ j - 1 \in 1..l
    BY <1>1, <1>5
  <2> QED
    BY <1>9, <2>1
<1>15. \A j \in 1..l+1 : all[j] \in S \cup {n} /\ all[j] \in Node
  BY <1>2, <1>14
<1>16. ASSUME NEW p \in 1..l+1, NEW q \in 1..l+1, p < q PROVE D(all[p]) < D(all[q])
  <2>1. CASE p \in 1..i-1 /\ p \in 1..l /\ all[p] = r[p]
    <3>1. CASE q \in 1..i-1 /\ q \in 1..l /\ all[q] = r[q]
      BY <1>7, <1>16, <2>1, <3>1
    <3>2. CASE q = i /\ all[q] = n
      BY <1>12, <2>1, <3>2
    <3>3. CASE q - 1 \in i..l /\ q - 1 \in 1..l /\ all[q] = r[q - 1]
      <4>1. p < q - 1
        BY <1>5, <2>1, <3>3
      <4> QED
        BY <1>7, <2>1, <3>3, <4>1
    <3> QED
      BY <1>14, <3>1, <3>2, <3>3
  <2>2. CASE p = i /\ all[p] = n
    <3>1. q - 1 \in i..l
      BY <1>1, <1>5, <1>16, <2>2
    <3>2. all[q] = r[q - 1]
      BY <1>14, <1>16, <2>2, <3>1
    <3> QED
      BY <1>13, <2>2, <3>1, <3>2
  <2>3. CASE p \in i+1..l+1 /\ p - 1 \in 1..l /\ all[p] = r[p - 1]
    <3>1. q \in i+1..l+1 /\ q - 1 \in 1..l /\ p - 1 < q - 1
      BY <1>1, <1>5, <1>16, <2>3
    <3>2. all[q] = r[q - 1]
      BY <1>9, <3>1
    <3> QED
      BY <1>7, <2>3, <3>1, <3>2
  <2> QED
    BY <1>14, <2>1, <2>2, <2>3
<1>17. \A p, q \in 1..Len(s) : p < q => D(s[p]) < D(s[q])
  <2>1. \A p \in 1..Len(s) : p \in 1..l+1
    BY <1>1, <1>10
  <2> QED
    BY <1>10, <1>16, <2>1
<1>18. \A p \in 1..Len(s) : s[p] \in S \cup {n}
  <2>1. \A p \in 1..Len(s) : p \in 1..l+1
    BY <1>1, <1>10
  <2> QED
    BY <1>10, <1>15, <2>1
<1>19. ASSUME NEW k \in 1..l+1
       PROVE  (\E p \in 1..Len(s) : s[p] = all[k]) \/ (Len(s) = K /\ D(s[K]) < D(all[k]))
  <2>1. CASE k \in 1..Len(s)
    BY <1>10, <2>1
  <2>2. CASE k \notin 1..Len(s)
    <3>1. Len(s) = K /\ K \in 1..Len(s) /\ K \in 1..l+1 /\ K < k
      BY <1>1, <1>11, <2>2
    <3> QED
      BY <1>10, <1>16, <3>1
  <2> QED
    BY <2>1, <2>2
<1>20. ASSUME NEW m \in S \cup {n}
       PROVE  (\E p \in 1..Len(s) : s[p] = m) \/ (Len(s) = K /\ D(s[K]) < D(m))
  <2>1. CASE m = n
    BY <1>5, <1>9, <1>19, <2>1
  <2>2. CASE m \in S /\ \E p \in 1..l : r[p] = m
    <3>1. PICK p \in 1..l : r[p] = m
      BY <2>2
    <3>2. \E k \in 1..l+1 : all[k] = m
      <4>1. CASE p \in 1..i-1
        <5>1. p \in 1..l+1
          BY <1>1
        <5> QED
          BY <1>9, <3>1, <4>1, <5>1
      <4>2. CASE p \notin 1..i-1
        <5>1. p + 1 \in i+1..l+1 /\ p + 1 \in 1..l+1 /\ (p + 1) - 1 = p
          BY <1>1, <1>5, <4>2
        <5>2. all[p + 1] = r[p]
          BY <1>9, <5>1
        <5> QED
          BY <3>1, <5>1, <5>2
      <4> QED
        BY <4>1, <4>2
    <3> QED
      BY <1>19, <3>2
  <2>3. CASE m \in S /\ ~(\E p \in 1..l : r[p] = m)
    <3>1. l = K /\ D(r[K]) < D(m)
      BY <2>3 DEF Ranked, D, l
    <3>2. Len(s) = K /\ K \in 1..Len(s) /\ K \in 1..l /\ K \in 1..l+1 /\ K + 1 \in 1..l+1 /\ K < K + 1
      BY <1>1, <1>11, <3>1
    <3>3. s[K] = all[K]
      BY <1>10, <3>2
    <3>4. all[K] = r[K] \/ D(all[K]) < D(r[K])
      <4>1. CASE K \in 1..i-1
        BY <1>9, <4>1
      <4>2. CASE K \notin 1..i-1
        <5>1. K + 1 \in i+1..l+1 /\ (K + 1) - 1 = K
          BY <1>1, <1>5, <3>1, <4>2
        <5>2. all[K + 1] = r[K]
          BY <1>9, <5>1
        <5>3. D(all[K]) < D(all[K + 1])
          BY <1>16, <3>2
        <5> QED
          BY <5>2, <5>3
      <4> QED
        BY <4>1, <4>2
    <3>5. D(all[K]) \in Nat /\ D(r[K]) \in Nat /\ D(m) \in Nat
      <4>1. all[K] \in Node /\ r[K] \in Node /\ m \in Node
        BY <1>2, <1>15, <2>3, <3>2
      <4> QED
        BY <1>3, <4>1
    <3>6. D(all[K]) < D(m)
      BY <3>1, <3>4, <3>5
    <3> QED
      BY <3>2, <3>3, <3>6
  <2> QED
    BY <2>1, <2>2, <2>3
<1> QED
  BY <1>10, <1>17, <1>18, <1>20 DEF Ranked, D, s

\* The good nodes of a bucket.
Goods(b) == {n \in Range(b.nodes) : node_good(n)}

\* A bucket more.
LEMMA BufferRanked ==
  ASSUME NEW S \in SUBSET Node, NEW id \in Id, NEW r, Ranked(r, S, id),
         NEW b, NEW lo, NEW hi, NodeList(b.nodes, lo, hi),
         \A m \in S : \A n \in Range(b.nodes) : m.id # n.id
  PROVE  Ranked(buffer_closest_nodes(r, id, b), S \cup Goods(b), id)
<1> DEFINE ns == b.nodes
           N == Len(ns)
           A == Seq(Node)
           I(v, k) == IF node_good(ns[k]) THEN insert_closest_node(v, ns[k], id) ELSE v
           F == [k \in 1..N |-> [v \in A |-> I(v, k)]]
           G(u) == [k \in 0..N |-> IF k = 0 THEN r ELSE I(u[k - 1], k)]
           upto == CHOOSE u : u = G(u)
           R(k) == S \cup {n \in Node : \E p \in 1..k : n = ns[p] /\ node_good(n)}
<1>1. buffer_closest_nodes(r, id, b) = upto[N]
  BY DEF buffer_closest_nodes
<1>2. NodeList(ns, lo, hi) /\ \A m \in S : \A n \in Range(ns) : m.id # n.id
  OBVIOUS
<1>3. S \cup Goods(b) = S \cup {n \in Range(ns) : node_good(n)}
  BY DEF Goods
<1> HIDE DEF ns
<1>4. ns \in Seq(Node) /\ N \in Nat /\ r \in A /\ \A k \in 1..N : ns[k] \in Node
  BY <1>2 DEF NodeList, Ranked
<1>5. \A x : x \in Range(ns) <=> \E p \in 1..N : x = ns[p]
  BY <1>4 DEF Range
<1>6. S \cup Goods(b) = R(N)
  <2>1. ASSUME NEW x PROVE x \in S \cup Goods(b) <=> x \in R(N)
    BY <1>3, <1>4, <1>5
  <2> QED
    BY <2>1
<1>7. ASSUME NEW k \in 1..N, NEW v \in A PROVE I(v, k) \in A
  BY <1>4, InsertTyped
<1>8. F \in [1..N -> [A -> A]]
  <2> HIDE DEF I, A, N
  <2> QED
    BY <1>7
<1>9. PICK f : Recurs(f, N, A, r, F)
  <2> HIDE DEF F, N, A, G, upto
  <2> QED
    BY <1>4, <1>8, Recursion
<1>10. f \in [0..N -> A] /\ f[0] = r /\ \A k \in 1..N : f[k] = F[k][f[k - 1]]
  BY <1>9 DEF Recurs
<1>11. \A k \in 1..N : k - 1 \in 0..N /\ f[k - 1] \in A
  <2> HIDE DEF F, N, G, upto, A
  <2>1. \A k \in 1..N : k - 1 \in 0..N
    BY <1>4
  <2> QED
    BY <2>1, <1>10
<1>12. \A k \in 1..N : f[k] = I(f[k - 1], k)
  <2> HIDE DEF I, A, N
  <2> QED
    BY <1>10, <1>11
<1>13. f = G(f)
  <2> HIDE DEF N, A, F, I
  <2>1. ASSUME NEW k \in 0..N PROVE f[k] = G(f)[k]
    <3>1. CASE k = 0
      BY <1>10, <3>1
    <3>2. CASE k # 0
      <4>1. k \in 1..N
        BY <3>2, <1>4
      <4> QED
        BY <1>12, <3>2, <4>1
    <3> QED
      BY <3>1, <3>2
  <2> QED
    BY <1>10, <2>1
<1>14. upto = G(upto)
  <2> HIDE DEF G
  <2> QED
    BY <1>13
<1> HIDE DEF upto
<1>15. upto[0] = r /\ \A k \in 1..N : upto[k] = I(upto[k - 1], k)
  <2> DEFINE g == G(upto)
  <2> HIDE DEF I
  <2>1. \A k \in 0..N : g[k] = IF k = 0 THEN r ELSE I(upto[k - 1], k)
    OBVIOUS
  <2>2. upto = g
    BY <1>14
  <2>3. 0 \in 0..N /\ \A k \in 1..N : k \in 0..N /\ k # 0
    BY <1>4
  <2> HIDE DEF g, N
  <2> QED
    BY <2>1, <2>2, <2>3
<1> HIDE DEF F, G
<1> DEFINE T == {k \in 0..N : Ranked(upto[k], R(k), id)}
<1>16. 0 \in T
  <2>1. R(0) = S /\ 0 \in 0..N
    BY <1>4
  <2> HIDE DEF R
  <2> QED
    BY <1>15, <2>1
<1>17. ASSUME NEW k \in 0..N, k \in T, k < N PROVE k + 1 \in T
  <2>1. k + 1 \in 1..N /\ k + 1 \in 0..N /\ (k + 1) - 1 = k /\ ns[k + 1] \in Node
    BY <1>4, <1>17
  <2>2. upto[k + 1] = I(upto[k], k + 1)
    BY <1>15, <2>1
  <2>3. Ranked(upto[k], R(k), id) /\ R(k) \in SUBSET Node
    BY <1>17
  <2> DEFINE n == ns[k + 1]
  <2>4. \A p \in 1..k+1 : p \in 1..k \/ p = k + 1
    BY <1>4
  <2>5. \A p \in 1..k : p \in 1..k+1 /\ p \in 1..N /\ p # k + 1
    BY <1>4, <1>17
  <2>6. CASE node_good(n)
    <3>1. \A m \in R(k) : m.id # n.id
      <4> SUFFICES ASSUME NEW m \in R(k) PROVE m.id # n.id
        OBVIOUS
      <4>1. CASE m \in S
        BY <1>2, <1>5, <2>1, <4>1
      <4>2. CASE m \notin S
        <5>1. PICK p \in 1..k : m = ns[p]
          BY <4>2
        <5> QED
          BY <1>2, <2>1, <2>5, <5>1 DEF NodeList
      <4> QED
        BY <4>1, <4>2
    <3>2. R(k + 1) = R(k) \cup {n}
      <4>1. k + 1 \in 1..k+1
        BY <1>4
      <4>2. ASSUME NEW x PROVE x \in R(k + 1) <=> x \in R(k) \cup {n}
        BY <2>1, <2>4, <2>5, <2>6, <4>1
      <4> QED
        BY <4>2
    <3>3. upto[k + 1] = insert_closest_node(upto[k], n, id)
      BY <2>2, <2>6
    <3> HIDE DEF R, n
    <3>4. Ranked(upto[k + 1], R(k) \cup {n}, id)
      BY <2>1, <2>3, <3>1, <3>3, InsertRanked DEF n
    <3> QED
      BY <2>1, <3>2, <3>4
  <2>7. CASE ~node_good(n)
    <3>1. R(k + 1) = R(k)
      <4>1. ASSUME NEW x PROVE x \in R(k + 1) <=> x \in R(k)
        BY <2>4, <2>5, <2>7
      <4> QED
        BY <4>1
    <3>2. upto[k + 1] = upto[k]
      BY <2>2, <2>7
    <3> HIDE DEF R
    <3> QED
      BY <2>1, <2>3, <3>1, <3>2
  <2> QED
    BY <2>6, <2>7
<1>18. N \in T
  <2> HIDE DEF T
  <2>1. 0..N \subseteq T
    BY <1>4, <1>16, <1>17, SetInduction
  <2> QED
    BY <1>4, <2>1
<1> HIDE DEF R
<1> QED
  BY <1>1, <1>6, <1>18

\* A node has an id of its bucket.
LEMMA NodeInside ==
  ASSUME NEW bs, Tabled(bs), NEW i \in 1..Len(bs), NEW x \in Range(bs[i].nodes)
  PROVE  /\ bs[i].first <= x.id /\ x.id < UpTo(bs, i) /\ x \in Node
         /\ x.id \in Nat /\ bs[i].first \in Nat /\ UpTo(bs, i) \in Nat
<1> DEFINE ns == bs[i].nodes
<1>1. NodeList(ns, bs[i].first, UpTo(bs, i)) /\ bs[i].first \in Nat /\ UpTo(bs, i) \in Nat
  BY BucketFacts
<1>2. x \in Range(ns)
  OBVIOUS
<1> HIDE DEF ns
<1>3. ns \in Seq(Node) /\ DOMAIN ns = 1..Len(ns)
  BY <1>1 DEF NodeList
<1>4. PICK p \in 1..Len(ns) : x = ns[p]
  BY <1>2, <1>3 DEF Range
<1>5. x \in Node
  BY <1>3, <1>4
<1> QED
  BY <1>1, <1>4, <1>5, NodeFacts DEF NodeList

\* Different buckets have different ids.
LEMMA BucketsApart ==
  ASSUME NEW bs, Tabled(bs), NEW j \in 1..Len(bs), NEW k \in 1..Len(bs), j # k,
         NEW m \in Range(bs[j].nodes), NEW n \in Range(bs[k].nodes)
  PROVE  m.id # n.id
<1>1. ASSUME NEW i \in 1..Len(bs), NEW x \in Range(bs[i].nodes)
      PROVE  bs[i].first <= x.id /\ x.id < UpTo(bs, i) /\ x.id \in Nat /\ bs[i].first \in Nat /\ UpTo(bs, i) \in Nat
  BY NodeInside
<1>2. Len(bs) \in Nat
  BY DEF Tabled
<1>3. ASSUME NEW a \in 1..Len(bs), NEW b \in 1..Len(bs), a < b PROVE UpTo(bs, a) <= bs[b].first
  <2>1. a # Len(bs) /\ a + 1 \in 1..Len(bs) /\ (a + 1 = b \/ a + 1 < b)
    BY <1>2, <1>3
  <2>2. UpTo(bs, a) = bs[a + 1].first
    BY <2>1 DEF UpTo
  <2>3. a + 1 < b => bs[a + 1].first < bs[b].first
    BY <2>1 DEF Tabled
  <2>4. bs[a + 1].first \in Nat /\ bs[b].first \in Nat
    BY <2>1, BucketFacts
  <2> QED
    BY <2>1, <2>2, <2>3, <2>4
<1>4. CASE j < k
  <2>1. UpTo(bs, j) <= bs[k].first
    BY <1>3, <1>4
  <2>2. m.id < UpTo(bs, j) /\ bs[k].first <= n.id /\ m.id \in Nat /\ n.id \in Nat
        /\ UpTo(bs, j) \in Nat /\ bs[k].first \in Nat
    BY <1>1
  <2> QED
    BY <2>1, <2>2
<1>5. CASE k < j
  <2>1. UpTo(bs, k) <= bs[j].first
    BY <1>3, <1>5
  <2>2. n.id < UpTo(bs, k) /\ bs[j].first <= m.id /\ m.id \in Nat /\ n.id \in Nat
        /\ UpTo(bs, k) \in Nat /\ bs[j].first \in Nat
    BY <1>1
  <2> QED
    BY <2>1, <2>2
<1> QED
  BY <1>2, <1>4, <1>5

\* The good nodes of the bucket i, the next one and the one before.
GoodNear(i) ==
  {n \in UNION {Range(buckets[j].nodes) : j \in {i - 1, i, i + 1} \cap DOMAIN buckets} : node_good(n)}

\* A reply has the closest of the good nodes it looks at.
LEMMA SendRanked ==
  ASSUME Tabled(buckets), NEW id \in Id
  PROVE  Ranked(send_closest_nodes(id), GoodNear(find_bucket(id, buckets)), id)
<1> DEFINE i == find_bucket(id, buckets)
           l == Len(buckets)
           own  == buffer_closest_nodes(<<>>, id, buckets[i])
           next == IF i < l THEN buffer_closest_nodes(own, id, buckets[i + 1]) ELSE own
           r == IF i > 1 THEN buffer_closest_nodes(next, id, buckets[i - 1]) ELSE next
           B(j) == Goods(buckets[j])
           S2 == IF i < l THEN B(i) \cup B(i + 1) ELSE B(i)
           S3 == IF i > 1 THEN S2 \cup B(i - 1) ELSE S2
<1>1. send_closest_nodes(id) = r
  BY DEF send_closest_nodes
<1>2. i \in 1..l /\ l \in Nat /\ DOMAIN buckets = 1..l
  <2>1. i \in 1..l
    BY FindBucket
  <2> QED
    BY <2>1 DEF Tabled
<1> HIDE DEF i, l
<1>3. (i < l => i + 1 \in 1..l) /\ (i > 1 => i - 1 \in 1..l) /\ i - 1 # i /\ i + 1 # i /\ i - 1 # i + 1
  BY <1>2
<1>4. ASSUME NEW j \in 1..l
      PROVE  /\ NodeList(buckets[j].nodes, buckets[j].first, UpTo(buckets, j))
             /\ B(j) \in SUBSET Node /\ B(j) \subseteq Range(buckets[j].nodes)
  <2>1. NodeList(buckets[j].nodes, buckets[j].first, UpTo(buckets, j))
    BY BucketFacts DEF l
  <2>2. B(j) \subseteq Range(buckets[j].nodes)
    BY DEF Goods
  <2>3. \A x \in Range(buckets[j].nodes) : x \in Node
    BY NodeInside DEF l
  <2> QED
    BY <2>1, <2>2, <2>3
<1>5. ASSUME NEW j \in 1..l, NEW k \in 1..l, j # k
      PROVE  \A m \in B(j) : \A n \in Range(buckets[k].nodes) : m.id # n.id
  <2> SUFFICES ASSUME NEW m \in B(j), NEW n \in Range(buckets[k].nodes) PROVE m.id # n.id
    OBVIOUS
  <2>1. m \in Range(buckets[j].nodes)
    BY <1>4
  <2> QED
    BY <1>5, <2>1, BucketsApart DEF l
<1> HIDE DEF B
<1>6. Ranked(own, B(i), id)
  <2> DEFINE e == {}
  <2>1. Ranked(<<>>, e, id) /\ e \in SUBSET Node /\ \A m \in e : \A n \in Range(buckets[i].nodes) : m.id # n.id
    <3>1. Len(<<>>) = 0 /\ 0 <= K /\ <<>> \in Seq(Node)
      BY TableAssumption
    <3>2. \A p \in 1..0 : FALSE
      OBVIOUS
    <3> QED
      BY <3>1, <3>2 DEF Ranked
  <2>2. NodeList(buckets[i].nodes, buckets[i].first, UpTo(buckets, i))
    BY <1>2, <1>4
  <2>3. e \cup B(i) = B(i)
    OBVIOUS
  <2> HIDE DEF e
  <2>4. Ranked(own, e \cup Goods(buckets[i]), id)
    BY <2>1, <2>2, BufferRanked
  <2> QED
    BY <2>3, <2>4 DEF B
<1> HIDE DEF own
<1>7. Ranked(next, S2, id)
  <2>1. CASE i < l
    <3>1. /\ i + 1 \in 1..l /\ B(i) \in SUBSET Node /\ \A m \in B(i) : \A n \in Range(buckets[i + 1].nodes) : m.id # n.id
          /\ NodeList(buckets[i + 1].nodes, buckets[i + 1].first, UpTo(buckets, i + 1))
      BY <1>2, <1>3, <1>4, <1>5, <2>1
    <3>2. Ranked(buffer_closest_nodes(own, id, buckets[i + 1]), B(i) \cup Goods(buckets[i + 1]), id)
      BY <1>6, <3>1, BufferRanked
    <3> QED
      BY <2>1, <3>2 DEF B
  <2>2. CASE ~(i < l)
    BY <1>6, <2>2
  <2> QED
    BY <2>1, <2>2
<1> HIDE DEF next
<1>8. Ranked(r, S3, id)
  <2>1. CASE i > 1
    <3>1. i - 1 \in 1..l /\ NodeList(buckets[i - 1].nodes, buckets[i - 1].first, UpTo(buckets, i - 1))
      BY <1>2, <1>3, <1>4, <2>1
    <3>2. S2 \in SUBSET Node /\ \A m \in S2 : \A n \in Range(buckets[i - 1].nodes) : m.id # n.id
      BY <1>2, <1>3, <1>4, <1>5, <3>1
    <3> HIDE DEF S2
    <3>3. Ranked(buffer_closest_nodes(next, id, buckets[i - 1]), S2 \cup Goods(buckets[i - 1]), id)
      BY <1>7, <3>1, <3>2, BufferRanked
    <3> QED
      BY <2>1, <3>3 DEF B
  <2>2. CASE ~(i > 1)
    BY <1>7, <2>2
  <2> QED
    BY <2>1, <2>2
<1>9. S3 = GoodNear(i)
  <2>1. \A j : j \in {i - 1, i, i + 1} \cap DOMAIN buckets <=> j = i \/ (j = i + 1 /\ i < l) \/ (j = i - 1 /\ i > 1)
    BY <1>2, <1>3
  <2>2. \A j, x : x \in B(j) <=> x \in Range(buckets[j].nodes) /\ node_good(x)
    BY DEF B, Goods
  <2>3. \A x : x \in S3 <=> x \in B(i) \/ (i < l /\ x \in B(i + 1)) \/ (i > 1 /\ x \in B(i - 1))
    OBVIOUS
  <2>4. \A x : x \in GoodNear(i) <=> \E j \in {i - 1, i, i + 1} \cap DOMAIN buckets : x \in Range(buckets[j].nodes) /\ node_good(x)
    BY DEF GoodNear
  <2>5. ASSUME NEW x PROVE x \in GoodNear(i) <=> x \in S3
    <3> DEFINE P(j) == x \in Range(buckets[j].nodes) /\ node_good(x)
               J == {i - 1, i, i + 1} \cap DOMAIN buckets
    <3>1. x \in GoodNear(i) <=> \E j \in J : P(j)
      BY <2>4
    <3>2. x \in S3 <=> P(i) \/ (i < l /\ P(i + 1)) \/ (i > 1 /\ P(i - 1))
      BY <2>2, <2>3
    <3>3. \A j : j \in J <=> j = i \/ (j = i + 1 /\ i < l) \/ (j = i - 1 /\ i > 1)
      BY <2>1
    <3> HIDE DEF P, J, S3
    <3> QED
      BY <3>1, <3>2, <3>3
  <2> HIDE DEF S3
  <2> QED
    BY <2>5
<1> QED
  BY <1>1, <1>8, <1>9 DEF i

\* The nodes a reply does not look at are farther than any of its target's bucket.
LEMMA FartherOff ==
  ASSUME Tabled(buckets), NEW id \in Id, NEW j \in 1..Len(buckets), j # find_bucket(id, buckets),
         NEW g \in Range(buckets[find_bucket(id, buckets)].nodes), NEW n \in Range(buckets[j].nodes)
  PROVE  Distance[g.id][id] < Distance[n.id][id]
<1> DEFINE i == find_bucket(id, buckets)
           lo == buckets[i].first
           hi == UpTo(buckets, i)
<1>1. i \in 1..Len(buckets) /\ lo <= id /\ id < hi
  BY FindBucket
<1>2. j # i /\ g \in Range(buckets[i].nodes)
  OBVIOUS
<1> HIDE DEF i
<1>3. lo <= g.id /\ g.id < hi /\ g \in Node /\ n \in Node
  BY <1>1, <1>2, NodeInside
<1>4. g.id \in Id /\ n.id \in Id
  BY <1>3, NodeFacts
<1>5. ~(lo <= n.id /\ n.id < hi)
  <2> SUFFICES ASSUME lo <= n.id, n.id < hi PROVE FALSE
    OBVIOUS
  <2>1. find_bucket(n.id, buckets) = i
    BY <1>1, <1>4, FindUnique
  <2>2. buckets[j].first <= n.id /\ n.id < UpTo(buckets, j)
    BY NodeInside
  <2>3. find_bucket(n.id, buckets) = j
    BY <1>4, <2>2, FindUnique
  <2> QED
    BY <1>2, <2>1, <2>3
<1>6. PICK d \in 0..Bits : Dyadic(lo, hi, d)
  BY <1>1 DEF Tabled
<1> HIDE DEF lo, hi
<1> QED
  BY <1>1, <1>3, <1>4, <1>5, <1>6, InsideCloser

\* A reply names the closest good nodes it looks at, in order, and begins with the closest one of
\* the whole table whenever the target's own bucket has a good one.
THEOREM ReplyClosest == Spec => []ReplyIsClosest
<1>1. IInv => ReplyIsClosest
  <2> SUFFICES ASSUME IInv, running, NEW id \in Id
               PROVE  LET r == send_closest_nodes(id)
                          i == find_bucket(id, buckets)
                          near == UNION {Range(buckets[j].nodes) : j \in {i - 1, i, i + 1} \cap DOMAIN buckets}
                          good(ns) == {n \in ns : node_good(n)}
                          d(n) == Distance[n.id][id]
                      IN /\ \A k \in 1..Len(r)-1 : d(r[k]) < d(r[k + 1])
                         /\ Range(r) \subseteq good(near)
                         /\ \A n \in good(near) \ Range(r) : Len(r) = K /\ d(r[K]) < d(n)
                         /\ good(Range(buckets[i].nodes)) # {} =>
                              \A n \in good(Nodes(buckets)) : d(r[1]) <= d(n)
    BY DEF ReplyIsClosest
  <2> DEFINE r == send_closest_nodes(id)
             i == find_bucket(id, buckets)
             S == GoodNear(i)
             d(n) == Distance[n.id][id]
             l == Len(r)
  <2>1. Tabled(buckets) /\ i \in 1..Len(buckets) /\ DOMAIN buckets = 1..Len(buckets) /\ Nodes(buckets) \in SUBSET Node
    <3>1. Tabled(buckets) /\ Nodes(buckets) \in SUBSET Node
      BY TableGood
    <3>2. i \in 1..Len(buckets)
      BY <3>1, FindBucket
    <3> QED
      BY <3>1, <3>2 DEF Tabled
  <2>2. Ranked(r, S, id)
    BY <2>1, SendRanked
  <2> HIDE DEF r, i
  <2>3. l \in Nat /\ l <= K /\ K \in Nat /\ K > 0
    BY <2>2, TableAssumption DEF Ranked
  <2>4. r \in Seq(Node) /\ DOMAIN r = 1..l /\ \A p \in 1..l : r[p] \in Node
    BY <2>2 DEF Ranked
  <2>5. /\ \A p, q \in 1..l : p < q => d(r[p]) < d(r[q])
        /\ \A p \in 1..l : r[p] \in S
        /\ \A n \in S : (\E p \in 1..l : r[p] = n) \/ (l = K /\ d(r[K]) < d(n))
    BY <2>2, TableAssumption DEF Ranked
  <2>6. S = {n \in UNION {Range(buckets[j].nodes) : j \in {i - 1, i, i + 1} \cap DOMAIN buckets} : node_good(n)}
    BY DEF GoodNear
  <2>7. \A x : x \in S <=> \E j \in {i - 1, i, i + 1} \cap DOMAIN buckets : x \in Range(buckets[j].nodes) /\ node_good(x)
    BY <2>6
  <2>8. \A x : x \in Nodes(buckets) <=> \E j \in DOMAIN buckets : x \in Range(buckets[j].nodes)
    BY DEF Nodes
  <2>9. \A x : x \in Range(r) <=> \E p \in 1..l : x = r[p]
    BY <2>4 DEF Range
  <2>10. \A n \in Node : d(n) \in Nat
    BY DistanceOrder, NodeFacts
  <2>11. \A n \in S : n \in Node
    BY <2>1, <2>7, <2>8
  <2> HIDE DEF S, d, l
  <2>12. \A k \in 1..l-1 : d(r[k]) < d(r[k + 1])
    <3>1. \A k \in 1..l-1 : k \in 1..l /\ k + 1 \in 1..l /\ k < k + 1
      BY <2>3
    <3> QED
      BY <2>5, <3>1
  <2>13. Range(r) \subseteq S
    BY <2>5, <2>9
  <2>14. \A n \in S \ Range(r) : l = K /\ d(r[K]) < d(n)
    BY <2>5, <2>9
  <2>15. ASSUME NEW g \in S PROVE l > 0 /\ d(r[1]) <= d(g)
    <3>1. l > 0
      <4>1. (\E p \in 1..l : r[p] = g) \/ l = K
        BY <2>5
      <4> QED
        BY <2>3, <4>1
    <3>2. 1 \in 1..l /\ r[1] \in Node /\ d(r[1]) \in Nat /\ d(g) \in Nat
      <4>1. 1 \in 1..l
        BY <2>3, <3>1
      <4> QED
        BY <2>10, <2>11, <2>4, <4>1
    <3>3. ASSUME NEW p \in 1..l PROVE d(r[1]) <= d(r[p]) /\ d(r[p]) \in Nat
      <4>1. d(r[p]) \in Nat
        BY <2>10, <2>4
      <4>2. p = 1 \/ 1 < p
        BY <2>3
      <4> QED
        BY <2>5, <3>2, <4>1, <4>2
    <3>4. CASE \E p \in 1..l : r[p] = g
      BY <3>1, <3>3, <3>4
    <3>5. CASE l = K /\ d(r[K]) < d(g)
      <4>1. K \in 1..l
        BY <2>3, <3>5
      <4>2. d(r[1]) <= d(r[K]) /\ d(r[K]) \in Nat
        BY <3>3, <4>1
      <4> QED
        BY <3>1, <3>2, <3>5, <4>2
    <3> QED
      BY <2>5, <3>4, <3>5
  <2>16. ASSUME NEW g \in Range(buckets[i].nodes), node_good(g), NEW n \in Nodes(buckets), node_good(n)
         PROVE  d(r[1]) <= d(n)
    <3>1. i \in {i - 1, i, i + 1} \cap DOMAIN buckets
      BY <2>1
    <3>2. g \in S
      BY <2>7, <2>16, <3>1
    <3>3. PICK j \in DOMAIN buckets : n \in Range(buckets[j].nodes)
      BY <2>8
    <3>4. CASE j = i
      <4>1. n \in S
        BY <2>7, <2>16, <3>1, <3>3, <3>4
      <4> QED
        BY <2>15, <4>1
    <3>5. CASE j # i
      <4>1. d(g) < d(n)
        BY <2>1, <3>3, <3>5, FartherOff DEF i, d
      <4>2. l > 0 /\ d(r[1]) <= d(g)
        BY <2>15, <3>2
      <4>3. 1 \in 1..l
        BY <2>3, <4>2
      <4>4. r[1] \in Node /\ g \in Node /\ n \in Node
        BY <2>1, <2>11, <2>4, <3>2, <4>3
      <4>5. d(r[1]) \in Nat /\ d(g) \in Nat /\ d(n) \in Nat
        BY <2>10, <4>4
      <4> QED
        BY <4>1, <4>2, <4>5
    <3> QED
      BY <3>4, <3>5
  <2>17. {n \in Range(buckets[i].nodes) : node_good(n)} # {} =>
           \A n \in {m \in Nodes(buckets) : node_good(m)} : d(r[1]) <= d(n)
    BY <2>16
  <2> QED
    BY <2>6, <2>12, <2>13, <2>14, <2>17 DEF r, i, d, l
<1> QED
  BY <1>1, InvariantHolds, PTL
=============================================================================
