------------------------------ MODULE Residues -------------------------------
(***************************************************************************)
(* Facts about i % n, the position of sequence number i in an array of n   *)
(* elements: `index & mask` in shm_ring.h and dedupe_window.h, where n is   *)
(* a power of two, and `gen_id % gens` in fec.h.                            *)
(***************************************************************************)
EXTENDS Integers, TLAPS

\* Division with remainder: what & mask keeps of an index and what it drops.
LEMMA Division ==
  ASSUME NEW a \in Int, NEW n \in Nat \ {0}
  PROVE  /\ a % n \in 0 .. n - 1
         /\ a \div n \in Int
         /\ a = (n * (a \div n)) + (a % n)
  OBVIOUS

\* A positive multiple of the array's size is at least that size.
LEMMA MultipleAtLeast ==
  ASSUME NEW k \in Int, NEW n \in Nat \ {0}, k >= 1
  PROVE  n * k >= n
  OBVIOUS

\* A non-positive multiple of the array's size is not positive.
LEMMA MultipleAtMostZero ==
  ASSUME NEW k \in Int, NEW n \in Nat \ {0}, k <= 0
  PROVE  n * k <= 0
  OBVIOUS

\* Two indices that share a position of the array are a whole turn apart.
LEMMA SamePositionApart ==
  ASSUME NEW a \in Int, NEW b \in Int, NEW n \in Nat \ {0}, a % n = b % n, b < a
  PROVE  b + n <= a
<1> DEFINE qa == a \div n
           qb == b \div n
           m == a % n
<1>1. qa \in Int /\ qb \in Int /\ m \in Int /\ a = (n * qa) + m /\ b = (n * qb) + m
  BY Division
<1> HIDE DEF qa, qb, m
<1>2. n * (qa - qb) = a - b
  BY <1>1
<1>3. qa - qb >= 1
  <2> SUFFICES ASSUME qa - qb <= 0 PROVE FALSE
    BY <1>1
  <2> QED
    BY MultipleAtMostZero, <1>2, <1>1
<1> QED
  BY MultipleAtLeast, <1>3, <1>2, <1>1

\* One turn earlier is the same position.
LEMMA SamePositionTurn ==
  ASSUME NEW a \in Int, NEW n \in Nat \ {0}
  PROVE  (a - n) % n = a % n
<1> DEFINE b == a - n
           q == a \div n
           m == a % n
           p == b \div n
           l == b % n
<1>1. q \in Int /\ m \in 0 .. n - 1 /\ a = (n * q) + m
  BY Division
<1>2. b \in Int /\ b = a - n
  OBVIOUS
<1>3. p \in Int /\ l \in 0 .. n - 1 /\ b = (n * p) + l
  <2> HIDE DEF b
  <2> QED
    BY <1>2, Division
<1> HIDE DEF b, q, m, p, l
<1>4. n * (q - p - 1) = l - m
  BY <1>1, <1>2, <1>3
<1>5. q - p - 1 = 0
  <2>1. CASE q - p - 1 >= 1
    BY <2>1, MultipleAtLeast, <1>1, <1>3, <1>4
  <2>2. CASE p + 1 - q >= 1
    <3>1. n * (p + 1 - q) = m - l
      BY <1>1, <1>3, <1>4
    <3> QED
      BY <2>2, <3>1, MultipleAtLeast, <1>1, <1>3
  <2> QED
    BY <2>1, <2>2, <1>1, <1>3
<1>6. m = l
  BY <1>1, <1>3, <1>4, <1>5
<1> QED
  BY <1>6 DEF m, l, b

\* A number below the array's size is its own position.
LEMMA SmallResidue ==
  ASSUME NEW a \in Nat, NEW n \in Nat \ {0}, a < n
  PROVE  a % n = a
<1> DEFINE q == a \div n
           m == a % n
<1>1. q \in Int /\ m \in 0 .. n - 1 /\ a = (n * q) + m
  BY Division
<1> HIDE DEF q, m
<1>2. q < 1
  BY <1>1, MultipleAtLeast
<1>3. q > -1
  <2> SUFFICES ASSUME q <= -1 PROVE FALSE
    BY <1>1
  <2>1. n * (0 - q) >= n
    BY <1>1, MultipleAtLeast
  <2>2. n * (0 - q) = m - a
    BY <1>1
  <2> QED
    BY <1>1, <2>1, <2>2
<1>4. q = 0
  BY <1>1, <1>2, <1>3
<1>5. a = m
  BY <1>1, <1>4
<1> QED
  BY <1>5 DEF m
=============================================================================
