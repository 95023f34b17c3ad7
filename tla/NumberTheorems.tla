--------------------------- MODULE NumberTheorems ----------------------------
(***************************************************************************)
(* Facts about numbers that the proofs share: division as the code does    *)
(* it, and induction over the naturals, stated with sets instead of        *)
(* predicates so that it can be used step by step.                         *)
(***************************************************************************)
EXTENDS Integers, WellFoundedInduction, TLAPS

-----------------------------------------------------------------------------
(* Division. *)

\* Euclidean division: quotient and remainder.
LEMMA DivMod ==
  ASSUME NEW a \in Int, NEW k \in Nat \ {0}
  PROVE  /\ a \div k \in Int
         /\ (a \div k) * k <= a
         /\ a < (a \div k) * k + k
  BY Z3

\* Multiplication by a positive number is monotone.
LEMMA MulMono ==
  ASSUME NEW p \in Int, NEW q \in Int, NEW k \in Nat, p <= q
  PROVE  p * k <= q * k
  BY Z3

\* The quotient is unique.
LEMMA DivUnique ==
  ASSUME NEW a \in Int, NEW k \in Nat \ {0}, NEW q \in Int,
         q * k <= a, a < q * k + k
  PROVE  a \div k = q
  BY DivMod, Z3

\* Division is monotone.
LEMMA DivMono ==
  ASSUME NEW a \in Int, NEW b \in Int, NEW k \in Nat \ {0}, a <= b
  PROVE  a \div k <= b \div k
  BY DivMod, Z3

\* A quotient is at most what its product with the divisor reaches.
LEMMA DivUpper ==
  ASSUME NEW a \in Int, NEW k \in Nat \ {0}, NEW q \in Int, a <= q * k
  PROVE  a \div k <= q
  BY DivMod, Z3

LEMMA DivLower ==
  ASSUME NEW a \in Int, NEW k \in Nat \ {0}, NEW q \in Int, q * k <= a
  PROVE  q <= a \div k
  BY DivMod, Z3

\* A larger divisor gives a smaller quotient.
LEMMA DivAnti ==
  ASSUME NEW a \in Nat, NEW k \in Nat \ {0}, NEW m \in Nat \ {0}, k <= m
  PROVE  a \div m <= a \div k
<1> DEFINE q == a \div m
<1>1. q \in Int /\ q * m <= a /\ a < q * m + m
  BY DivMod
<1> HIDE DEF q
<1>2. q >= 0
  BY <1>1, Z3
<1>3. q * k <= q * m
  BY <1>1, <1>2, Z3
<1>4. q * k <= a
  BY <1>1, <1>3, Z3
<1> QED
  BY <1>1, <1>4, DivLower DEF q

\* A small number is its own remainder.
LEMMA ModSmall ==
  ASSUME NEW a \in Nat, NEW n \in Nat \ {0}, a < n
  PROVE  a % n = a
  BY Z3

-----------------------------------------------------------------------------
(* Induction. *)

\* A nonempty set of naturals has a least element.
LEMMA NatMinimum ==
  ASSUME NEW S \in SUBSET Nat, S # {}
  PROVE  \E x \in S : \A y \in S : x <= y
<1> DEFINE less == OpToRel(<, Nat)
<1>1. IsWellFoundedOn(less, Nat)
  BY NatLessThanWellFounded
<1>2. \A x, y \in Nat : <<x, y>> \in less <=> x < y
  BY DEF OpToRel
<1> HIDE DEF less
<1>3. PICK x \in S : \A y \in S : <<y, x>> \notin less
  BY <1>1, WFMin
<1>4. \A y \in S : y \in Nat
  OBVIOUS
<1>5. \A y \in S : ~(y < x)
  BY <1>2, <1>3, <1>4
<1>6. \A y \in S : x <= y
  BY <1>4, <1>5
<1> QED
  BY <1>6

\* A nonempty set of integers above some bound has a least element.
LEMMA IntMinimum ==
  ASSUME NEW S \in SUBSET Int, S # {}, NEW b \in Int, \A x \in S : b <= x
  PROVE  \E x \in S : \A y \in S : x <= y
<1> DEFINE T == {x - b : x \in S}
<1>a. \A x \in S : x \in Int
  OBVIOUS
<1>b. \A x \in S : x - b \in Nat
  BY <1>a
<1>1. T \in SUBSET Nat /\ T # {}
  BY <1>b
<1>2. PICK m \in T : \A y \in T : m <= y
  <2> HIDE DEF T
  <2> QED
    BY <1>1, NatMinimum
<1>3. PICK x \in S : m = x - b
  OBVIOUS
<1>4. \A y \in S : x - b <= y - b
  BY <1>2, <1>3
<1>5. \A y \in S : x <= y
  BY <1>a, <1>4
<1> QED
  BY <1>5

\* A nonempty set of integers below some bound has a greatest element.
LEMMA IntMaximum ==
  ASSUME NEW S \in SUBSET Int, S # {}, NEW b \in Int, \A x \in S : x <= b
  PROVE  \E x \in S : \A y \in S : y <= x
<1> DEFINE T == {b - x : x \in S}
<1>a. \A x \in S : x \in Int
  OBVIOUS
<1>b. \A x \in S : b - x \in Nat
  BY <1>a
<1>1. T \in SUBSET Nat /\ T # {}
  BY <1>b
<1>2. PICK m \in T : \A y \in T : m <= y
  <2> HIDE DEF T
  <2> QED
    BY <1>1, NatMinimum
<1>3. PICK x \in S : m = b - x
  OBVIOUS
<1>4. \A y \in S : b - x <= b - y
  BY <1>2, <1>3
<1>5. \A y \in S : y <= x
  BY <1>a, <1>4
<1> QED
  BY <1>5

\* A set that holds 0, and n + 1 with every n < m, holds 0..m.
LEMMA UpTo ==
  ASSUME NEW m \in Nat, NEW S, 0 \in S,
         \A n \in Nat : n < m /\ n \in S => n + 1 \in S
  PROVE  \A n \in 0..m : n \in S
<1> DEFINE T == {n \in 0..m : n \notin S}
<1> SUFFICES ASSUME T # {} PROVE FALSE
  OBVIOUS
<1>1. T \in SUBSET Nat
  OBVIOUS
<1>2. PICK x \in T : \A y \in T : x <= y
  <2> HIDE DEF T
  <2> QED
    BY <1>1, NatMinimum
<1>3. x # 0 /\ x \in 0..m
  BY <1>2
<1>4. x - 1 \in Nat /\ x - 1 < m /\ x - 1 \notin T
  BY <1>2, <1>3
<1>5. x - 1 \in S
  BY <1>3, <1>4
<1>6. (x - 1) + 1 \in S
  BY <1>4, <1>5
<1> QED
  BY <1>2, <1>3, <1>6
=============================================================================
