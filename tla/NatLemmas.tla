------------------------------ MODULE NatLemmas ------------------------------
(***************************************************************************)
(* What the proofs of the other modules need about numbers: the least      *)
(* element of a set of naturals, induction in the form of a set that is    *)
(* closed under successor, Max and Min of FiniteSetsExt, and remainders.   *)
(***************************************************************************)
EXTENDS Integers, FiniteSetsExt, WellFoundedInduction, TLAPS

\* A set of naturals that has an element has a least one.
LEMMA LeastNat ==
  ASSUME NEW S \in SUBSET Nat, S # {}
  PROVE  \E m \in S : \A n \in S : m <= n
<1> DEFINE R == OpToRel(<, Nat)
<1>1. IsWellFoundedOn(R, Nat)
  BY NatLessThanWellFounded
<1> HIDE DEF R
<1>2. PICK m \in S : \A n \in S : ~(<<n, m>> \in R)
  BY <1>1, WFMin
<1>3. \A n \in S : ~(n < m)
  BY <1>2 DEF R, OpToRel
<1> QED BY <1>3

\* A set with 0 and with the successor of each of its elements up to N has 0 .. N.
LEMMA SetInduction ==
  ASSUME NEW N \in Nat, NEW S,
         0 \in S,
         \A n \in 0 .. N - 1 : n \in S => n + 1 \in S
  PROVE  \A n \in 0 .. N : n \in S
<1> SUFFICES ASSUME (0 .. N) \ S # {} PROVE FALSE
  OBVIOUS
<1>1. (0 .. N) \ S \in SUBSET Nat
  OBVIOUS
<1>2. PICK m \in (0 .. N) \ S : \A n \in (0 .. N) \ S : m <= n
  BY <1>1, LeastNat
<1>3. m # 0 /\ m - 1 \in 0 .. N - 1 /\ m - 1 \in S
  BY <1>2
<1> QED BY <1>2, <1>3

\* Max is the element that no other exceeds.
LEMMA MaxIs ==
  ASSUME NEW S \in SUBSET Int, NEW m \in S, \A i \in S : i <= m
  PROVE  Max(S) = m
<1>1. \E x \in S : \A y \in S : x >= y
  OBVIOUS
<1>2. Max(S) \in S /\ \A y \in S : Max(S) >= y
  BY <1>1, Zenon DEF Max
<1>3. Max(S) >= m /\ Max(S) <= m /\ Max(S) \in Int
  BY <1>2
<1> QED BY <1>3

\* A set of naturals that has an element has a Min.
LEMMA MinOf ==
  ASSUME NEW S \in SUBSET Nat, S # {}
  PROVE  Min(S) \in S /\ \A y \in S : Min(S) <= y
<1>1. \E x \in S : \A y \in S : x <= y
  BY LeastNat
<1> QED BY <1>1, Zenon DEF Min

\* A set of naturals that has an element and a bound has a Max.
LEMMA MaxOf ==
  ASSUME NEW N \in Nat, NEW S \in SUBSET (0 .. N), S # {}
  PROVE  Max(S) \in S /\ \A y \in S : y <= Max(S)
<1> DEFINE D == {d \in 0 .. N : N - d \in S}
<1>1. D \in SUBSET Nat
  OBVIOUS
<1>2. D # {}
  <2>1. PICK x \in S : TRUE
    OBVIOUS
  <2>2. N - x \in D
    BY <2>1
  <2> QED BY <2>2
<1>3. PICK d \in D : \A n \in D : d <= n
  BY <1>1, <1>2, LeastNat
<1>4. ASSUME NEW y \in S PROVE y <= N - d
  <2>1. N - y \in D /\ y \in 0 .. N
    BY <1>4
  <2>2. d <= N - y /\ d \in 0 .. N
    BY <1>3, <2>1
  <2> QED BY <2>1, <2>2
<1>5. N - d \in S /\ S \in SUBSET Int
  BY <1>3
<1>6. Max(S) = N - d
  BY <1>4, <1>5, MaxIs
<1> QED BY <1>4, <1>5, <1>6

\* Two numbers less than W apart have different remainders.
LEMMA ModDiffer ==
  ASSUME NEW W \in Nat \ {0}, NEW i \in Nat, NEW j \in Nat, i < j, j < i + W
  PROVE  i % W # j % W
<1> SUFFICES ASSUME i % W = j % W PROVE FALSE
  OBVIOUS
<1> DEFINE p == i \div W
           q == j \div W
           m == i % W
<1>1. p \in Int /\ q \in Int /\ m \in Int /\ i = W * p + m /\ j = W * q + m
  OBVIOUS
<1> HIDE DEF p, q, m
<1>2. q > p
  <2>1. SUFFICES ASSUME q <= p PROVE FALSE
    BY <1>1
  <2>2. W * q <= W * p
    BY <1>1, <2>1
  <2> QED BY <1>1, <2>2
<1>3. W * (p + 1) <= W * q
  BY <1>1, <1>2
<1>4. W * (p + 1) = W * p + W
  BY <1>1
<1> QED BY <1>1, <1>3, <1>4
=============================================================================
