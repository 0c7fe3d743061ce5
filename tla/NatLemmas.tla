------------------------------ MODULE NatLemmas -----------------------------
(***************************************************************************)
(* Facts about natural numbers that the proofs about several components    *)
(* need.  Induction is used in the form of LeastNumber: a set of numbers   *)
(* that is not empty, such as the one of the counterexamples to a claim,   *)
(* has a least element.                                                    *)
(***************************************************************************)
EXTENDS Integers, WellFoundedInduction, TLAPS

\* A set of natural numbers that is not empty has a least element.
LEMMA LeastNumber ==
    ASSUME NEW T \in SUBSET Nat, T # {}
    PROVE  \E x \in T : \A y \in T : x <= y
<1> DEFINE R == OpToRel(<, Nat)
<1>1. \A x, y \in Nat : <<x, y>> \in R <=> x < y
  BY DEF OpToRel
<1> HIDE DEF R
<1>2. IsWellFoundedOn(R, Nat)
  BY NatLessThanWellFounded DEF R
<1>3. PICK x \in T : \A y \in T : ~(<<y, x>> \in R)
  BY <1>2, WFMin
<1>4. \A y \in T : y \in Nat /\ x \in Nat /\ ~(y < x)
  BY <1>1, <1>3
<1> QED
  BY <1>4

\* A set of natural numbers that is not empty and bounded has a greatest one.
LEMMA GreatestNumber ==
    ASSUME NEW n \in Nat, NEW T \in SUBSET (0..n), T # {}
    PROVE  \E x \in T : \A y \in T : x >= y
<1> DEFINE C == {n - x : x \in T}
<1>1. C \in SUBSET Nat /\ C # {}
  <2>1. \A x \in T : n - x \in Nat
    OBVIOUS
  <2> QED
    BY <2>1
<1>2. PICK c \in C : \A d \in C : c <= d
  BY <1>1, LeastNumber
<1>3. PICK x \in T : c = n - x
  BY <1>2
<1>4. \A y \in T : x >= y
  <2> SUFFICES ASSUME NEW y \in T PROVE x >= y
    OBVIOUS
  <2>1. n - y \in C
    OBVIOUS
  <2>2. n - x <= n - y
    BY <1>2, <1>3, <2>1
  <2> QED
    BY <2>2
<1> QED
  BY <1>4

\* A quotient and a remainder are the only ones.
LEMMA RemainderUnique ==
    ASSUME NEW l \in Nat \ {0}, NEW q \in Nat, NEW r \in 0..(l - 1),
           NEW p \in Nat, NEW s \in 0..(l - 1), l * q + r = l * p + s
    PROVE  r = s
<1>1. CASE q = p
  BY <1>1
<1>2. CASE q < p
  <2>1. p - q \in Nat /\ p - q >= 1
    BY <1>2
  <2>2. l * (p - q) >= l
    BY <2>1
  <2>3. l * p = l * q + l * (p - q)
    OBVIOUS
  <2> QED
    BY <2>2, <2>3
<1>3. CASE p < q
  <2>1. q - p \in Nat /\ q - p >= 1
    BY <1>3
  <2>2. l * (q - p) >= l
    BY <2>1
  <2>3. l * q = l * p + l * (q - p)
    OBVIOUS
  <2> QED
    BY <2>2, <2>3
<1> QED
  BY <1>1, <1>2, <1>3

\* How a remainder grows with its number.
LEMMA NextRemainder ==
    ASSUME NEW k \in Nat, NEW l \in Nat \ {0}
    PROVE  /\ k % l \in 0..(l - 1)
           /\ (k + 1) % l = IF k % l = l - 1 THEN 0 ELSE (k % l) + 1
<1>1. \A j \in Nat : j \div l \in Nat /\ j % l \in 0..(l - 1) /\ j = l * (j \div l) + (j % l)
  OBVIOUS
<1> DEFINE q == k \div l   r == k % l   p == (k + 1) \div l   s == (k + 1) % l
<1>2. /\ q \in Nat /\ r \in 0..(l - 1) /\ k = l * q + r
      /\ p \in Nat /\ s \in 0..(l - 1) /\ k + 1 = l * p + s
  BY <1>1
<1> HIDE DEF q, r, p, s
<1>3. CASE r = l - 1
  <2>1. l * (q + 1) + 0 = l * p + s
    BY <1>2, <1>3
  <2>2. q + 1 \in Nat /\ 0 \in 0..(l - 1)
    BY <1>2
  <2>3. 0 = s
    BY <1>2, <2>1, <2>2, RemainderUnique
  <2> QED
    BY <1>2, <1>3, <2>3 DEF r, s
<1>4. CASE r # l - 1
  <2>1. l * q + (r + 1) = l * p + s /\ r + 1 \in 0..(l - 1)
    BY <1>2, <1>4
  <2>2. r + 1 = s
    BY <1>2, <2>1, RemainderUnique
  <2> QED
    BY <1>2, <1>4, <2>2 DEF r, s
<1> QED
  BY <1>3, <1>4

\* Zero leaves no remainder.
LEMMA ZeroRemainder ==
    ASSUME NEW l \in Nat \ {0}
    PROVE  0 % l = 0
<1>1. \A j \in Nat : j \div l \in Nat /\ j % l \in 0..(l - 1) /\ j = l * (j \div l) + (j % l)
  OBVIOUS
<1> DEFINE q == 0 \div l   r == 0 % l
<1>2. q \in Nat /\ r \in 0..(l - 1) /\ 0 = l * q + r
  BY <1>1
<1> HIDE DEF q, r
<1>3. l * 0 + 0 = l * q + r /\ 0 \in 0..(l - 1)
  BY <1>2
<1>4. r = 0
  BY <1>2, <1>3, RemainderUnique
<1> QED
  BY <1>4 DEF r
=============================================================================
