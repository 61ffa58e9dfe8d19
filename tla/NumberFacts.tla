---------------------------- MODULE NumberFacts ----------------------------
(* Facts about natural numbers that the proofs of several modules use.     *)
EXTENDS Integers, WellFoundedInduction, TLAPS

(* A set of naturals that is not empty has a least member.                 *)
LEMMA LeastNat ==
  ASSUME NEW T \in SUBSET Nat, T # {}
  PROVE  \E x \in T : \A y \in T : x <= y
<1>1. IsWellFoundedOn(OpToRel(<, Nat), Nat)
  BY NatLessThanWellFounded
<1>2. PICK x \in T : \A y \in T : <<y, x>> \notin OpToRel(<, Nat)
  BY <1>1, WFMin, Zenon
<1>3. \A y \in T : ~(y < x)
  BY <1>2 DEF OpToRel
<1> QED BY <1>3

(* Quotient and remainder.                                                 *)
LEMMA Division ==
  ASSUME NEW a \in Int, NEW b \in Nat \ {0}
  PROVE  /\ a = b * (a \div b) + (a % b)
         /\ a \div b \in Int /\ a % b \in 0 .. (b - 1)
<1>1. a = b * (a \div b) + (a % b)
  OBVIOUS
<1>2. a \div b \in Int
  OBVIOUS
<1>3. a % b \in 0 .. (b - 1)
  OBVIOUS
<1> QED BY <1>1, <1>2, <1>3

LEMMA DivisionNat ==
  ASSUME NEW a \in Nat, NEW b \in Nat \ {0}
  PROVE  a \div b \in Nat
OBVIOUS

LEMMA ProductMonotone ==
  ASSUME NEW a \in Int, NEW b \in Int, NEW c \in Nat, a <= b
  PROVE  a * c <= b * c
OBVIOUS

(* There is one of each.                                                   *)
LEMMA UniqueDivision ==
  ASSUME NEW b \in Nat \ {0}, NEW q \in Int, NEW p \in Int,
         NEW r \in 0 .. (b - 1), NEW s \in 0 .. (b - 1),
         q * b + r = p * b + s
  PROVE  q = p /\ r = s
<1>1. CASE q < p
  <2>1. (q + 1) * b <= p * b
    BY <1>1, ProductMonotone
  <2>2. (q + 1) * b = q * b + b
    OBVIOUS
  <2>3. q * b \in Int /\ p * b \in Int
    OBVIOUS
  <2> QED BY <2>1, <2>2, <2>3
<1>2. CASE p < q
  <2>1. (p + 1) * b <= q * b
    BY <1>2, ProductMonotone
  <2>2. (p + 1) * b = p * b + b
    OBVIOUS
  <2>3. q * b \in Int /\ p * b \in Int
    OBVIOUS
  <2> QED BY <2>1, <2>2, <2>3
<1>3. CASE p = q
  <2>1. q * b \in Int /\ p * b = q * b
    BY <1>3
  <2> QED BY <1>3, <2>1
<1> QED BY <1>1, <1>2, <1>3

LEMMA QuotientMonotone ==
  ASSUME NEW a \in Int, NEW c \in Int, NEW b \in Nat \ {0}, a <= c
  PROVE  a \div b <= c \div b
OBVIOUS

LEMMA QuotientNext ==
  ASSUME NEW a \in Int, NEW b \in Nat \ {0}
  PROVE  (a + b) \div b = a \div b + 1
<1> DEFINE q == a \div b
           p == (a + b) \div b
           r == a % b
           s == (a + b) % b
<1>1. q \in Int /\ p \in Int /\ r \in 0 .. (b - 1) /\ s \in 0 .. (b - 1)
  BY Division
<1>2. a = b * q + r /\ a + b = b * p + s
  BY Division
<1> HIDE DEF q, p, r, s
<1>3. (q + 1) * b + r = p * b + s
  BY <1>1, <1>2
<1> QED BY <1>1, <1>3, UniqueDivision
=============================================================================
