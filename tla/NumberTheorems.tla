----------------------------- MODULE NumberTheorems -----------------------------
(***************************************************************************)
(* A set of numbers has a least one, and one that is bounded a largest.    *)
(***************************************************************************)
EXTENDS Integers, WellFoundedInduction, TLAPS

LEMMA LeastNumber ==
    ASSUME NEW S \in SUBSET Nat, S # {}
    PROVE  \E s \in S : \A t \in S : s <= t
  <1> DEFINE R == OpToRel(<, Nat)
  <1>1. \A x, y \in Nat : <<x, y>> \in R <=> x < y
    BY DEF OpToRel
  <1>2. IsWellFoundedOn(R, Nat)
    BY NatLessThanWellFounded
  <1> HIDE DEF R
  <1>3. PICK s \in S : \A t \in S : ~(<<t, s>> \in R)
    BY <1>2, WFMin
  <1>4. \A t \in S : s <= t
    <2> TAKE t \in S
    <2>1. s \in Nat /\ t \in Nat /\ ~(t < s)
      BY <1>1, <1>3
    <2> QED
      BY <2>1
  <1> QED
    BY <1>4

LEMMA LargestNumber ==
    ASSUME NEW n \in Nat, NEW S \in SUBSET (1 .. n), S # {}
    PROVE  \E s \in S : \A t \in S : t <= s
  <1> DEFINE T == {n - s : s \in S}
  <1>1. T \in SUBSET Nat
    <2>1. \A s \in S : s \in Int /\ 1 <= s /\ s <= n
      OBVIOUS
    <2>2. \A s \in S : n - s \in Nat
      BY <2>1
    <2> QED
      BY <2>2
  <1>2. T # {}
    OBVIOUS
  <1>3. \E t \in T : \A u \in T : t <= u
    <2> HIDE DEF T
    <2> QED
      BY <1>1, <1>2, LeastNumber
  <1>4. PICK s \in S : \A u \in S : n - s <= n - u
    BY <1>3
  <1>5. \A u \in S : u <= s
    <2> TAKE u \in S
    <2>1. u \in Int /\ s \in Int /\ n - s <= n - u
      BY <1>4
    <2> QED
      BY <2>1
  <1> QED
    BY <1>5
===============================================================================
