---------------------------- MODULE NumberLemmas ----------------------------
(***************************************************************************)
(* Least and greatest elements of sets of natural numbers.  With these, an *)
(* induction over the length of a list is an argument about the least      *)
(* counterexample.                                                         *)
(***************************************************************************)
EXTENDS Naturals, TLAPS

LOCAL INSTANCE WellFoundedInduction

\* A non-empty set of numbers has a least element: the order is well founded.
LEMMA LeastNumber ==
  ASSUME NEW S, S \subseteq Nat, S # {}
  PROVE  \E m \in S : \A k \in S : m =< k
<1> DEFINE R == OpToRel(<, Nat)
<1>1. R = {ss \in Nat \X Nat : ss[1] < ss[2]}
  BY DEF OpToRel
<1>2. IsWellFoundedOn(R, Nat)
  BY NatLessThanWellFounded
<1> HIDE DEF R
<1>3. PICK m \in S : \A k \in S : ~(<<k, m>> \in R)
  BY <1>2, WFMin, Zenon
<1>4. ASSUME NEW k \in S, k < m PROVE FALSE
  <2>1. k \in Nat /\ m \in Nat
    OBVIOUS
  <2>2. <<k, m>> \in {ss \in Nat \X Nat : ss[1] < ss[2]}
    BY <1>4, <2>1
  <2> QED
    BY <1>1, <1>3, <2>2
<1> QED
  BY <1>4

\* A bounded one has a greatest: its least upper bound.
LEMMA GreatestNumber ==
  ASSUME NEW n \in Nat, NEW S, S \subseteq Nat, S # {}, \A k \in S : k =< n
  PROVE  \E m \in S : \A k \in S : k =< m
<1> DEFINE bounds == {m \in Nat : \A k \in S : k =< m}
<1>1. n \in bounds
  OBVIOUS
<1>2. PICK m \in bounds : \A k \in bounds : m =< k
  BY <1>1, LeastNumber
<1>3. m \in S
  <2>1. SUFFICES ASSUME m \notin S PROVE FALSE
    OBVIOUS
  <2>2. \A k \in S : k =< m - 1
    BY <1>2, <2>1
  <2>3. m # 0
    <3>1. PICK k \in S : TRUE
      OBVIOUS
    <3> QED
      BY <2>2, <3>1
  <2>4. m - 1 \in bounds
    BY <2>2, <2>3
  <2> QED
    BY <1>2, <2>4
<1> QED
  BY <1>2, <1>3
=============================================================================
