------------------------------- MODULE NatSets -------------------------------
(* Facts about bounded sets of naturals that the proofs of this project    *)
(* share.                                                                  *)
EXTENDS Naturals, Integers, TLAPS, WellFoundedInduction

(* A non-empty set of naturals that has a bound has a largest member: the  *)
(* latest position of a log, the newest publication time of a page.        *)
LEMMA LatestExists ==
  ASSUME NEW n \in Nat, NEW K, K \subseteq 0..n, K # {}
  PROVE  \E k \in K : \A j \in K : j <= k
  <1> DEFINE T == {n - k : k \in K}
  <1>0. \A k \in K : k \in Int /\ 0 <= k /\ k <= n /\ n - k \in Nat
    OBVIOUS
  <1>1. T \subseteq Nat /\ T # {}
    BY <1>0
  <1> HIDE DEF T
  <1>2. PICK m \in T : \A y \in T : ~ (<<y, m>> \in OpToRel(<, Nat))
    BY <1>1, NatLessThanWellFounded, WFMin
  <1>3. ASSUME NEW y \in T PROVE m <= y
    <2>1. y \in Nat /\ m \in Nat
      BY <1>1, <1>2
    <2>2. ~ (y < m)
      <3>1. SUFFICES ASSUME y < m PROVE <<y, m>> \in OpToRel(<, Nat)
        BY <1>2
      <3> QED BY <2>1, <3>1 DEF OpToRel
    <2> QED BY <2>1, <2>2
  <1>4. PICK k \in K : m = n - k
    BY <1>2 DEF T
  <1>5. ASSUME NEW j \in K PROVE j <= k
    <2>1. m <= n - j
      BY <1>3 DEF T
    <2> QED BY <1>0, <1>4, <2>1
  <1> QED BY <1>5
=============================================================================
