----------------------------- MODULE LeastNumbers -----------------------------
(***************************************************************************)
(* The order of the natural numbers, as the proofs about the lowest free   *)
(* descriptor, the first and the last server and the first difference of   *)
(* two logs need it.                                                       *)
(***************************************************************************)
EXTENDS Integers, TLAPS, WellFoundedInduction

\* A set of natural numbers that is not empty has a least one.
LEMMA LeastNumber ==
    ASSUME NEW T \in SUBSET Nat, T # {}
    PROVE  \E n \in T : \A m \in T : n <= m
<1>1. \E n \in T : \A m \in T : ~ (<<m, n>> \in OpToRel(<, Nat))
  BY WFMin, NatLessThanWellFounded
<1>2. \E n \in T : \A m \in T : ~ (m < n)
  BY <1>1 DEF OpToRel
<1>. QED
  BY <1>2

\* A set of natural numbers up to some number has a greatest one.
LEMMA GreatestNumber ==
    ASSUME NEW max \in Nat, NEW T \in SUBSET (0 .. max), T # {}
    PROVE  \E n \in T : \A m \in T : n >= m
<1>. DEFINE Above == {n \in Nat : \A m \in T : n >= m}
<1>1. max \in Above
  OBVIOUS
<1>2. PICK n \in Above : \A m \in Above : n <= m
  BY <1>1, LeastNumber
<1>3. n \in Nat /\ \A m \in T : n >= m
  BY <1>2
<1>4. n \in T
  <2>. SUFFICES ASSUME n \notin T PROVE FALSE
    OBVIOUS
  <2>1. \A m \in T : m \in Nat /\ n > m
    BY <1>3
  <2>2. n # 0 /\ n - 1 \in Nat /\ \A m \in T : n - 1 >= m
    <3>1. PICK k \in T : k \in Nat
      BY <2>1
    <3>. QED
      BY <1>3, <2>1, <3>1
  <2>. QED
    BY <1>2, <1>3, <2>2
<1>. QED
  BY <1>3, <1>4

=============================================================================
