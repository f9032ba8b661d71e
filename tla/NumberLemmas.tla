---------------------------- MODULE NumberLemmas ----------------------------
(***************************************************************************)
(* Least and greatest numbers, and induction in the form of a set: what    *)
(* the proofs about routes and activations need of the naturals.           *)
(***************************************************************************)
EXTENDS Naturals, FiniteSetsExt, WellFoundedInduction, TLAPS

\* A set of naturals has a least element.
LEMMA LeastNatural ==
  ASSUME NEW S \in SUBSET Nat, S # {}
  PROVE  Min(S) \in S /\ \A m \in S : Min(S) <= m
<1>1. IsWellFoundedOn(OpToRel(<, Nat), Nat)
  BY NatLessThanWellFounded
<1>2. \A m, n \in Nat : m < n => <<m, n>> \in OpToRel(<, Nat)
  BY DEF OpToRel
<1>3. \E n \in S : \A m \in S : <<m, n>> \notin OpToRel(<, Nat)
  BY <1>1, WFMin
<1>4. PICK R : (\A m, n \in Nat : m < n => <<m, n>> \in R)
               /\ \E n \in S : \A m \in S : <<m, n>> \notin R
  BY <1>2, <1>3, Zenon
<1>5. PICK n \in S : \A m \in S : <<m, n>> \notin R
  BY <1>4, Zenon
<1>6. ASSUME NEW m \in S PROVE n <= m
  <2>1. m \in Nat /\ n \in Nat /\ ~(m < n)
    BY <1>4, <1>5, Zenon
  <2> QED BY <2>1
<1> QED BY <1>6 DEF Min

\* A bounded one has a greatest.
LEMMA GreatestNatural ==
  ASSUME NEW n \in Nat, NEW S \in SUBSET (1..n), S # {}
  PROVE  Max(S) \in S /\ \A m \in S : m <= Max(S)
<1> DEFINE D == {n - m : m \in S}
<1>1. D \in SUBSET Nat /\ D # {}
  <2>1. \A m \in S : n - m \in Nat
    OBVIOUS
  <2> QED BY <2>1
<1>2. \E d \in D : \A e \in D : d <= e
  BY <1>1, LeastNatural
<1>3. \E k \in S : \A m \in S : k >= m
  BY <1>2
<1> QED BY <1>3 DEF Max

\* What holds of 0 and of the successor of what it holds of holds of all.
LEMMA Induction ==
  ASSUME NEW S, 0 \in S, \A n \in Nat : n \in S => n + 1 \in S
  PROVE  Nat \subseteq S
<1> DEFINE T == Nat \ S
<1> SUFFICES ASSUME T # {} PROVE FALSE
  OBVIOUS
<1>1. Min(T) \in T /\ \A m \in T : Min(T) <= m
  BY LeastNatural
<1> DEFINE k == Min(T)
<1>2. k \in Nat /\ k # 0 /\ k - 1 \in Nat /\ k - 1 \notin T
  BY <1>1
<1> QED BY <1>1, <1>2
=============================================================================
