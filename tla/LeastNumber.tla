----------------------------- MODULE LeastNumber -----------------------------
(***************************************************************************)
(* The least number principle for sets of naturals.  A proof by induction  *)
(* over data takes the set of its counterexamples, which has a least        *)
(* element unless it is empty.                                              *)
(***************************************************************************)
EXTENDS Integers, WellFoundedInduction, TLAPS

Below == {ss \in Nat \X Nat : ss[1] < ss[2]}

LEMMA BelowWellFounded == IsWellFoundedOn(Below, Nat)
  BY NatLessThanWellFounded DEF OpToRel, Below

\* Every nonempty set of naturals has a least element.
LEMMA LeastElement ==
  ASSUME NEW T \in SUBSET Nat, T # {}
  PROVE  \E x \in T : \A y \in T : x <= y
<1>1. PICK x \in T : \A y \in T : ~(<<y, x>> \in Below)
  BY BelowWellFounded, WFMin
<1>2. ASSUME NEW y \in T
      PROVE  x <= y
  <2>1. x \in Nat /\ y \in Nat /\ <<y, x>> \notin Below
    BY <1>1
  <2>. QED  BY <2>1 DEF Below
<1>. QED  BY <1>2

\* A set that holds 0 and the successor of each of its members below N holds
\* every number up to N.
LEMMA UpTo ==
  ASSUME NEW N \in Nat, NEW S, 0 \in S,
         \A i \in 0..N : i \in S /\ i < N => i + 1 \in S
  PROVE  \A i \in 0..N : i \in S
<1>1. SUFFICES ASSUME NEW k \in 0..N, k \notin S
               PROVE  FALSE
  OBVIOUS
<1>2. PICK T : T = {i \in 0..N : i \notin S}
  OBVIOUS
<1>3. T \in SUBSET Nat /\ T # {}
  BY <1>1, <1>2
<1>4. PICK x \in T : \A y \in T : x <= y
  BY <1>3, LeastElement
<1>5. x \in 0..N /\ x \notin S /\ x # 0
  BY <1>2, <1>4
<1>6. x - 1 \in 0..N /\ x - 1 < N /\ ~(x <= x - 1)
  BY <1>5
<1>7. x - 1 \in S
  BY <1>2, <1>4, <1>6
<1>8. (x - 1) + 1 \in S
  BY <1>6, <1>7
<1>. QED  BY <1>5, <1>8

LEMMA ReachesEnd ==
  ASSUME NEW N \in Nat, NEW S, 0 \in S,
         \A i \in 0..N : i \in S /\ i < N => i + 1 \in S
  PROVE  N \in S
<1>1. \A i \in 0..N : i \in S
  BY UpTo
<1>2. N \in 0..N
  OBVIOUS
<1>. QED  BY <1>1, <1>2
=============================================================================
