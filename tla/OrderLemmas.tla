---------------------------- MODULE OrderLemmas ----------------------------
(***************************************************************************)
(* Least and greatest elements of sets of numbers, for the proofs of the   *)
(* modules that choose one.                                                *)
(***************************************************************************)
EXTENDS Integers, FiniteSets, WellFoundedInduction, FiniteSetTheorems, TLAPS

\* A set of numbers has a least one.
LEMMA NatMin ==
  ASSUME NEW S \in SUBSET Nat, S # {}
  PROVE  \E x \in S : \A y \in S : x <= y
<1> DEFINE R == {p \in Nat \X Nat : p[1] < p[2]}
<1>1. IsWellFoundedOn(R, Nat)
  BY NatLessThanWellFounded DEF OpToRel
<1>3. \A x, y \in Nat : y < x => <<y, x>> \in R
  OBVIOUS
<1> HIDE DEF R
<1>2. PICK x \in S : \A y \in S : ~(<<y, x>> \in R)
  BY <1>1, WFMin
<1>4. \A y \in S : x <= y
  <2> TAKE y \in S
  <2>1. ~(y < x)
    BY <1>2, <1>3
  <2> QED BY <2>1
<1> QED BY <1>4

\* A set of numbers with a bound has a greatest one.
LEMMA NatMax ==
  ASSUME NEW S \in SUBSET Nat, S # {}, NEW n \in Nat, \A x \in S : x <= n
  PROVE  \E x \in S : \A y \in S : y <= x
<1> DEFINE T == {k \in Nat : \A x \in S : x <= k}
<1>1. n \in T
  OBVIOUS
<1>2. PICK k \in T : \A j \in T : k <= j
  BY <1>1, NatMin
<1>3. CASE k \in S
  BY <1>2, <1>3
<1>4. CASE k \notin S
  <2>1. k # 0
    <3>1. PICK s \in S : s \in Nat /\ s <= k /\ s # k
      BY <1>4
    <3> QED BY <3>1
  <2>2. k - 1 \in T
    BY <1>4, <2>1
  <2> QED BY <1>2, <2>2
<1> QED BY <1>3, <1>4

\* A finite set of numbers has a greatest one.
LEMMA FiniteMax ==
  ASSUME NEW S \in SUBSET Nat, S # {}, IsFiniteSet(S)
  PROVE  \E x \in S : \A y \in S : y <= x
<1> DEFINE B == {T \in SUBSET S : T # {} /\ ~\E x \in T : \A y \in T : y <= x}
           W == StrictSubsetOrdering(S)
           F == FiniteSubsetsOf(S)
<1>1. SUFFICES ASSUME B # {} PROVE FALSE
  OBVIOUS
<1>2. IsWellFoundedOn(W, F) /\ B \subseteq F
  BY FS_StrictSubsetOrderingWellFounded, FS_FiniteSubsetsOfFinite
<1> HIDE DEF B, W, F
<1>3. PICK T \in B : \A U \in B : ~(<<U, T>> \in W)
  BY <1>1, <1>2, WFMin
<1> USE DEF B
<1>4. PICK x \in T : TRUE
  BY <1>3
<1>5. T \ {x} \notin B
  BY <1>3, <1>4 DEF W, StrictSubsetOrdering
<1>6. PICK m \in T \ {x} : \A y \in T \ {x} : y <= m
  BY <1>3, <1>4, <1>5
<1>7. x \in Nat /\ m \in Nat
  BY <1>3, <1>4, <1>6
<1>8. CASE x <= m
  BY <1>3, <1>6, <1>8
<1>9. CASE m <= x
  BY <1>3, <1>4, <1>6, <1>7, <1>9
<1> QED BY <1>7, <1>8, <1>9
=============================================================================
