----------------------------- MODULE OrderLemmas -----------------------------
(***************************************************************************)
(* A strict total order has a first and a last element on every finite     *)
(* set that is not empty.  Stated for a relation, a set of pairs.          *)
(***************************************************************************)
EXTENDS Integers, FiniteSets, FiniteSetTheorems, WellFoundedInduction, TLAPS

IsStrictTotalOrder(R, S) ==
  /\ \A x \in S : <<x, x>> \notin R
  /\ \A x, y, z \in S : <<x, y>> \in R /\ <<y, z>> \in R => <<x, z>> \in R
  /\ \A x, y \in S : x # y => <<x, y>> \in R \/ <<y, x>> \in R

Preceding(R, S, x) == {y \in S : <<y, x>> \in R}

\* Of the sets of predecessors one has no other below it: its element is first.
LEMMA FirstExists ==
  ASSUME NEW S, IsFiniteSet(S), S # {}, NEW R, IsStrictTotalOrder(R, S)
  PROVE  \E x \in S : \A y \in S \ {x} : <<x, y>> \in R
<1> DEFINE T == {Preceding(R, S, x) : x \in S}
<1>1. T \subseteq FiniteSubsetsOf(S)
  BY FS_Subset DEF FiniteSubsetsOf, Preceding
<1>2. T # {}
  OBVIOUS
<1>3. IsWellFoundedOn(StrictSubsetOrdering(S), FiniteSubsetsOf(S))
  BY FS_StrictSubsetOrderingWellFounded
<1>4. PICK t \in T : \A u \in T : <<u, t>> \notin StrictSubsetOrdering(S)
  <2> HIDE DEF T
  <2> QED BY <1>1, <1>2, <1>3, WFMin, Zenon
<1>5. PICK x \in S : t = Preceding(R, S, x)
  OBVIOUS
<1>6. ASSUME NEW y \in S, <<y, x>> \in R PROVE FALSE
  <2>1. Preceding(R, S, y) \subseteq t
    BY <1>5, <1>6 DEF Preceding, IsStrictTotalOrder
  <2>2. y \in t /\ y \notin Preceding(R, S, y)
    BY <1>5, <1>6 DEF Preceding, IsStrictTotalOrder
  <2>3. Preceding(R, S, y) \in T
    OBVIOUS
  <2> QED BY <1>4, <1>5, <2>1, <2>2, <2>3 DEF StrictSubsetOrdering, Preceding
<1> QED BY <1>6 DEF IsStrictTotalOrder

Reversed(R, S) == {p \in S \X S : <<p[2], p[1]>> \in R}

LEMMA LastExists ==
  ASSUME NEW S, IsFiniteSet(S), S # {}, NEW R, IsStrictTotalOrder(R, S)
  PROVE  \E x \in S : \A y \in S \ {x} : <<y, x>> \in R
<1>1. IsStrictTotalOrder(Reversed(R, S), S)
  BY DEF IsStrictTotalOrder, Reversed
<1>2. PICK x \in S : \A y \in S \ {x} : <<x, y>> \in Reversed(R, S)
  BY <1>1, FirstExists
<1> QED BY <1>2 DEF Reversed

\* The first and the last number of a finite set of integers.
LEMMA LeastExists ==
  ASSUME NEW S \in SUBSET Int, IsFiniteSet(S), S # {}
  PROVE  \E x \in S : \A y \in S : x <= y
<1> DEFINE R == {p \in S \X S : p[1] < p[2]}
<1>1. IsStrictTotalOrder(R, S)
  BY DEF IsStrictTotalOrder
<1>2. PICK x \in S : \A y \in S \ {x} : <<x, y>> \in R
  BY <1>1, FirstExists
<1>3. ASSUME NEW y \in S PROVE x <= y
  <2>1. CASE y = x
    BY <2>1
  <2>2. CASE y # x
    <3>1. <<x, y>> \in R
      BY <1>2, <2>2
    <3>2. x < y
      BY <3>1
    <3> QED BY <3>2
  <2> QED BY <2>1, <2>2
<1> QED BY <1>3

LEMMA GreatestExists ==
  ASSUME NEW S \in SUBSET Int, IsFiniteSet(S), S # {}
  PROVE  \E x \in S : \A y \in S : x >= y
<1> DEFINE R == {p \in S \X S : p[1] < p[2]}
<1>1. IsStrictTotalOrder(R, S)
  BY DEF IsStrictTotalOrder
<1>2. PICK x \in S : \A y \in S \ {x} : <<y, x>> \in R
  BY <1>1, LastExists
<1>3. ASSUME NEW y \in S PROVE x >= y
  <2>1. CASE y = x
    BY <2>1
  <2>2. CASE y # x
    <3>1. <<y, x>> \in R
      BY <1>2, <2>2
    <3>2. y < x
      BY <3>1
    <3> QED BY <3>2
  <2> QED BY <2>1, <2>2
<1> QED BY <1>3
=============================================================================
