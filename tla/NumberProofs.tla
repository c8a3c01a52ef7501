---------------------------- MODULE NumberProofs ----------------------------
(***************************************************************************)
(* Induction over the natural numbers, stated for sets: the library's own  *)
(* induction theorem takes a predicate, its least members do not.          *)
(***************************************************************************)
EXTENDS Integers, FiniteSetTheorems, WellFoundedInduction, TLAPS

\* A set of numbers that is not empty has a least member.
LEMMA LeastNumber ==
    ASSUME NEW T, T \subseteq Nat, T # {}
    PROVE  \E x \in T : \A y \in T : x <= y
<1> DEFINE R == OpToRel(<, Nat)
<1>1. IsWellFoundedOn(R, Nat)
  BY NatLessThanWellFounded
<1> HIDE DEF R
<1>2. PICK x \in T : \A y \in T : ~(<<y, x>> \in R)
  BY <1>1, WFMin
<1>3. \A y \in T : y < x => <<y, x>> \in R
  BY DEF R, OpToRel
<1>4. ASSUME NEW y \in T PROVE x <= y
  <2>1. ~(y < x)
    BY <1>2, <1>3
  <2>2. x \in Nat /\ y \in Nat
    OBVIOUS
  <2>. QED BY ONLY <2>1, <2>2
<1>. QED BY <1>4

\* A set of numbers that has 0 and with each its successor has them all.
LEMMA Induction ==
    ASSUME NEW T, T \subseteq Nat, 0 \in T, \A k \in T : k + 1 \in T
    PROVE  T = Nat
<1> SUFFICES ASSUME Nat \ T # {} PROVE FALSE
  OBVIOUS
<1>1. PICK x \in Nat \ T : \A y \in Nat \ T : x <= y
  BY LeastNumber
<1>2. x # 0 /\ x - 1 \in Nat
  BY <1>1
<1>3. x - 1 \in T
  BY <1>1, <1>2
<1>4. (x - 1) + 1 \in T
  BY <1>3
<1>. QED BY <1>1, <1>2, <1>4

\* A finite set of numbers has a first and a last, if it has any.
LEMMA FirstAndLast ==
    ASSUME NEW S, S \subseteq Int, IsFiniteSet(S), S # {}
    PROVE  \E lo, hi \in S : \A x \in S : lo <= x /\ x <= hi
<1> DEFINE Bounded(R) == \E lo, hi \in R : \A x \in R : lo <= x /\ x <= hi
           T == {k \in Nat : \A R \in SUBSET Int : IsFiniteSet(R) /\ Cardinality(R) = k /\ R # {} => Bounded(R)}
<1>1. 0 \in T
  BY FS_EmptySet
<1>2. ASSUME NEW k \in T PROVE k + 1 \in T
  <2> SUFFICES ASSUME NEW R \in SUBSET Int, IsFiniteSet(R), Cardinality(R) = k + 1, R # {} PROVE Bounded(R)
    OBVIOUS
  <2>1. PICK a \in R : TRUE
    OBVIOUS
  <2> DEFINE Q == R \ {a}
  <2>2. IsFiniteSet(Q) /\ Cardinality(Q) = (k + 1) - 1
    BY <2>1, FS_RemoveElement
  <2>3. Q \in SUBSET Int /\ Cardinality(Q) = k /\ k \in Nat
    BY <2>2
  <2>4. CASE Q = {}
    <3>1. R = {a} /\ a \in Int
      BY <2>1, <2>4
    <3>. QED BY <3>1
  <2>5. CASE Q # {}
    <3>1. Bounded(Q)
      <4> HIDE DEF Q, Bounded
      <4>. QED BY <2>2, <2>3, <2>5
    <3>2. PICK lo \in Q, hi \in Q : \A x \in Q : lo <= x /\ x <= hi
      BY <3>1
    <3> DEFINE l == IF a <= lo THEN a ELSE lo
               h == IF hi <= a THEN a ELSE hi
    <3>3. a \in Int /\ lo \in Int /\ hi \in Int /\ lo \in R /\ hi \in R
      BY <2>1
    <3>4. /\ l \in R /\ h \in R /\ l \in Int /\ h \in Int
          /\ l <= a /\ a <= h /\ l <= lo /\ hi <= h
      BY <2>1, <3>3
    <3> HIDE DEF l, h
    <3>5. ASSUME NEW x \in R PROVE l <= x /\ x <= h
      <4>1. CASE x = a
        BY <3>4, <4>1
      <4>2. CASE x # a
        <5>1. x \in Q /\ x \in Int
          BY <4>2
        <5>2. lo <= x /\ x <= hi
          BY <3>2, <5>1
        <5> HIDE DEF Q
        <5>. QED BY <3>3, <3>4, <5>1, <5>2
      <4>. QED BY <4>1, <4>2
    <3>. QED BY <3>4, <3>5
  <2>. QED BY <2>4, <2>5
<1>3. T \subseteq Nat
  OBVIOUS
<1>4. T = Nat
  <2> HIDE DEF T
  <2>. QED BY <1>1, <1>2, <1>3, Induction
<1>5. Cardinality(S) \in T
  BY <1>4, FS_CardinalityType
<1>. QED BY <1>5
=============================================================================
