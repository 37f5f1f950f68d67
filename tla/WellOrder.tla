------------------------------- MODULE WellOrder -------------------------------
(***************************************************************************)
(* Sets of numbers have least elements, bounded ones greatest elements.    *)
(* The proofs of the other modules use it where the models say Min, and to *)
(* argue by induction: of the numbers for which a claim fails, there would *)
(* be a least one.                                                         *)
(***************************************************************************)
EXTENDS Naturals, FiniteSetTheorems, TLAPS

\* A set of numbers has a least element: the segments that end in it are
\* finite sets, of which strict inclusion orders a least one.
LEMMA LeastElement ==
  ASSUME NEW T \in SUBSET Nat, T # {}
  PROVE  \E n \in T : \A m \in T : n <= m
<1>1. PICK top \in T : TRUE
  OBVIOUS
<1> DEFINE S == 0 .. top
           K == {0 .. m : m \in {k \in T : k <= top}}
           R == StrictSubsetOrdering(S)
<1>2. IsWellFoundedOn(R, FiniteSubsetsOf(S))
  BY FS_StrictSubsetOrderingWellFounded
<1>3. K \subseteq FiniteSubsetsOf(S) /\ K # {}
  <2>1. \A m \in {k \in T : k <= top} : IsFiniteSet(0 .. m) /\ 0 .. m \subseteq S
    BY FS_Interval
  <2>2. K # {}
    BY <1>1
  <2> QED
    BY <2>1, <2>2 DEF FiniteSubsetsOf
<1>4. PICK X \in K : \A Y \in K : ~(<<Y, X>> \in R)
  <2> HIDE DEF K, R, S
  <2> QED
    BY <1>2, <1>3, WFMin
<1>5. PICK n \in T : n <= top /\ X = 0 .. n
  OBVIOUS
<1>6. ASSUME NEW m \in T, m < n PROVE FALSE
  <2>1. 0 .. m \in K /\ 0 .. m \subseteq S /\ X \subseteq S /\ 0 .. m \subseteq X /\ 0 .. m # X
    BY <1>5, <1>6
  <2>2. <<0 .. m, X>> \in R
    BY <2>1 DEF StrictSubsetOrdering
  <2> QED
    BY <2>1, <2>2, <1>4
<1> QED
  BY <1>5, <1>6

\* A set of numbers that has a bound has a greatest element.
LEMMA GreatestElement ==
  ASSUME NEW T \in SUBSET Nat, T # {}, NEW bound \in Nat, \A m \in T : m <= bound
  PROVE  \E n \in T : \A m \in T : m <= n
<1> DEFINE B == {b \in Nat : \A m \in T : m <= b}
<1>1. B \in SUBSET Nat /\ B # {}
  OBVIOUS
<1>2. PICK n \in B : \A b \in B : n <= b
  <2> HIDE DEF B
  <2> QED
    BY <1>1, LeastElement
<1>3. n \in T
  <2> SUFFICES ASSUME n \notin T PROVE FALSE
    OBVIOUS
  <2>1. \A m \in T : m < n
    BY <1>2
  <2>2. n > 0
    <3>1. PICK m \in T : TRUE
      OBVIOUS
    <3> QED
      BY <1>2, <2>1, <3>1
  <2>3. n - 1 \in B
    BY <1>2, <2>1, <2>2
  <2> QED
    BY <1>2, <2>3
<1> QED
  BY <1>2, <1>3

\* Induction up to n, for a set of numbers.
LEMMA UpTo ==
  ASSUME NEW n \in Nat, NEW T, 0 \in T, \A i \in 1 .. n : i - 1 \in T => i \in T
  PROVE  \A i \in 0 .. n : i \in T
<1> DEFINE Bad == {i \in 0 .. n : i \notin T}
<1>1. Bad = {}
  <2> SUFFICES ASSUME Bad # {} PROVE FALSE
    OBVIOUS
  <2>1. Bad \in SUBSET Nat
    OBVIOUS
  <2>2. PICK k \in Bad : \A i \in Bad : k <= i
    <3> HIDE DEF Bad
    <3> QED
      BY <2>1, LeastElement
  <2>3. k # 0 /\ k \in 1 .. n /\ k - 1 \in 0 .. n /\ k - 1 \notin Bad
    BY <2>2
  <2> QED
    BY <2>2, <2>3
<1> QED
  BY <1>1
================================================================================
