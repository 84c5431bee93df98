---------------------------- MODULE LeastNumber ----------------------------
(***************************************************************************)
(* What an induction over the natural numbers rests on here: the least     *)
(* counterexample, and the greatest one of those that are bounded.         *)
(***************************************************************************)
EXTENDS Integers, WellFoundedInduction, TLAPS

\* Of some natural numbers one is the least.
LEMMA Least ==
    ASSUME NEW T \in SUBSET Nat, T # {}
    PROVE  \E x \in T : \A y \in T : x <= y
  <1> DEFINE R == OpToRel(<, Nat)
  <1>1. IsWellFoundedOn(R, Nat)
    BY NatLessThanWellFounded
  <1>2. \A x, y \in Nat : <<y, x>> \in R <=> y < x
    BY DEF OpToRel
  <1> HIDE DEF R
  <1>3. PICK x \in T : \A y \in T : <<y, x>> \notin R
    BY <1>1, WFMin
  <1>4. x \in Nat /\ \A y \in T : y \in Nat
    OBVIOUS
  <1>5. ASSUME NEW y \in T PROVE x <= y
    <2>1. ~(y < x)
      BY <1>2, <1>3, <1>4, Zenon
    <2> QED
      BY <2>1, <1>4
  <1> QED
    BY <1>5

\* Of some natural numbers that have a bound one is the greatest.
LEMMA Greatest ==
    ASSUME NEW T \in SUBSET Nat, T # {}, NEW n \in Nat, \A x \in T : x <= n
    PROVE  \E x \in T : \A y \in T : y <= x
  <1> DEFINE U == {u \in Nat : \E x \in T : x + u = n}
  <1>1. ASSUME NEW x \in T PROVE n - x \in U
    BY <1>1
  <1>2. PICK u \in U : \A v \in U : u <= v
    <2>1. U # {}
      BY <1>1
    <2> HIDE DEF U
    <2>2. U \in SUBSET Nat
      BY DEF U
    <2> QED
      BY <2>1, <2>2, Least
  <1>3. PICK x \in T : x + u = n
    BY DEF U
  <1> HIDE DEF U
  <1>4. ASSUME NEW y \in T PROVE y <= x
    <2>1. n - y \in U
      BY <1>1
    <2>2. u <= n - y
      BY <2>1, <1>2
    <2>3. x \in Nat /\ y \in Nat /\ u \in Nat
      BY DEF U
    <2> QED
      BY <2>2, <2>3, <1>3
  <1> QED
    BY <1>4
=============================================================================
