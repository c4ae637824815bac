---------------------------- MODULE LeastProofs ----------------------------
EXTENDS Least, WellFoundedInduction, TLAPS

(* A non-empty set of naturals has a least member, so a loop that stops on  *)
(* some index has a first one it stops on.                                  *)
THEOREM LeastIsLeast ==
  ASSUME NEW S, S \subseteq Nat, S # {}
  PROVE  IsLeast(Least(S), S)
<1>. DEFINE Below == {p \in Nat \X Nat : p[1] < p[2]}
<1>1. IsWellFoundedOn(Below, Nat)
  BY NatLessThanWellFounded DEF OpToRel
<1>2. PICK x \in S : \A y \in S : ~(<<y, x>> \in Below)
  <2>. HIDE DEF Below
  <2>. QED
    BY <1>1, WFMin
<1>3. \A y \in S : x <= y
  <2>1. SUFFICES ASSUME NEW y \in S, ~(x <= y) PROVE FALSE
    OBVIOUS
  <2>2. y \in Nat /\ x \in Nat /\ y < x
    BY <2>1
  <2>. QED
    BY <2>2, <1>2
<1>. QED
  BY <1>3 DEF Least, IsLeast
=============================================================================
