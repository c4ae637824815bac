------------------------------- MODULE Least -------------------------------
(***************************************************************************)
(* The smallest member of a set of naturals: how the specifications say    *)
(* "the first index at which a loop stops".                                *)
(***************************************************************************)
EXTENDS Naturals

IsLeast(x, S) == x \in S /\ \A y \in S : x <= y

Least(S) == CHOOSE x \in S : \A y \in S : x <= y
=============================================================================
