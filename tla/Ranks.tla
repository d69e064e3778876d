------------------------------- MODULE Ranks -------------------------------
(***************************************************************************)
(* A finite set of numbers in order, for the filters and sorts of the      *)
(* dashboard: each element stands at its rank.                             *)
(***************************************************************************)
EXTENDS Integers, FiniteSets

Ascending(S) ==
    [i \in 1..Cardinality(S) |-> CHOOSE x \in S : Cardinality({y \in S : y <= x}) = i]
=============================================================================
