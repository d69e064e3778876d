----------------------------- MODULE MCRouting -----------------------------
(* RoutingEditor for TLC: nothing tells the sites apart.                   *)
EXTENDS RoutingEditor, TLC

Symmetry == Permutations(Sites)
=============================================================================
