---------------------------- MODULE MCEntitlements ----------------------------
(* Entitlements with two callers; limits with and without room above the     *)
(* threshold of the warning, and the two that are not numbers.               *)
EXTENDS Entitlements, TLC

CONSTANTS c1, c2

Symmetry == Permutations(Callers)
=============================================================================
