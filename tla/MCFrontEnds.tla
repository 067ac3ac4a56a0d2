---------------------------- MODULE MCFrontEnds ----------------------------
(* Instances of the front ends for TLC. *)
EXTENDS FrontEnds, TLC

CONSTANTS A, B, C

Distinct == [k \in Keys |-> k]
NameSymmetry == Permutations(Keys)
=============================================================================
