------------------------------ MODULE MCFatFs ------------------------------
(* Instances of FatFs for TLC: short names that keep every key apart, and  *)
(* short names that drop the trailing blank of a key.                      *)
EXTENDS FatFs, TLC

CONSTANTS A, B, C, BlankA

Distinct == [k \in Keys |-> k]
NameSymmetry == Permutations(Keys)
Trimming == [k \in Keys |-> IF k = BlankA THEN A ELSE k]
=============================================================================
