--------------------------- MODULE MCRotationLog ---------------------------
(* Instances of RotationLog for TLC. *)
EXTENDS RotationLog, TLC

CONSTANTS c1, c2, c3, c4

CallSymmetry == Permutations(Call)
============================================================================
