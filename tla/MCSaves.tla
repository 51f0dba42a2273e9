-------------------------------- MODULE MCSaves --------------------------------
(* Small instances of Saves for TLC. *)
EXTENDS Saves, TLC

Symmetry == Permutations(Objects)
=============================================================================
