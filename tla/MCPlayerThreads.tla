--------------------------- MODULE MCPlayerThreads ---------------------------
(* Small instances of PlayerThreads for TLC. *)
EXTENDS PlayerThreads, TLC

Symmetry == Permutations(Players) \cup Permutations(Entities) \cup Permutations(Conns)
=============================================================================
