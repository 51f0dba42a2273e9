--------------------------- MODULE MCPlayerManager ---------------------------
EXTENDS PlayerManager, TLC

Symmetry == Permutations(Players) \cup Permutations(Entities) \cup Permutations(Conns)
=============================================================================
