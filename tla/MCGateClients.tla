--------------------------- MODULE MCGateClients ---------------------------
(* Small instances of GateClients for TLC. *)
EXTENDS GateClients, TLC

\* Connections, entities and hubs are interchangeable.
Symmetry == Permutations(Conns) \cup Permutations(Hubs) \cup Permutations(Entities)
=============================================================================
