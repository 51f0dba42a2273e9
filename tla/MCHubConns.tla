----------------------------- MODULE MCHubConns -----------------------------
(* Small instances of HubConns for TLC. *)
EXTENDS HubConns, TLC

Perms == Permutations(Links)
=============================================================================
