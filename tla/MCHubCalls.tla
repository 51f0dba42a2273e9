------------------------------ MODULE MCHubCalls ------------------------------
(* Small instances of HubCalls for TLC. *)
EXTENDS HubCalls
=============================================================================
