----------------------------- MODULE MCHubLocks -----------------------------
(* One link that a peer made and one that the hub made, one dialing future.    *)
EXTENDS HubLocks
=============================================================================
