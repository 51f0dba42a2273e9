----------------------------- MODULE MCGateLocks -----------------------------
(* One client and one hub: two tasks that read connections, beside the main   *)
(* loop, the sweep and the listeners.                                         *)
EXTENDS GateLocks
=============================================================================
