--------------------------- MODULE MCGateRouting ---------------------------
(* Small instances of GateRouting for TLC. *)
EXTENDS GateRouting
=============================================================================
