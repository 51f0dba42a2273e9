---------------------------- MODULE HubsAndGates ----------------------------
(* The servers that connect to each other: hubs dial and accept hubs and gates, *)
(* gates dial and accept hubs only. RegServer says which kind a server is.      *)
CONSTANTS
  Hubs,   \* names of hubs
  Gates   \* names of gates

\* The servers whose links a hub may keep, by name.
Servers == Hubs \cup Gates

\* No server is of both kinds.
ASSUME KindsAssumption == \A name \in Servers : ~(name \in Hubs /\ name \in Gates)
=============================================================================
