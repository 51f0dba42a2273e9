---------------------------- MODULE PlayerObjects ----------------------------
(* The player objects of a hub, and which of them serves each entity. *)
CONSTANTS
  Players,    \* player objects that may be constructed
  Entities,   \* entity ids
  Conns,      \* client connection ids
  NoPlayer, NoEntity, NoConn

ASSUME NullAssumption == /\ NoPlayer \notin Players
                         /\ NoEntity \notin Entities
                         /\ NoConn \notin Conns

VARIABLES
  players,    \* player_manager.players
  entityId,   \* entity_id of each object, NoEntity before its construction
  clientConn  \* client_conn_id of each object
=============================================================================
