---------------------------- MODULE PlayerManager ----------------------------
(***************************************************************************)
(* The player manager of a hub (server/engine/player.py). It keeps two     *)
(* tables: players, from an entity to the player object that serves it,    *)
(* and conn_id_players, from a client connection to the player objects on  *)
(* it. The second one must follow the first through every login, transfer  *)
(* and disconnect: it is what a disconnect walks to end sessions.          *)
(*                                                                         *)
(* The events come from several gates and from login coroutines            *)
(* (conn_msg_handle.py, login.py), so a login may finish after its client  *)
(* left and a disconnect of an old connection may come at any time after   *)
(* the transfer off it. Each action below is one call. Logins run on the   *)
(* thread of the coroutines and everything else on the main thread; what   *)
(* happens when two calls overlap is the subject of PlayerThreads.         *)
(*                                                                         *)
(* conn_id_players holds lists without repetition whose order matters to   *)
(* nobody (sets here); an absent key is the empty set.                     *)
(***************************************************************************)
EXTENDS PlayerObjects

VARIABLE onConn  \* player_manager.conn_id_players

vars == <<players, onConn, entityId, clientConn>>

FieldTypes ==
  /\ players \in [Entities -> Players \cup {NoPlayer}]
  /\ onConn \in [Conns -> SUBSET Players]
  /\ entityId \in [Players -> Entities \cup {NoEntity}]
  /\ clientConn \in [Players -> Conns \cup {NoConn}]

Registered(p) == /\ entityId[p] # NoEntity
                 /\ players[entityId[p]] = p

Init ==
  /\ players = [e \in Entities |-> NoPlayer]
  /\ onConn = [c \in Conns |-> {}]
  /\ entityId = [p \in Players |-> NoEntity]
  /\ clientConn = [p \in Players |-> NoConn]

-----------------------------------------------------------------------------
\* Mutant of Detach: add_player without __detach_player_conn__.
KeepAttached(e) == onConn

\* conn_id_players once the object that served e is taken off its connection.
Detach(e) ==
  [c \in Conns |-> IF players[e] # NoPlayer /\ clientConn[players[e]] = c
                   THEN onConn[c] \ {players[e]} ELSE onConn[c]]

\* The constructor of a player sets its fields and registers it.
NewPlayer(p, e, c) ==
  /\ entityId[p] = NoEntity
  /\ entityId' = [entityId EXCEPT ![p] = e]
  /\ clientConn' = [clientConn EXCEPT ![p] = c]
  /\ players' = [players EXCEPT ![e] = p]
  /\ onConn' = [Detach(e) EXCEPT ![c] = @ \cup {p}]

\* add_player for an object that was constructed before: games call it again
\* after the constructor, when p may have been replaced, moved or ended.
AddAgain(p) ==
  /\ entityId[p] # NoEntity
  /\ players' = [players EXCEPT ![entityId[p]] = p]
  /\ onConn' = [Detach(entityId[p]) EXCEPT ![clientConn[p]] = @ \cup {p}]
  /\ UNCHANGED <<entityId, clientConn>>

\* Mutant of Refile: only the player whose control is transferred is filed
\* under the new connection, and not those that move along with it.
RefileMoverOnly(old, c, moved) ==
  [x \in Conns |-> IF x = c THEN moved \ onConn[old] ELSE IF x = old THEN {} ELSE onConn[x]]

\* conn_id_players once the list of connection old, which is moved, is filed
\* under c: the old key is popped, and what c had is overwritten.
Refile(old, c, moved) ==
  [x \in Conns |-> IF x = c THEN moved ELSE IF x = old THEN {} ELSE onConn[x]]

\* A gate hands the control of e over to connection c (TransferEntityControl):
\* every object on e's present connection goes to c with it.
UpdateConn(e, c) ==
  /\ players[e] # NoPlayer
  /\ LET old   == clientConn[players[e]]
         moved == onConn[old] \cup {players[e]}
     IN  /\ clientConn' = [p \in Players |-> IF p \in moved THEN c ELSE clientConn[p]]
         /\ onConn' = Refile(old, c, moved)
  /\ UNCHANGED <<players, entityId>>

\* The objects that player_offline(c) ends: those filed under c that are
\* still on c and still serve their entity.
Ending(c) == {p \in onConn[c] : clientConn[p] = c /\ Registered(p)}

\* The client of c left, or was kicked off.
PlayerOffline(c) ==
  /\ players' = [e \in Entities |-> IF players[e] \in Ending(c) THEN NoPlayer
                                    ELSE players[e]]
  /\ onConn' = [onConn EXCEPT ![c] = {}]
  /\ UNCHANGED <<entityId, clientConn>>

Next ==
  \/ \E p \in Players, e \in Entities, c \in Conns : NewPlayer(p, e, c)
  \/ \E p \in Players : AddAgain(p)
  \/ \E e \in Entities, c \in Conns : UpdateConn(e, c)
  \/ \E c \in Conns : PlayerOffline(c)

Spec == Init /\ [][Next]_vars

-----------------------------------------------------------------------------
\* Types. A registered object was constructed for the entity it serves, and an
\* object has a client's connection from its construction on: add_player runs
\* last in the constructor.
RegisteredIsBuilt ==
  /\ \A e \in Entities : players[e] # NoPlayer => entityId[players[e]] = e
  /\ \A p \in Players : entityId[p] # NoEntity => clientConn[p] # NoConn

TypeOK == FieldTypes /\ RegisteredIsBuilt

\* What is filed under a connection is an object on that connection that still
\* serves its entity. An object that was replaced or moved away and stays
\* filed would be ended by the disconnect of a connection it left, and take
\* the new session of its entity along.
FiledIsLive == \A c \in Conns : \A p \in onConn[c] : clientConn[p] = c /\ Registered(p)

\* The player manager keeps the promise of PlayerSessions: one session for
\* each entity, moved together, ended by the disconnect of its connection.
\* An orphan is a registered object that is not filed under its connection.
SessionOf(e) == IF players[e] = NoPlayer THEN NoConn ELSE clientConn[players[e]]
Orphans == {e \in Entities : /\ players[e] # NoPlayer
                             /\ players[e] \notin onConn[SessionOf(e)]}
Sessions == INSTANCE PlayerSessions WITH session <- [e \in Entities |-> SessionOf(e)],
                                         orphans <- Orphans
KeepsSessions == Sessions!Spec
=============================================================================
