---------------------------- MODULE GateClients ----------------------------
(***************************************************************************)
(* The gate's bookkeeping of client connections and of the entities they   *)
(* see: ConnManager.clients, the ClientProxy of every connection and the   *)
(* connection fields of every Entity (server/lib/gate/src).                *)
(*                                                                         *)
(* Entity tables are written by the main loop only, one handler at a time, *)
(* so a handler is one action; connection tasks, the heartbeat task and    *)
(* the listener touch only `clients' and interleave between handlers.      *)
(***************************************************************************)
EXTENDS Naturals, FiniteSets

CONSTANTS
  Conns,      \* connection ids (fresh uuids: an id is accepted once)
  Hubs,       \* hub names
  Entities,   \* entity ids
  NoConn,     \* absent Option<String> main_conn_id
  NoHub,      \* hub of an entity the gate does not hold
  MaxDup      \* bound: occurrences of one id in Entity.conn_ids

ASSUME NoConnAssumption == NoConn \notin Conns
ASSUME NoHubAssumption == NoHub \notin Hubs
ASSUME MaxDupAssumption == MaxDup \in Nat \ {0}

VARIABLES
  link,       \* socket of a connection: "new", "up", "down" (sends fail)
  clients,    \* keys of ConnManager.clients
  cEntities,  \* ClientProxy.entities
  cHubs,      \* ClientProxy.hub_proxies (names)
  cWait,      \* ClientProxy.wait_transfer_entity
  eHub,       \* Entity.hub_name, NoHub when the entity is not in the table
  eMain,      \* Entity.main_conn_id
  eConns,     \* Entity.conn_ids, as the number of occurrences of each id
  hubMap,     \* EntityManager.client_hub_map
  hung,       \* the main loop waits for a lock it holds itself
  clientHas,  \* entities the client was told to create and not to delete
  removed,    \* <<e, c>>: c was told by ClientRemoveRemoteEntity to drop e
  notified    \* <<c, h>>: h was sent ClientDisconnnect or KickOffClient for c

clientVars == <<clients, cEntities, cHubs, cWait>>
entityVars == <<eHub, eMain, eConns, hubMap>>
history == <<clientHas, removed, notified>>
vars == <<link, clientVars, entityVars, hung, history>>

Init ==
  /\ link = [c \in Conns |-> "new"]
  /\ clients = {}
  /\ cEntities = [c \in Conns |-> {}]
  /\ cHubs = [c \in Conns |-> {}]
  /\ cWait = [c \in Conns |-> {}]
  /\ eHub = [e \in Entities |-> NoHub]
  /\ eMain = [e \in Entities |-> NoConn]
  /\ eConns = [e \in Entities |-> [c \in Conns |-> 0]]
  /\ hubMap = [c \in Conns |-> {}]
  /\ hung = FALSE
  /\ clientHas = [c \in Conns |-> {}]
  /\ removed = {}
  /\ notified = {}

-----------------------------------------------------------------------------
\* send_client_msg through the table succeeds
SendOk(c) == c \in clients /\ link[c] = "up"

\* Connections of S a send to which fails; the mutant lets one failure
\* condemn the whole list.
UnreachableAll(S) == IF \A c \in S : SendOk(c) THEN {} ELSE S
Unreachable(S) == {c \in S : ~SendOk(c)}

\* Entity.delete_conn_id takes one occurrence away.
DropOne(n) == IF n > 0 THEN n - 1 ELSE 0

\* e.main_conn_id or e.conn_ids names c
Attached(e, c) == eMain[e] = c \/ eConns[e][c] > 0

\* f with e added to, or taken from, the set of every connection in S
Grant(f, S, e) == [c \in Conns |-> IF c \in S THEN f[c] \cup {e} ELSE f[c]]
Revoke(f, S, e) == [c \in Conns |-> IF c \in S THEN f[c] \ {e} ELSE f[c]]

\* Entity::new: an entity enters the table with no main connection
MainOfNew == NoConn

\* "get_entity_mut, or Entity::new and update_entity": an entity the gate
\* holds keeps its hub_name, and client_hub_map is fed only on insertion
EnsureEntity(e, h) ==
  /\ eHub' = [eHub EXCEPT ![e] = IF @ = NoHub THEN h ELSE @]
  /\ hubMap' = IF eHub[e] = NoHub /\ MainOfNew # NoConn
               THEN [hubMap EXCEPT ![MainOfNew] = @ \cup {h}]
               ELSE hubMap

\* The connections of S record h in hub_proxies; the mutant forgets to.
ServeNone(S, h) == cHubs' = cHubs
Serve(S, h) == cHubs' = Grant(cHubs, S, h)

\* Every connection of S that is in the table drops e from its entities; the
\* mutant skips the removal.
UnindexNone(S, e) == cEntities' = cEntities
Unindex(S, e) == cEntities' = Revoke(cEntities, S \cap clients, e)

\* The connections of S are told to create e: their index and their clients
\* grow together.  The mutant sends without indexing.
ShowUnindexed(e, S) ==
  /\ cEntities' = cEntities
  /\ clientHas' = Grant(clientHas, S, e)
  /\ removed' = removed \ ({e} \X S)
Show(e, S) ==
  /\ cEntities' = Grant(cEntities, S, e)
  /\ clientHas' = Grant(clientHas, S, e)
  /\ removed' = removed \ ({e} \X S)

\* delete_client_proxy: the connection leaves the table, its socket stays open
DeleteProxies(S) == clients' = clients \ S

-----------------------------------------------------------------------------
(* Connections: the listener, the sockets, the reader tasks.               *)

Accept(c) ==
  /\ ~hung
  /\ link[c] = "new"
  /\ link' = [link EXCEPT ![c] = "up"]
  /\ clients' = clients \cup {c}
  /\ UNCHANGED <<cEntities, cHubs, cWait, entityVars, hung, history>>

\* The peer disappears; sends fail from here on.
LinkDown(c) ==
  /\ link[c] = "up"
  /\ link' = [link EXCEPT ![c] = "down"]
  /\ UNCHANGED <<clientVars, entityVars, hung, history>>

\* The reader task ends and ClientProxyCloseCallback closes the client.
OnClose(c) ==
  /\ ~hung
  /\ link[c] = "down"
  /\ c \in clients
  /\ DeleteProxies({c})
  /\ UNCHANGED <<link, cEntities, cHubs, cWait, entityVars, hung, history>>

\* The heartbeat task closes a silent connection and tells the hubs that
\* client_hub_map lists for it.
CloseStale(c) ==
  /\ ~hung
  /\ link[c] # "new"
  /\ DeleteProxies({c})
  /\ link' = [link EXCEPT ![c] = IF c \in clients THEN "down" ELSE @]
  /\ notified' = notified \cup ({c} \X hubMap[c])
  /\ hubMap' = [hubMap EXCEPT ![c] = {}]
  /\ UNCHANGED <<cEntities, cHubs, cWait, eHub, eMain, eConns, hung,
                 clientHas, removed>>

-----------------------------------------------------------------------------
(* Entity messages from hub h.                                             *)

\* CreateRemoteEntity with a main connection and no others
CreateMain(h, e, c) ==
  /\ ~hung
  /\ IF SendOk(c)
     THEN /\ Show(e, {c})
          /\ EnsureEntity(e, h)
          /\ eMain' = [eMain EXCEPT ![e] = c]
          /\ Serve({c}, h)
          /\ UNCHANGED <<clients, eConns, notified>>
     ELSE /\ DeleteProxies({c})
          /\ UNCHANGED <<cEntities, cHubs, entityVars, history>>
  /\ UNCHANGED <<link, cWait, hung>>

\* CreateRemoteEntity for a list of connections and no main one
CreateRemote(h, e, S) ==
  LET ok == {c \in S : SendOk(c)} IN
  /\ ~hung
  /\ \A c \in ok : eConns[e][c] < MaxDup
  /\ Show(e, ok)
  /\ IF ok # {} THEN EnsureEntity(e, h) ELSE UNCHANGED <<eHub, hubMap>>
  /\ eConns' = [eConns EXCEPT ![e] =
                  [c \in Conns |-> IF c \in ok THEN @[c] + 1 ELSE @[c]]]
  /\ Serve(ok, h)
  /\ DeleteProxies(Unreachable(S))
  /\ UNCHANGED <<link, cWait, eMain, hung, notified>>

\* RefreshEntity; a non-main refresh does not record the hub in hub_proxies
Refresh(h, e, c, isMain) ==
  /\ ~hung
  /\ IF SendOk(c)
     THEN /\ Show(e, {c})
          /\ EnsureEntity(e, h)
          /\ UNCHANGED <<clients, notified>>
          /\ IF isMain
             THEN /\ eMain' = [eMain EXCEPT ![e] = c]
                  /\ Serve({c}, h)
                  /\ UNCHANGED eConns
             ELSE /\ eConns[e][c] < MaxDup
                  /\ eConns' = [eConns EXCEPT ![e][c] = @ + 1]
                  /\ UNCHANGED <<eMain, cHubs>>
     ELSE /\ DeleteProxies({c})
          /\ UNCHANGED <<cEntities, cHubs, entityVars, history>>
  /\ UNCHANGED <<link, cWait, hung>>

\* DeleteRemoteEntity: the entity goes, every attached client is told
DeleteEntity(e) ==
  LET told == {c \in Conns : Attached(e, c)} IN
  /\ ~hung
  /\ eHub[e] # NoHub
  /\ eHub' = [eHub EXCEPT ![e] = NoHub]
  /\ eMain' = [eMain EXCEPT ![e] = NoConn]
  /\ eConns' = [eConns EXCEPT ![e] = [c \in Conns |-> 0]]
  /\ Unindex(told, e)
  /\ clientHas' = Revoke(clientHas, {c \in told : SendOk(c)}, e)
  /\ DeleteProxies(Unreachable(told))
  /\ UNCHANGED <<link, cHubs, cWait, hubMap, hung, removed, notified>>

\* ClientRemoveRemoteEntity: one connection is told to drop e, and one
\* occurrence of it leaves conn_ids; main_conn_id is not looked at
ClientRemove(e, c) ==
  /\ ~hung
  /\ IF SendOk(c)
     THEN /\ clientHas' = Revoke(clientHas, {c}, e)
          /\ UNCHANGED clients
     ELSE /\ DeleteProxies({c})
          /\ UNCHANGED clientHas
  /\ Unindex({c}, e)
  /\ removed' = removed \cup {<<e, c>>}
  /\ eConns' = [eConns EXCEPT ![e][c] = DropOne(@)]
  /\ UNCHANGED <<link, cHubs, cWait, eHub, eMain, hubMap, hung, notified>>

-----------------------------------------------------------------------------
(* Calls from a hub to clients: only failed sends change the tables.       *)

\* CallRpc goes to the main connection.  main_conn_id is then cleared on a
\* copy of the entity, so the table keeps it.
CallMain(e) ==
  /\ ~hung
  /\ eMain[e] \in Conns
  /\ ~SendOk(eMain[e])
  /\ DeleteProxies({eMain[e]})
  /\ UNCHANGED <<link, cEntities, cHubs, cWait, entityVars, hung, history>>

\* CallRsp and CallErr answer a named connection, if the entity exists.
CallReply(e, c) ==
  /\ ~hung
  /\ eHub[e] # NoHub
  /\ ~SendOk(c)
  /\ DeleteProxies({c})
  /\ UNCHANGED <<link, cEntities, cHubs, cWait, entityVars, hung, history>>

\* CallGlobal to everyone, or the answer to one heartbeat (S = {c})
SendToAll(S) ==
  /\ ~hung
  /\ DeleteProxies(Unreachable(S))
  /\ UNCHANGED <<link, cEntities, cHubs, cWait, entityVars, hung, history>>

\* CallNtf to a named connection.  A failed send clears main_conn_id of the
\* entity, whichever connection failed.
NotifyOne(e, c) ==
  /\ ~hung
  /\ c \in clients
  /\ link[c] = "down"
  /\ DeleteProxies({c})
  /\ eMain' = [eMain EXCEPT ![e] = NoConn]
  /\ eConns' = [eConns EXCEPT ![e][c] = DropOne(@)]
  /\ UNCHANGED <<link, cEntities, cHubs, cWait, eHub, hubMap, hung, history>>

\* CallNtf to every connection of the entity.  A connection listed n times is
\* tried n times and loses n occurrences; the main one is tried once.
NotifyAll(e) ==
  LET failed == {c \in clients : Attached(e, c) /\ link[c] = "down"}
      mainLost == eMain[e] # NoConn /\ ~SendOk(eMain[e])
      left(c) == IF c \notin failed THEN eConns[e][c]
                 ELSE IF c = eMain[e] THEN DropOne(eConns[e][c]) ELSE 0
  IN
  /\ ~hung
  /\ eHub[e] # NoHub
  /\ failed # {} \/ mainLost
  /\ DeleteProxies(failed)
  /\ eMain' = [eMain EXCEPT ![e] = IF mainLost THEN NoConn ELSE @]
  /\ eConns' = [eConns EXCEPT ![e] = [c \in Conns |-> left(c)]]
  /\ UNCHANGED <<link, cEntities, cHubs, cWait, eHub, hubMap, hung, history>>

-----------------------------------------------------------------------------
(* Kick-off and transfer.                                                  *)

\* check_all_hub_kick_off: with no hub left it locks the connection manager,
\* which both callers already hold
CheckAllHubKickOff(left) == hung' = (left = {})

\* KickOff: the client and each of its hubs are told
KickOff(c) ==
  /\ ~hung
  /\ c \in clients
  /\ notified' = notified \cup ({c} \X cHubs[c])
  /\ CheckAllHubKickOff(cHubs[c])
  /\ UNCHANGED <<link, clientVars, entityVars, clientHas, removed>>

\* KickOffComplete from hub h
KickOffComplete(h, c) ==
  /\ ~hung
  /\ c \in clients
  /\ cHubs' = [cHubs EXCEPT ![c] = @ \ {h}]
  /\ CheckAllHubKickOff(cHubs[c] \ {h})
  /\ UNCHANGED <<link, clients, cEntities, cWait, entityVars, history>>

\* Transfer: the entities whose hub the client is connected to are waited for
Transfer(c) ==
  /\ ~hung
  /\ c \in clients
  /\ cWait' = [cWait EXCEPT ![c] =
                 @ \cup {e \in cEntities[c] : eHub[e] \in cHubs[c]}]
  /\ UNCHANGED <<link, clients, cEntities, cHubs, entityVars, hung, history>>

\* TransferComplete names a connection of this gate
TransferComplete(c, e) ==
  /\ ~hung
  /\ c \in clients
  /\ cWait' = [cWait EXCEPT ![c] = @ \ {e}]
  /\ UNCHANGED <<link, clients, cEntities, cHubs, entityVars, hung, history>>

-----------------------------------------------------------------------------
ConnStep ==
  \E c \in Conns : Accept(c) \/ LinkDown(c) \/ OnClose(c) \/ CloseStale(c)

EntityStep ==
  \E e \in Entities :
    \/ \E h \in Hubs :
         \/ \E c \in Conns : CreateMain(h, e, c)
         \/ \E S \in SUBSET Conns : CreateRemote(h, e, S)
         \/ \E c \in Conns, isMain \in BOOLEAN : Refresh(h, e, c, isMain)
    \/ DeleteEntity(e)
    \/ \E c \in Conns : ClientRemove(e, c)

CallStep ==
  \/ \E e \in Entities : CallMain(e) \/ NotifyAll(e)
  \/ \E e \in Entities, c \in Conns : CallReply(e, c) \/ NotifyOne(e, c)
  \/ \E S \in {clients} \cup {{c} : c \in clients} : SendToAll(S)

MoveStep ==
  \E c \in Conns :
    \/ KickOff(c)
    \/ \E h \in Hubs : KickOffComplete(h, c)
    \/ Transfer(c)
    \/ \E e \in Entities : TransferComplete(c, e)

Next == ConnStep \/ EntityStep \/ CallStep \/ MoveStep

Spec == Init /\ [][Next]_vars

-----------------------------------------------------------------------------
\* Every variable keeps the shape its Rust field has.
TypeOK ==
  /\ link \in [Conns -> {"new", "up", "down"}]
  /\ clients \subseteq Conns
  /\ cEntities \in [Conns -> SUBSET Entities]
  /\ cHubs \in [Conns -> SUBSET Hubs]
  /\ cWait \in [Conns -> SUBSET Entities]
  /\ eHub \in [Entities -> Hubs \cup {NoHub}]
  /\ eMain \in [Entities -> Conns \cup {NoConn}]
  /\ eConns \in [Entities -> [Conns -> Nat]]
  /\ hubMap \in [Conns -> SUBSET Hubs]
  /\ hung \in BOOLEAN
  /\ clientHas \in [Conns -> SUBSET Entities]
  /\ removed \subseteq Entities \X Conns
  /\ notified \subseteq Conns \X Hubs

\* While a connection is in the table, the entities recorded for it are the
\* ones its client holds: create, refresh, delete and remove change the index
\* and the client together, failed sends included.
IndexMatchesClientView ==
  \A c \in clients : cEntities[c] = clientHas[c]

\* A connection an entity would send to has the entity in its index, so that a
\* transfer, which walks the index, moves it; the exception is a connection
\* that ClientRemoveRemoteEntity named, which may stay main or listed.
AttachedIsIndexed ==
  \A e \in Entities, c \in clients :
    Attached(e, c) /\ <<e, c>> \notin removed => e \in cEntities[c]

\* A client that is the main connection of an entity has a hub to be kicked
\* off through, as long as the main loop runs.
MainHasHubToNotify ==
  \A e \in Entities :
    eMain[e] \in clients /\ ~hung => cHubs[eMain[e]] # {}

\* No message about an entity drops a connection whose socket works: a
\* connection leaves the table only when its socket is dead or closed by
\* that same step.
HealthyClientStays ==
  [][\A c \in clients \ clients' : link[c] = "down" \/ link'[c] = "down"]_vars

=============================================================================
