------------------------------ MODULE GateLocks ------------------------------
(***************************************************************************)
(* Which locks the tasks of a gate hold, and in which order they take      *)
(* them. The main loop handles messages with the message handle of hubs or *)
(* of clients locked; readers lock it to put a message into its queue;     *)
(* the sweep for stale clients, the listeners and the close callbacks run  *)
(* besides it. A client or a hub is the lock of its proxy, and the task    *)
(* that reads its connection. The lock of a connection's writer is always  *)
(* the last one taken, and is left out.                                    *)
(***************************************************************************)
EXTENDS Locks

CONSTANTS Clients, Hubs

\* The locks beside those of the proxies: the connection manager and what it
\* refers to, and the two message handles.
ConnMgr == "conn_mgr"
HubMsgs == "hub_msg_handle"
ClientMsgs == "client_msg_handle"
Consul == "consul_impl"
Redis == "redis_service"
Offset == "offset_time"
CloseHandle == "close"
SharedLocks == {ConnMgr, HubMsgs, ClientMsgs, Consul, Redis, Offset, CloseHandle}

\* The tasks beside those that read a connection.
Main == "run"
Sweeper == "start_conn_heartbeats_poll"
Listener == "listen"

NamesDiffer ==
  /\ Clients \cap Hubs = {}
  /\ (Clients \cup Hubs) \cap (SharedLocks \cup {Main, Sweeper, Listener}) = {}

ASSUME NamesAssumption == NamesDiffer

GateTasks == {Main, Sweeper, Listener} \cup Clients \cup Hubs

-----------------------------------------------------------------------------
(* The main loop, on messages of hubs.                                     *)

\* do_reg_hub: set_hub_info files the hub under its name.
RegHub(h) == <<{HubMsgs}, {HubMsgs, h}, {HubMsgs}, {HubMsgs, ConnMgr},
  {HubMsgs, ConnMgr, h}, {HubMsgs}, {HubMsgs, h}, {HubMsgs}, {HubMsgs, ConnMgr},
  {HubMsgs}, {HubMsgs, h}>>

\* do_reg_server_callback releases the lock of the connection in Redis.
RegCallback(h) == <<{HubMsgs}, {HubMsgs, h}, {HubMsgs}, {HubMsgs, ConnMgr},
  {HubMsgs, ConnMgr, Redis}>>

\* The handlers that pass something on to a client, or change what it has.
ToClient(h, c) == <<{HubMsgs}, {HubMsgs, h}, {HubMsgs}, {HubMsgs, ConnMgr},
  {HubMsgs, ConnMgr, c}, {HubMsgs, ConnMgr}>>

\* do_call_client_ntf locks the clients without the connection manager.
NotifyClient(h, c) == <<{HubMsgs}, {HubMsgs, h}, {HubMsgs}, {HubMsgs, ConnMgr},
  {HubMsgs}, {HubMsgs, c}, {HubMsgs}, {HubMsgs, ConnMgr}>>

\* do_transfer_client and do_kick_off_client go through the hubs of a client.
\* A client that is kicked off and has no hubs is closed at once:
\* check_all_hub_kick_off locks the connection manager, which is locked.
KickAlone(h, c) == <<{HubMsgs}, {HubMsgs, h}, {HubMsgs}, {HubMsgs, ConnMgr},
  {HubMsgs, ConnMgr, c}, {HubMsgs, ConnMgr, c}>>
LeaveClient(h, c, k) == <<{HubMsgs}, {HubMsgs, h}, {HubMsgs}, {HubMsgs, ConnMgr},
  {HubMsgs, ConnMgr, c}, {HubMsgs, ConnMgr, c, k}, {HubMsgs}, {HubMsgs, k}>>

\* do_wait_migrate_entity, do_migrate_entity_complete, and the completion of
\* a kick-off or a transfer keep the hub's proxy locked. The last hub to
\* complete a kick-off closes the client, and the calls parked in an entity
\* are sent when its migration completes: both lock the connection manager,
\* which is locked.
Complete(h, c) == <<{HubMsgs}, {HubMsgs, h}, {HubMsgs, h, ConnMgr},
  {HubMsgs, h, ConnMgr, c}>>
CompleteLast(h, c) == <<{HubMsgs}, {HubMsgs, h}, {HubMsgs, h, ConnMgr},
  {HubMsgs, h, ConnMgr, c}, {HubMsgs, h, ConnMgr, c}>>
WaitMigrate(h) == <<{HubMsgs}, {HubMsgs, h}, {HubMsgs, h, ConnMgr}>>
ReplayParked(h) == <<{HubMsgs}, {HubMsgs, h}, {HubMsgs, h, ConnMgr},
  {HubMsgs, h, ConnMgr}>>

-----------------------------------------------------------------------------
(* The main loop, on messages of clients, and between messages.            *)

\* A call of a client: it is parked, or sent to the hub of the entity.
CallHub(c, h) == <<{ClientMsgs}, {ClientMsgs, c}, {ClientMsgs}, {ClientMsgs, ConnMgr},
  {ClientMsgs}, {ClientMsgs, ConnMgr}, {ClientMsgs, ConnMgr, h}>>

\* Mutant of EnterService: the hub's proxy is kept locked when the request is
\* sent, and the connection manager is locked again to forget the hub.
ForgetUnderHub(c, h) == <<{ClientMsgs}, {ClientMsgs, c}, {ClientMsgs},
  {ClientMsgs, h}, {ClientMsgs, h, ConnMgr}>>

\* A login, a reconnect or a request of a service: entry_hub_service finds a
\* hub or connects to it, then the request is sent to it.
EnterService(c, h) == <<{ClientMsgs}, {ClientMsgs, c}, {ClientMsgs},
  {ClientMsgs, ConnMgr}, {ClientMsgs, ConnMgr, Consul},
  {ClientMsgs, ConnMgr, Consul, Redis}, {ClientMsgs, ConnMgr, Consul, Redis, h},
  {ClientMsgs}, {ClientMsgs, ConnMgr}, {ClientMsgs, ConnMgr, h}>>

\* do_call_gate_heartbeats: the answer is sent, or the client is forgotten.
Heartbeat(c) == <<{ClientMsgs}, {ClientMsgs, c}, {ClientMsgs, c, Offset},
  {ClientMsgs, c, Offset, ConnMgr}>>

\* GateServer::run gets the message handles, looks whether the gate is to close
\* and refreshes its key in Redis.
Round == <<{ConnMgr}, {}, {CloseHandle}, {CloseHandle, Redis}>>

\* These lock the connection manager with a proxy, or itself, locked;
\* everything else locks proxies with the connection manager locked.
OutOfOrder ==
  {WaitMigrate(h) : h \in Hubs} \cup {ReplayParked(h) : h \in Hubs}
  \cup {Complete(h, c) : h \in Hubs, c \in Clients}
  \cup {CompleteLast(h, c) : h \in Hubs, c \in Clients}
  \cup {KickAlone(h, c) : h \in Hubs, c \in Clients}
  \cup {Heartbeat(c) : c \in Clients}

MainPlans ==
  {Round}
  \cup {RegHub(h) : h \in Hubs} \cup {RegCallback(h) : h \in Hubs}
  \cup {ToClient(h, c) : h \in Hubs, c \in Clients}
  \cup {NotifyClient(h, c) : h \in Hubs, c \in Clients}
  \cup {LeaveClient(h, c, k) : h \in Hubs, c \in Clients, k \in Hubs}
  \cup {CallHub(c, h) : h \in Hubs, c \in Clients}
  \cup {EnterService(c, h) : h \in Hubs, c \in Clients}
  \cup OutOfOrder

-----------------------------------------------------------------------------
(* The other tasks.                                                        *)

\* start_conn_heartbeats_poll: collect_stale_clients locks every client under
\* the connection manager, close_stale_client the client and its hubs.
Collect(c) == <<{ConnMgr}, {ConnMgr, Offset}, {ConnMgr}, {ConnMgr, c}>>
CloseStale(c, h) == <<{ConnMgr}, {ConnMgr, c}, {ConnMgr}, {ConnMgr, h}>>

\* A client connects.
AcceptClient(c) == <<{ConnMgr}, {ConnMgr, Offset}, {}, {ConnMgr}, {ConnMgr, c}, {}, {c}>>
\* A hub connects.
AcceptHub == <<{ConnMgr}>>

\* A message of a client is queued; its connection is closed.
ReadClient == <<{ClientMsgs}>>
CloseClient(c) == <<{ConnMgr}, {ConnMgr, c}>>

\* A message of a hub is queued; its connection is closed.
ReadHub == <<{HubMsgs}>>
CloseHub(h) == <<{h}, {}, {ConnMgr}>>

GatePlans == [t \in GateTasks |->
  IF t = Main THEN MainPlans
  ELSE IF t = Sweeper THEN {Collect(c) : c \in Clients}
                           \cup {CloseStale(c, h) : c \in Clients, h \in Hubs}
  ELSE IF t = Listener THEN {AcceptClient(c) : c \in Clients} \cup {AcceptHub}
  ELSE IF t \in Clients THEN {ReadClient, CloseClient(t)}
  ELSE {ReadHub, CloseHub(t)}]

IsGate ==
  Tasks = GateTasks /\ Plans = GatePlans /\ Against = OutOfOrder

ASSUME GateAssumption == IsGate

-----------------------------------------------------------------------------
\* The main loop gets through every handler, whatever the sweeper, listeners
\* and readers do, unless it waits for ever in or behind a circle that one of
\* the handlers above closes.
MainLoopTurns == EndsUnlessStuck(Main)
=============================================================================
