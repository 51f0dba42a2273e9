------------------------------ MODULE HubLocks ------------------------------
(***************************************************************************)
(* Which locks the tasks of a hub hold, and in which order they take them. *)
(* The main thread, which holds Python's lock throughout, polls one        *)
(* message at a time with the message handle locked, and many handlers,    *)
(* Python's included, run while it is. The futures that Python awaits,     *)
(* which dial hubs and gates, run on other threads with the HubServer      *)
(* locked; so do the readers of the links and their close callbacks. A     *)
(* link is the lock of its ConnProxy, and the task that accepts and reads  *)
(* it. Locks of hub and gate proxies and of writers are left out: only one *)
(* task at a time takes others while it holds one that another could want. *)
(*                                                                         *)
(* The message handle is a std::sync::Mutex: who waits for it keeps the    *)
(* thread.                                                                 *)
(***************************************************************************)
EXTENDS Locks

CONSTANTS
  Accepted, Dialed, \* the links that peers made, and those that the hub made
  Dialers           \* the futures of Python that dial

MsgHandle == "conn_msg_handle"
Server == "server"
ConnMgr == "conn_mgr"
Consul == "consul_impl"
Redis == "hub_redis_service"
SharedLocks == {MsgHandle, Server, ConnMgr, Consul, Redis}

Main == "poll"

Links == Accepted \cup Dialed

NamesDiffer ==
  /\ Accepted \cap Dialed = {} /\ Links \cap Dialers = {}
  /\ (Links \cup Dialers) \cap (SharedLocks \cup {Main}) = {}

ASSUME NamesAssumption == NamesDiffer

HubTasks == {Main} \cup Links \cup Dialers

-----------------------------------------------------------------------------
(* The main thread.                                                        *)

\* A message is sent to a peer: one that is connected, a hub that is dialed
\* first (send_hub_msg, entry_direct_hub_server), or a gate that is
\* (send_gate_msg, entry_gate_service).
SendKnown == <<{Server}, {Server, ConnMgr}>>
SendHub(d) == <<{Server}, {Server, ConnMgr}, {Server}, {Server, Redis}, {Server},
  {Server, ConnMgr}, {Server, ConnMgr, Redis}, {Server, ConnMgr, Redis, d}, {Server},
  {Server, ConnMgr}>>
SendGate(d) == <<{Server}, {Server, ConnMgr}, {Server}, {Server, Redis}, {Server},
  {Server, Redis}, {Server, Redis, ConnMgr}, {Server, Redis, ConnMgr, d}, {Server},
  {Server, ConnMgr}>>

SendsInOrder == {SendKnown} \cup {SendHub(d) : d \in Dialed}
SendsToGate == {SendGate(d) : d \in Dialed}
Sends == SendsInOrder \cup SendsToGate

\* Python's handlers send with the message handle locked.
Handled(s) == [i \in 1..Len(s) |-> s[i] \cup {MsgHandle}]

\* handle_hub_event and handle_gate_event read the peer's name; then Python
\* handles the message.
Event(l, s) == <<{MsgHandle}, {MsgHandle, l}, {MsgHandle}>> \o Handled(s)

\* TransferEntityControl: Python first, then the answer.
TransferControl(l, s) == <<{MsgHandle}>> \o Handled(s) \o <<{MsgHandle}, {MsgHandle, l}>>

\* RegServer, and the requests of clients through a gate: the peer is filed,
\* also in the ConnProxy the hub dialed it with, which is that of the message
\* when a gate that the hub dialed passes on a login. Python runs after that,
\* and sends, with nothing locked.
Register(l, d) == <<{MsgHandle}, {MsgHandle, l}, {MsgHandle, l, ConnMgr},
  {MsgHandle, l, ConnMgr, d}>>

\* Mutant of RegCallback: the Redis service is locked first.
CallbackRedisFirst ==
  <<{MsgHandle}, {MsgHandle, Redis}, {MsgHandle, Redis, ConnMgr}>>

\* RegServerCallback releases the lock of the connection in Redis.
RegCallback == <<{MsgHandle}, {MsgHandle, ConnMgr}, {MsgHandle, ConnMgr, Redis}>>

\* HubForwardClientRequestService dials the gate of the client, over a link of
\* its own; Python runs after that.
Forward(l, d) == <<{MsgHandle}, {MsgHandle, l}, {MsgHandle, l, ConnMgr},
  {MsgHandle, l, ConnMgr, Redis}, {MsgHandle, l, ConnMgr, Redis, d}>>

\* Mutant of Flush: the Redis service is locked before the HubServer.
FlushRedisFirst == <<{Redis}, {Redis, Server}>>

\* flush_hub_host_cache, between messages
Flush == <<{Server}, {Server, Redis}>>

MainPlans ==
  {RegCallback, Flush} \cup Sends
  \cup {Event(l, s) : l \in Links, s \in Sends}
  \cup {TransferControl(l, s) : l \in Links, s \in Sends}
  \cup {Register(l, d) : l \in Links, d \in Dialed}
  \cup {Forward(ld[1], ld[2]) : ld \in {x \in Links \X Dialed : x[1] # x[2]}}

-----------------------------------------------------------------------------
(* The other tasks.                                                        *)

\* entry_hub_service finds a hub and dials it; entry_direct_hub_server dials
\* one by its name; entry_gate_service dials a gate.
EntryHub(d) == <<{Server}, {Server, Consul}, {Server, Consul, ConnMgr},
  {Server, Consul, ConnMgr, Redis}, {Server, Consul, ConnMgr, Redis, d}>>
EntryDirect(d) == <<{Server}, {Server, Redis}, {Server}, {Server, ConnMgr},
  {Server, ConnMgr, Redis}, {Server, ConnMgr, Redis, d}>>
EntryGate(d) == <<{Server}, {Server, Redis}, {Server}, {Server, Redis},
  {Server, Redis, ConnMgr}, {Server, Redis, ConnMgr, d}>>

\* A peer connects: the new link gets the message handle.
Accept == <<{MsgHandle}>>

\* on_event queues a message with the ConnProxy locked, and blocks its thread
\* until it has the message handle.
OnEvent(l) == <<{l}, {l, MsgHandle}>>

\* on_close.
Close(l) == <<{l}, {}, {ConnMgr}>>

HubPlans == [t \in HubTasks |->
  IF t = Main THEN MainPlans
  ELSE IF t \in Dialers THEN {EntryHub(d) : d \in Dialed}
    \cup {EntryDirect(d) : d \in Dialed} \cup {EntryGate(d) : d \in Dialed}
  ELSE (IF t \in Accepted THEN {Accept} ELSE {}) \cup {OnEvent(t), Close(t)}]

\* Readers lock a link before the message handle; a message of a link the hub
\* made locks it before the connection manager, which add_hub_proxy has locked
\* when it locks the link; entry_gate_service, which sending to a gate calls
\* too, locks the Redis service before the connection manager.
OutOfOrder ==
  {OnEvent(l) : l \in Links} \cup {EntryGate(d) : d \in Dialed} \cup SendsToGate
  \cup {Event(l, s) : l \in Links, s \in SendsToGate}
  \cup {TransferControl(l, s) : l \in Links, s \in SendsToGate}
  \cup {Register(l, d) : l \in Dialed, d \in Dialed}
  \cup {Forward(l, d) : l \in Dialed, d \in Dialed}

IsHub ==
  Tasks = HubTasks /\ Plans = HubPlans /\ Against = OutOfOrder

ASSUME HubAssumption == IsHub

-----------------------------------------------------------------------------
\* The main thread gets through every message and every call of Python,
\* whatever dials, is accepted or is closed at the same time, unless it waits
\* for ever in or behind a circle that one of the handlers above closes.
PollReturns == EndsUnlessStuck(Main)
=============================================================================
