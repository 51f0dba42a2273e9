# TLA+ models of geese's servers

geese is a distributed MMO server with a 3D client stack. Clients connect to
*gates*, which pass their calls on to *hubs*, where the game runs in Python on
top of a Rust network layer; hubs and gates find each other through consul,
agree through Redis on who connects to whom, and store objects through
*dbproxies* (MongoDB). This project models what gates, hubs and dbproxies do
between them and inside: it is the part where several tasks, threads and
processes change shared tables, and where a test rarely meets the order of events
that matters. It also has the area of interest, whose tables trail each other.

Paths below are relative to the repository. `PROJECT.json` maps each definition
to the lines it stands for and lists runs, mutants, hazards and theorems.

## 1. Inventory

| part | state | operations | what is hard |
|---|---|---|---|
| gate: clients and entities (`server/lib/gate/src/{hub_msg_handle,client_proxy_manager,conn_manager,entity_manager}.rs`) | `ConnManager.clients`; per client `entities`, `hub_proxies`, `wait_transfer_entity`; per entity `main_conn_id`, `conn_ids`; `client_hub_map` | create, refresh, delete and remove remote entities, calls to clients, kick-off, transfer, stale close | one relation kept in two indices; sends that fail half way; a lock that is not reentrant |
| gate: routing (`client_msg_handle.rs`, `hub_proxy_manager.rs`, `Entity`) | `hubs`, a link's name, an entity's hub, `is_migrate`, parked calls | a client's call, migration, registration and loss of a hub's link | parked or sent, never both; entries that outlive links |
| gate and hub: locks | mutexes of the tables, proxies and message handles | every handler, reader, sweep, listener, dial and close callback | nested locks in different orders; a main loop that stops everything when it waits |
| hub: connections (`server/lib/hub/src/{conn_manager,hub_service_manager,hub_proxy_manager,gate_proxy_manager,hub_server}.rs`) | `wrs`, `connproxys`, `hubproxys`, `gateproxys`, what each ConnProxy points to | dial, accept, register, requests that bring a gate along, close | a close callback reads the peer's name under one lock and removes it under another |
| handshake (`crates/redis_service`, both sides) | lock of a pair of servers in Redis, `ConnManager.locks`, proxies | acquire, dial, register, answer, release | both dial at once; the lock expires; the answer comes late |
| hub game layer: players (`server/engine/player.py`, `conn_msg_handle.py`, `login.py`) | `players`, `conn_id_players`, each player's connection | construction, replacement by another login, transfer, disconnect | late disconnects; two threads and no lock |
| hub game layer: RPC of subentities (`subentity.py`, `callback.py`, `conn_msg_handle.py`) | `is_migrate`, `source_hub_name`, `cache_msg`, `hub_callback`, timers | call, park, replay, answer, timeout | the main thread, the coroutine thread and a thread for each timer, without locks |
| hub game layer: migration (`player.py`, `entity.py`) | `is_migrate`, timers | start, wait, complete | three parties; coroutines that nobody awaits |
| hub game layer: persistence (`save.py`, `dbproxy.py`) and dbproxy (`server/lib/dbproxy/src`, `crates/redis_service`) | dirty flags; the list in Redis; the queue of a dbproxy; MongoDB | change, save, store, answer, the saves at the exit, crash | a copy that is out of date when its answer comes; failures in the middle |
| hub game layer: area of interest (`crates/aoi`, `aoi.py`, `group.py`) | cells, what each object saw last, pending events; names and numbers; two caches; the group | insert, move, remove, tick; join, leave | views kept incrementally; caches that trail by a tick; names that are used again |
| hub game layer: transfer timers, lock of the Python layer | `context.transfer_timeout`, a key in Redis | start, end, expiry | timer threads |
| client (`client/`) | mirrors of entities | create, refresh, delete | follows the gate's messages |

How they interact. A client's call goes client, gate (`GateRouting`), hub link
(`HubConns`, made by `Handshake`), Python handler. What a hub wants of a client
goes back through the gate's tables (`GateClients`). The loss of a client is
noticed by a gate, which notifies the hubs it knows for the client; there
`player_offline` runs (`PlayerManager`). A second login of an account transfers
the entities of the old connection to the new one, on the gate (`Transfer`,
`TransferComplete`) and on the hub (`UpdateConn`). All of it runs under the
locks of `GateLocks` and `HubLocks`.

What makes each part correct is stated by the properties of section 4. The
hazards, with line and property, are in `PROJECT.json`. A hazard without a
property says why: in most cases the code does not hold what one would hope for
(section 7).

## 2. Modules

| module | models | one action is |
|---|---|---|
| `GateClients` | the gate's clients and entities | one handler of the main loop; an accept; a link failure; a close callback; a stale close |
| `GateRouting` | the gate's hub table and the way of a call | one handler; a step of a dial or a registration; a link event; half of a close callback |
| `PlayerObjects` | the player objects, shared by the two below | (constants and variables only) |
| `PlayerSessions` | the promise of the player manager, with one table | a login, transfer or disconnect |
| `PlayerManager` | the two tables of `player_manager` | one call |
| `PlayerThreads` | the same tables as two threads change them | the code from one point where CPython may switch threads to the next |
| `HubsAndGates` | the servers, hubs and gates, shared by the two below | (constants, and `Servers`) |
| `HubConns` | a hub's connection tables | a handler, dial, link event, or half of a close callback |
| `Handshake` | connecting two servers under a Redis lock, for several hubs and gates | a step between awaits of a call, a message, the expiry of a lock |
| `HubCalls` | a subentity: parking, callbacks, answers, timers | the code between two points where a Python thread may be switched |
| `Saves` | an object's way from a change to MongoDB and the answer back | the same on the hub; a message, a store or a crash on the dbproxy |
| `GridAoi` | the grid in Rust: who sees whom, and the events about it | one operation of the grid |
| `Aoi` | the manager over `GridAoi`, its caches, and the group | one call of the manager or the group; one event of a tick |
| `Locks` | tasks that take and release nested locks | a task takes a lock, or lets go |
| `GateLocks`, `HubLocks` | the plans of locks of every handler and task of gate and hub | as `Locks`, which they extend |

`MC<module>` and `MC<module>.cfg` are the instances for TLC. The theorems about
`GateClients`, `GateRouting`, `HubCalls`, `Saves` and `Aoi` are in
`<module>Proofs`; `ConnectionsProofs` is about `HubConns` and `Handshake`,
`PlayerProofs` about `PlayerManager` and `PlayerThreads`, `LocksProofs` about
`Locks`, `GateLocks` and `HubLocks`. `PlayerManager` implements `PlayerSessions`
(`KeepsSessions`), and `PlayerThreads` implements `PlayerManager` as long as calls
do not overlap (`OneCallAtATime`); `Aoi` extends `GridAoi`, whose operations its
actions call; `GateLocks` and `HubLocks` are instances of `Locks`.

Operators whose comment calls them a mutant are what `PROJECT.json` puts in
the place of a definition to see a property fail. No specification uses them.

### Why a handler is one action

*Gate.* The main loop (`lib.rs:199`) takes one message after the other from the
two message handles. Only its handlers write the entity table, so between the
awaits of a handler nobody else sees or changes entities. What other tasks do
(accept, close callbacks, the heartbeat sweep) changes `clients` and `hubs`
under the lock of the connection manager, and these are actions that interleave
with handlers. Naming and filing a hub's link are not one action in `GateRouting`:
a dial files the link and names it last (`Dial`, `NameDialed`), a registration
names it first (`RegHub`, `RegName`, `RegEnter`), and the link's close callback,
which reads the name under one lock and removes it under another (`CloseName`,
`CloseForget`), may run between. What other handlers lock and let go of on their
way is checked from the other side: `GateLocks` has every lock section.

*Hub, Rust.* `HubConns` has the same argument for `poll`, except that
`on_close` lets go of the ConnProxy before it takes the connection manager.
These are two actions (`CloseName`, `CloseRemove`), and the properties are about
what may happen in between.

*Hub, Python.* The main thread polls messages (`app.poll`), and login and
reconnect run as coroutines on the thread of the event loop
(`app.run_coroutine_async`). `PlayerManager` takes a call as a step, which is
right while only one thread is in the player manager. `PlayerThreads` drops
that assumption. CPython 3.11 and later switches threads when a Python function
is entered, after a call of a C function, and when a loop goes round; each
action of `PlayerThreads` ends at such a point, and what lies between two of
them cannot be interrupted. (CPython 3.10, for which the repository also holds
a wheel, switches at taken jumps too. `del_player`'s check and its `del` could
be parted there, and `SparesOthers` is not claimed for it.) The lists in
`conn_id_players` are objects that one thread may hold while the other unfiles
them, so they have an identity: `filed` says which list a connection has and
`list` what a list holds. Players that migrate to the hub are constructed on the
main thread; `PlayerThreads` leaves them out and `PlayerManager` has them as
`NewPlayer`.

`HubCalls` and `Saves` switch threads at the same points. In `Aoi` one thread
runs everything, but a tick calls the game at every event, and the game may add,
move and remove objects from there. So an action is one event, and every other
action may come between two events.

### Abstractions

- Messages carry what the tables depend on: names, entities, connections, the
  flags `is_main` and `is_migrate`. Arguments and results are left out.
- A link delivers in order or breaks. `GateRouting` and `GateClients` have a
  state between: the peer is gone, sends fail, and the close callback has not
  run yet; in `GateRouting` also the state in the middle of that callback.
- History variables (`clientHas`, `removed`, `notified`, `sentTo`, `lost`,
  `overtaken`, `filedLate`, `late`, `met`, `clash`, `before`; in `HubCalls` and
  `Saves` those declared as history; `raised` of `Aoi`) record what was sent or
  done. No guard reads them, but for the bound on `changes` of `Saves`.
- `hung` is set when a handler waits for a mutex that it has locked itself.
  tokio's mutexes are not reentrant, so nothing that needs the lock happens any
  more. Properties that need the main loop say `hung`. In `GateRouting` the replay
  of parked calls sets it, so a parked call is never sent.
- In `Handshake` links do not close (`HubConns` and `GateRouting` are about
  that), the connection to Redis is not lost, and a UUID is a number that is
  used once. Gates get no promise of a single link: a gate that cannot have the
  lock goes on without (`GiveUp`). Of a server's mutexes, two take part: those of
  the connection manager and of the connection to Redis (`ManagerBusy`,
  `RedisBusy`). Who waits with one of them held is a state of its own (`giving`).
- `HubCalls`: the other hubs announce a migration, complete it, answer a call
  once or never. The id of a request is used once. A coroutine that a game starts
  does in its own thread what the main thread does in its.
- `Saves`: an object is its version, and has one save object, which keeps its
  dbproxy (section 8). The timer of `set_dirty` is left out: the
  interval it waits for is `None`, that is for ever.
- `GridAoi`: a position is its cell, a radius the number of cells it reaches.
  The events of one operation come from hash sets, so they have no order; those
  of different operations do. `Aoi` gives the manager a bounded number of ids
  (`MaxAdds`); the code counts up.
- In the lock models a handler is the sequence of sets of locks that it holds.
  Locks that are always taken last (writers; on a hub also those of hub and
  gate proxies) are left out: no task waits for another one while it holds
  such a lock. On a hub, `Main` is whoever has Python's lock; what Python's
  handlers send, with the dials this takes, is part of the plan of the message
  (`Event`, `TransferControl`). A set that is repeated says that the handler asks
  for a lock that it holds: it waits for itself.
- In the lock models a plan in `OutOfOrder` is a handler that takes a lock
  against the order of all the others. Instead of leaving these handlers out,
  `CirclesBreakOrder` says that every circle has one of them in it: the
  handlers in `OutOfOrder` are all there is to repair. A task that waits for
  itself is a circle of one. On the gate these handlers are the heartbeat, the
  completions and waits that keep a hub's proxy locked, and those that lock the
  connection manager twice (`KickAlone`, `CompleteLast`, `ReplayParked`); on a hub
  the readers' `on_event`, whatever calls `entry_gate_service`, also from a send,
  and messages of a link that the hub dialed when they register its peer.

## 3. The runs that pass

`tlc -workers 2 -config X.cfg M`; each takes between four seconds and about
two minutes. Deadlock is not checked by any: all of these systems may run out of
new connections or calls, which are bounded, and in the lock models the
deadlocks are what the properties are about.

| run | instance | distinct states | why the bound is enough |
|---|---|---|---|
| `gate_clients` | 2 connections, 2 hubs, 1 entity, at most 2 occurrences of an id in `conn_ids` | 587 487 | handlers loop over the connections of one entity, so two of them show one failing and the other not; main and non-main can differ; a second occurrence is what `delete_conn_id` can leave behind |
| `gate_routing` | 2 hubs, 2 links, 1 entity, 2 calls | 119 194 | a hub can lose a link, in the middle of a dial or registration, and return over the other one; two calls show the order of parking; entities do not touch each other here (3 links and 1 call, 1 322 686 states, were checked once too) |
| `player_manager` | 5 objects, 3 entities, 3 connections | 1 508 (by symmetry) | an entity can be replaced and another one follow to a connection that has a third |
| `player_threads` | 3 objects, 2 entities, 3 connections, 6 lists | 409 431 (by symmetry) | a login can replace an object of a list of two while it is moved or ended, and calls about other connections overlap; lists never run out (`ListsAssumption`) |
| `hub_conns` | 1 hub, 1 gate, 4 links | 418 372 (by symmetry) | both peers can have an old link whose close callback is under way and a new one |
| `handshake` | 2 hubs, 1 gate, 3 calls, 2 links | 577 127 | both hubs dial, and one retries after an expiry; one more link than `OneLinkOfTwoHubs` allows |
| `hub_calls` | 2 requests, 1 notification, 2 hubs | 996 780 | two calls can be parked by different threads and overtake; a third comes during the replay |
| `saves` | 2 objects, 3 changes, 2 updates under way, 1 crash | 4 379 531 (by symmetry) | an object can change before, while and after an update of it is under way, and be behind another one's in both queues; the loop at the exit has one object done and one to do |
| `aoi` | 3 cells in a row, the outer two out of reach 1; 1 entity, 1 player, 3 additions, 1 operation with events between ticks | 255 328 | one name can be removed, added again and be numbered anew with events of both numbers on their way; reach 1 does not span the row, reach 2 does |
| `gate_locks` | 1 client, 1 hub, and the main loop, sweep and listener | 123 241 | every pair of handlers meets on one proxy; more proxies are covered by the theorem |
| `hub_locks` | 1 accepted, 1 dialed link, 1 dialing future, and poll | 94 673 | as above |

Types are theorems of all modules. For `Handshake`, `HubCalls` and `Saves`, `TypeOK`
is an invariant of their runs as well.

## 4. What they show

*gate_clients.* `IndexMatchesClientView`: the entities recorded for a connection
are those its client was told to create and not to delete, whatever sends fail.
`AttachedIsIndexed`: a transfer, which walks that index, meets every entity that
would send to the client, except one that `ClientRemoveRemoteEntity` named.
`MainHasHubToNotify`: a main client can be kicked off through a hub.
`HealthyClientStays`: only connections with a dead socket leave the table.

*gate_routing.* `CallInOnePlace`: a call that a client made is parked, sent or
lost, and one of these only. `ParkedMigrates`: calls wait only in an entity whose
migration will be completed. `ClosedLinkForgotten`: a link that closed is in the
hub table no longer, unless its close callback ran in the middle of its dial or
registration and so found no name, or an entry that was not there yet
(`overtaken`). `DeadLinkDropped` (liveness): a dead link that is in the table under
its own name is dropped, unless the main loop hangs.

*player_manager.* `FiledIsLive`: what is filed under a connection is on it and
serves its entity, so the disconnect of a connection that was left ends no new
session. `KeepsSessions`: the two tables implement `PlayerSessions`. That
specification also names what the code does not do: a transfer to a connection
that has players already leaves these as *orphans*, which no disconnect ends.

*player_threads.* `CalmTables`: calls of the two threads that have no connection
in common may overlap, and the tables agree when both are done. `SparesOthers`:
however calls overlap, a session is ended only by the disconnect of the
connection it is on; a login that registers a new object while the game handles
the end of the old one keeps its session. `OneCallAtATime`: without overlap,
the code is `PlayerManager`. Calls about *one* connection may overlap as well;
the tables may then disagree and a login may end in a `KeyError`
(`RegisterFails`).

*hub_conns.* `SendsToPeer`: what is written for a peer goes to that peer.
`NoOldWriter`: a dial never gets the writer of an earlier link, and no closed
link stays among the writers. `ClosedIsForgotten`: a link that closed is nobody's
link any more. It has three exceptions, and each of them happens: the link was
filed after its close callback had read the name (`filedLate`); a hub's link got a
gate proxy as well and was closed under the gate's name; a gate registered over a
link whose ConnProxy was not told, so that the callback found no name.

*handshake.* `OneLinkOfTwoHubs`: two hubs that dial each other at once get one
connection, unless a lock expired during the handshake. `FreesOwnLock`: an
answer after the expiry does not free the lock of whoever took it then.
`EntersReturn` (liveness): every call returns, also when the peer holds the lock
and never connects, unless it crosses an answer (`Crossed`):
`RegServerCallback` waits for Redis with the connection manager locked, the call
for the connection manager with Redis locked.

*hub_calls.* `SentOnce`: a call leaves the hub at most once and is not sent and
parked. `MainKeepsOrder`, `MainSendsToOwner`: the calls of the main thread leave
in the order they were made, and to the hub that owns the entity then, whatever
the coroutine thread does during a migration. `MainGetsAnswers`: a request of the
main thread, whose answers come on the same thread, is never answered to nobody.
`EndsOnce`: of answer and timeout one handler runs, but for the window in which
the answer's handler is running and the entry is still there. `TimedRequestsEnd`
(liveness): a request with a timeout ends. Not claimed, because the code does not
hold it: order and answers for calls made in coroutines.

*saves.* `CleanIsStored`: an object that counts as clean is in MongoDB as it is,
through failures and a crash, unless it changed while an update was under way
(`crossed`) or two threads saved it at once (`raced`). `NeverGoesBack`: MongoDB
never gets an older version over a newer one, unless `raced`. `ExitSavesAll`:
when a hub ended its loop without an exception, everything was sent; answers go
on arriving during that loop.

*aoi.* `SeesOnlyNear`: the grid, which recomputes a few objects after each
operation, keeps nobody in a view that should not be there. `MoversMeet`: who
moves to another cell and who is within mutual reach see each other. `CachesMirror`:
the two caches are one relation. `CachesCatchUp`: caches and events on their way
together say what the grid sees, also in the middle of a tick and for a name that
was removed and added again, as long as no tick raised.

*gate_locks, hub_locks.* `CirclesBreakOrder`: tasks that wait for each other, or
one that waits for itself, have one among them that runs a handler of
`OutOfOrder`. `MainLoopTurns`, `PollReturns` (liveness): every handler of the main
loop ends, unless it waits for ever, in a circle or behind one, and every such
circle has a handler of `OutOfOrder` in it. Nothing is excluded: the handlers of
`OutOfOrder` run in these behaviours, and where they do no harm the loop turns.

### Fairness

- `GateRouting`: weak fairness of `CloseName` and `CloseForget` of each link, and of
  `NameDialed`, `RegName` and `RegEnter`. The reader task of a connection that is
  lost runs to its end, and so does a handler that has begun. Nothing else is
  assumed; hubs and clients need not send anything.
- `Handshake`: weak fairness of each server's task and of `GiveBack`, which the
  runtime schedules, and of `Expire`: Redis forgets a key that was set with `EX 3`.
- `HubCalls`: weak fairness of the steps of each thread and of each timer: a
  thread goes on with what it is in, and a timer that was started runs out. No
  fairness of calls, migrations and answers.
- `Locks`: strong fairness of `Advance(t) \/ Finish(t)` of each task, as tokio's
  mutex is handed over in the order it was asked for, so a task cannot be
  overtaken for ever, and a handler that has its locks goes on to its end. The
  message handle of a hub is a `std::sync::Mutex`, which promises no order.
  `PollReturns` takes it that the main thread does not starve.

## 5. Where code and documentation differ

`gate_deadlock` ends in a counterexample: `do_call_gate_heartbeats` locks the
connection manager with the client locked; the client's close callback does it
the other way round, and both wait for ever. The comment at
`server/lib/gate/src/conn_manager.rs:178` says that callers hold the lock only to
select connections. Other differences are in section 7.

## 6. What is proved

Each theorem holds for every value of the constants, under the named
assumptions in the modules (the null values are no members of the sets they are
added to; names are disjoint).

- `GateClientsProofs`: `TypeOK`, `IndexMatchesClientView`, `AttachedIsIndexed`,
  `MainHasHubToNotify`, `HealthyClientStays`. The properties are inductive with
  one addition, `FreshUntouched`: no table names a connection id that has not
  been accepted. Without it `Accept` could bring a client that seems to have
  entities. Two lemmas, `Grow` and `Dwindle`, carry most of it: when a handler
  adds the same connections to index and view, or takes them from both, the
  properties are kept.
- `GateRoutingProofs`: all properties but the liveness one. For the calls, the
  invariant adds that a parked call is parked in the entity it names (so not in a
  second one, `ParkedAtTarget`), that a call that was not made is nowhere
  (`UnsentNowhere`), and that only entities the gate holds migrate
  (`MigratingHeld`). For `ClosedLinkForgotten` it says what a link in the table is
  like in each state (`FiledKept`): it has its name or is about to get it,
  and its close callback, when it runs, has read that name, unless it overtook. The
  link being registered was opened (`EnteringOpen`), and a link nobody opened has
  no name (`FreeUnnamed`).
- `PlayerProofs`, about one call as one step: `FiledIsLive`, with the types, is
  inductive. `SessionsCorrect` proves the refinement of `PlayerSessions`. The step
  that needs the invariant is the transfer: the players filed under a connection
  are exactly those whose sessions follow it (`FollowingFiled`).
- `PlayerProofs`, about two threads. `SparesOthers` needs only `Kinds`: what each
  thread has in hand fits the place it is at. `CalmTables` needs `Quiet`, which
  holds until calls about one connection overlap: what the two threads are about
  has no connection in common (`NoCommon`); a list is filed once (`FiledOnce`); an
  object in a list is registered and on the list's connection, but for the one
  object a thread is taking off or putting on (`FiledIs`); and each thread finds
  its lists and objects as it left them (`MainIs`, `LoopIs`). So a step of one
  thread keeps what the invariant says of the other because it writes to other
  lists. `OneCallAtATime` is a refinement of `PlayerManager` that takes many steps
  to make one: `before` is the state when the call began, and `Solo` says for each
  place of a call by how much the tables differ from it. The last step of a call
  makes the difference that the one step of `PlayerManager` makes; the others
  stutter.
- `ConnectionsProofs`, about the tables (`HubConns`): all invariants. `DialedKnows`
  (a dialed link has the name of its peer, and its close callback is about to remove
  that name) and `InUse` (no table holds an unused link) make the first two
  inductive. `ClosedIsForgotten` needs what its exceptions come from, before the
  link closes (`Closes`): a link that leads to a peer knows it, as its dial name, its
  hub or its gate (`ProxiesKnow`), and the name a closing link is about to remove is
  that peer's unless an exception applies (`WillForget`).
- `ConnectionsProofs`, about the handshake. `FreesOwnLock` rests on `Owned`: the
  values a server holds, has filed or is about to give back are of its own calls,
  and none is both in the table and with a call under way. `OneLinkOfTwoHubs`
  rests on `OneHandshake`, of a pair of hubs whose lock did not expire under a
  handshake: the lock in Redis is that of the call which holds it, or the one that
  the server files whose `RegServer` is on its way (`HeldIsRedis`); once that
  message is handled, both tables have the other (`LinkIsFiled`), so nobody dials
  again (`OneLink`).
- `HubCallsProofs`: all properties but the liveness one. `Once` (a call is parked,
  or with a thread, or has left) gives `SentOnce`. `MainKeepsOrder` needs that what
  is parked is in order too (`ParkedInOrder`), and `Still`: while the main thread
  sends, the entity does not migrate, and nothing is parked but during the replay.
  `MainGetsAnswers` and `EndsOnce` need `Registered`: a request of the main thread
  that is not being made has its handlers, and they stay in the table until one of
  them has run.
- `SavesProofs`: all properties. `SentInOrder`, of an object that no two threads
  saved at once: its versions rise from MongoDB through the queue and the list in
  Redis to the one thread that holds the next. This gives `NeverGoesBack`.
  `AllCurrent`: the updates under way of an object that has not changed since hold
  what the object holds, and an answer that says that a version is stored is right;
  this gives `CleanIsStored`. `ExitSavesAll` adds `Ending`: what the loop at the exit
  has visited was sent, or is about to be.
- `LocksProofs`: `CirclesBreakOrder`, of circles of one task too.
  `RankedPlansDoNotCircle` is about any tasks: give locks ranks such that every
  plan outside `Against` takes only locks above all it holds, and none twice. Of
  the locks that tasks of a circle wait for and other tasks of it hold, one would
  rank highest; its holder waits for a higher one. For gate and hub the ranks are
  given (`GateLockRank`, `HubLockRank`), and it is shown plan by plan that the
  plan climbs, for any number of clients, hubs, links and dialing futures.
- `AoiProofs`: all properties of `Aoi`. `Inv` has the grid (`GridOK`), the names
  (`NamesOK`), the caches (`CachesOK`) and the rest of the types (`RestOK`). The
  lemma behind `SeesOnlyNear` is `ViewLasts`: what an object that is not
  recomputed sees is still right, because the one that moved was not in its view
  before (else it would have been recomputed). `CachesCatchUp` is about a queue:
  `Agree` says, for one pair of numbers, that the last event about it, or the
  cache if there is none, is what the grid sees. Appending an operation's events
  and dropping one that was applied both keep it. For that the invariant adds
  that an operation has at most one event for a pair and that all events are about
  numbers that were given away (`Told`), and that the caches list names that have
  a number (`Known`): a name that comes back has a new number, no old event is
  about it, and no cache still has it.

The invariants about two threads (`Kinds`, `Calm`, `Solo`) were checked by TLC on the
instance of `player_threads` before they were proved; no run keeps them.

Only model-checked: the liveness properties (`DeadLinkDropped`, `EntersReturn`,
`MainLoopTurns`, `PollReturns`, `TimedRequestsEnd`). They need fairness and `ENABLED`,
which are outside what TLAPS proves. Every other property of a passing run is a
theorem.

## 7. What the code does not hold

Seen in the models, and kept there, but promised by no document in so many
words, or not stated as a run of its own:

- A kick-off whose hubs have all answered, and the replay of calls parked during
  a migration, lock the connection manager a second time: the gate's main loop
  hangs (`hung` in `GateClients` and `GateRouting`). So do a hub's handlers that
  adopt the gate of the ConnProxy they hold (`hung` in `HubConns`).
- An entity's calls go to its new hub after a migration only if a call was
  parked (`DoCacheMsg`).
- Repeated refreshes make a connection appear several times in `conn_ids`, and a
  notification is sent once for each.
- The close callback of a hub's old link takes the hub out of the gate's table
  although it came back over a new link.
- When a gate dials, it starts the reader, files the link, and names it last
  (`client_proxy_manager.rs:130`, 132, 136). A link that closes in between finds no
  name and stays in the table until a send over it fails; so does one that closes
  just before a registration files it (`overtaken` in `GateRouting`).
- `RegServerCallback` waits for the Redis service with the connection manager
  locked (`hub_service_manager.rs:278`, 291). `entry_gate_service` locks them the
  other way round (`hub_server.rs:216`, 225), also on the main thread when a send
  needs a gate (`hub_server.rs:366`). They can wait for each other for ever:
  `Crossed` in `Handshake`, `OutOfOrder` in `HubLocks`.
- A hub's link over which a client's request was forwarded has a gate proxy as well
  (`hub_service_manager.rs:391`), and its close callback takes the gate's name
  (`hub_service_manager.rs:917`): the closed link stays in `hubproxys`, although
  `conn_manager.rs:127` says that close removes the peer's proxies.
- A login that finishes after its client left registers a session that no
  disconnect will end.
- Overlapping calls about one connection (`clash` in `PlayerThreads`).
- A hub's readers deadlock with `poll`: `on_event` waits for the message handle
  with the ConnProxy locked (`hub_service_manager.rs:196`), `poll` waits for the
  ConnProxy with the message handle locked. Both are in `OutOfOrder` of
  `HubLocks`.
- A stale close is said to notify the client's hubs (`conn_manager.rs:194`).
  `client_hub_map`, from which it takes them, is never filled: `CloseStale` of
  `GateClients` adds nothing to `notified`.
- A gate that registers over a link it dialed is not removed when the link closes
  (`RegGate` in `HubConns`), although `conn_manager.rs:127` of the hub says that
  close removes the peer's proxies.
- A change of an object while an update of it is under way is marked clean by the
  answer and is not saved (`crossed` in `Saves`). A save that fails ends the loop
  at the exit with an `AttributeError`. No save timer ever runs out.
- Calls from coroutines may overtake each other after a migration, and their
  answers may arrive before the callback is registered.
- An object that appears is seen from the cells around its own only when it or
  the observer moves, although `crates/aoi/src/lib.rs:39` has the 3 x 3 cells as
  the view. A Leave takes its target out of the group for everybody; the second
  one raises a `KeyError`, and the rest of the tick is lost (`raised` in `Aoi`).
  `call_observers_notify` (`aoi.py:254`) calls with too few arguments.
- A second transfer to a connection leaves the timer of the first running; it
  takes the second's entry and reconnects early. A gate answers a transfer even if
  the old client has gone, so the timer is cancelled and nobody reconnects.

## 8. Not modelled

- More than one save object for an entity id: `add_save_entity` overwrites the one
  that is there (`save.py:77`), `del_save_entity` forgets it, and an object that is
  loaded again picks a dbproxy at random. Its updates then go through another queue
  than those of the first, and nothing orders the two. `CleanIsStored` and
  `NeverGoesBack` are about one save object.
- Migration between the hub an entity leaves and the one it goes to. Both
  announcements, wait and complete, are methods of the hub that is left; the
  second one is a coroutine that is called and not awaited
  (`conn_msg_handle.py:176`), the one for entities passes its arguments in the
  wrong order, and `do_cache_msg` names the old hub as the owner. No run of this
  code completes a migration, and a model of it would only say so. What gates and
  hubs do with announcements, if they come, is in `GateRouting` and `HubCalls`.
- The timer of a transfer and the lock of the Python layer in Redis
  (`app.py:199`): each is one dictionary or key operation with a timer next to it.
- Finding, removing and counting in a dbproxy, get_guid: nothing is kept between
  request and answer.
- `player.call_client_request`: the same table of callbacks as `HubCalls`, without
  parking.
- Physics: `app.poll` reads `physics_last_time` before it is set, so the tick
  raises before it does anything; the rest is floating-point simulation.
- The runtime's worker threads: a std mutex that async tasks wait for also
  occupies threads. The lock models have a thread for every task.
- The connection to Redis, consul and MongoDB, sockets and framing: the models
  take them to work or to fail as a whole.
- Rendering, assets, editor, launcher, code generator, client mirrors, samples: no
  distributed state, or numeric code.
- Most Python lines of the repository are copies of redis-py and pymongo in
  `server/engine` and `sample/server`; they are libraries of others and not
  modelled. A count of mapped lines against all lines says little for that reason.

## 9. What could come next

1. `Transfers`, the timer against the end of a transfer, over `PlayerManager` and
   the transfer actions of `GateClients`.
2. `Migration`, when the code completes one: abstract specification, an entity is
   served by one hub at a time and no call is done twice.
