------------------------------ MODULE HubConns ------------------------------
(***************************************************************************)
(* A hub's tables of connections to other hubs and to gates                *)
(* (server/lib/hub/src/conn_manager.rs, hub_service_manager.rs,            *)
(* hub_proxy_manager.rs, hub_server.rs).                                   *)
(*                                                                         *)
(* A link is one TCP connection. The hub accepts links and dials links; it *)
(* keeps the links it dialed by peer name (wrs and connproxys, always      *)
(* changed together), and by peer name the link it sends to each hub       *)
(* (hubproxys) and each gate (gateproxys). Each link has a ConnProxy that  *)
(* may point to a hub or gate proxy, hubOf and gateOf here: from it the    *)
(* close callback of an accepted link learns whose entries to remove.      *)
(*                                                                         *)
(* The three kinds of tasks interleave: dialing (coroutines of the game    *)
(* code), the main loop that handles one message at a time, and the close  *)
(* callbacks, which read the peer's name under the lock of the ConnProxy   *)
(* and remove its entries later, under the lock of the connection manager. *)
(* Every action but CloseName holds the latter for its duration. A handler *)
(* that would lock a ConnProxy it has locked already waits for itself: the *)
(* main loop is hung, with the connection manager and the message handle   *)
(* locked, and every action but Die waits for it.                          *)
(*                                                                         *)
(* Names are unique in the cluster; what a peer says of itself is true.    *)
(***************************************************************************)
EXTENDS HubsAndGates

CONSTANTS
  Links,    \* TCP connections, each used once
  NoLink, NoPeer

ASSUME PeersAssumption == NoPeer \notin Servers /\ NoLink \notin Links

VARIABLES
  toPeer,   \* hubproxys and gateproxys: the link that messages to a peer take
  dialed,   \* wrs and connproxys: the link that was dialed to a peer
  dialName, \* the name the close callback of a dialed link was given
  hubOf,    \* ConnProxy.hubproxy of a link: the hub it names
  gateOf,   \* ConnProxy.gateproxy of a link: the gate it names
  remote,   \* who is at the other end of a link
  state,    \* a link is unused, open, dead, closing (its name is read), or gone
  doomed,   \* the name a closing link is about to remove
  hung,     \* the main loop waits for a lock it holds
  filedLate \* history: links filed after their close callback had read the name

connVars == <<toPeer, dialed, dialName, hubOf, gateOf, remote, state, doomed, hung,
              filedLate>>
tables == <<toPeer, dialed, dialName, hubOf, gateOf>>

States == {"unused", "open", "dead", "closing", "gone"}

ConnsTypeOK ==
  /\ toPeer \in [Servers -> Links \cup {NoLink}]
  /\ dialed \in [Servers -> Links \cup {NoLink}]
  /\ dialName \in [Links -> Servers \cup {NoPeer}]
  /\ hubOf \in [Links -> Hubs \cup {NoPeer}]
  /\ gateOf \in [Links -> Gates \cup {NoPeer}]
  /\ remote \in [Links -> Servers \cup {NoPeer}]
  /\ state \in [Links -> States]
  /\ doomed \in [Links -> Servers \cup {NoPeer}]
  /\ hung \in BOOLEAN
  /\ filedLate \subseteq Links

ConnsInit ==
  /\ toPeer = [p \in Servers |-> NoLink]
  /\ dialed = [p \in Servers |-> NoLink]
  /\ dialName = [l \in Links |-> NoPeer]
  /\ hubOf = [l \in Links |-> NoPeer]
  /\ gateOf = [l \in Links |-> NoPeer]
  /\ remote = [l \in Links |-> NoPeer]
  /\ state = [l \in Links |-> "unused"]
  /\ doomed = [l \in Links |-> NoPeer]
  /\ hung = FALSE
  /\ filedLate = {}

-----------------------------------------------------------------------------
\* A message of l can be handled: it was read before the link closed. The
\* ConnProxy of a closed link lives until its reader task ends, a little after
\* the close callback, and dialed links are kept alive by connproxys.
HasMessage(l) == ~hung /\ state[l] # "unused"

\* A peer connects to the hub. Nobody knows who it is yet.
Accept(l, p) ==
  /\ ~hung
  /\ state[l] = "unused"
  /\ state' = [state EXCEPT ![l] = "open"]
  /\ remote' = [remote EXCEPT ![l] = p]
  /\ UNCHANGED <<tables, doomed, hung, filedLate>>

\* The peer at the other end of l gets a proxy that sends over l.
File(l) ==
  /\ toPeer' = [toPeer EXCEPT ![remote[l]] = l]
  /\ filedLate' = IF state[l] \in {"closing", "gone"} THEN filedLate \cup {l}
                  ELSE filedLate

\* add_hub_proxy and add_gate_proxy: the ConnProxy of the link dialed to p, if
\* there is one, points to p's new proxy (proxyOf is hubOf or gateOf).
NameDialed(proxyOf, p) ==
  [l \in Links |-> IF dialed[p] = l THEN p ELSE proxyOf[l]]

\* direct_connect_server and what follows it: the hub connects to p, unless it
\* has a writer for it, and files the link under p and in the table.
Dialing(l, p) ==
  /\ toPeer[p] = NoLink
  /\ state[l] = "unused"
  /\ IF dialed[p] # NoLink
     THEN /\ toPeer' = [toPeer EXCEPT ![p] = dialed[p]]
          /\ UNCHANGED <<dialed, dialName, remote, state>>
     ELSE /\ toPeer' = [toPeer EXCEPT ![p] = l]
          /\ dialed' = [dialed EXCEPT ![p] = l]
          /\ dialName' = [dialName EXCEPT ![l] = p]
          /\ remote' = [remote EXCEPT ![l] = p]
          /\ state' = [state EXCEPT ![l] = "open"]
  /\ UNCHANGED <<doomed, hung, filedLate>>

\* entry_hub_service and entry_direct_hub_server: they do nothing when the hub
\* is in the table, and connecting may fail.
EnterHub(l, h) ==
  /\ ~hung
  /\ Dialing(l, h)
  /\ hubOf' = [hubOf EXCEPT ![dialed'[h]] = h]
  /\ UNCHANGED gateOf

\* entry_gate_service does the same for a gate.
EnterGate(l, g) ==
  /\ ~hung
  /\ Dialing(l, g)
  /\ gateOf' = [gateOf EXCEPT ![dialed'[g]] = g]
  /\ UNCHANGED hubOf

\* Mutant of RegHub: the link's own ConnProxy is not told, as in RegGate.
RegHubUntold(l) ==
  /\ HasMessage(l)
  /\ remote[l] \in Hubs /\ dialName[l] = NoPeer
  /\ File(l)
  /\ hubOf' = NameDialed(hubOf, remote[l])
  /\ UNCHANGED <<dialed, dialName, gateOf, remote, state, doomed, hung>>

\* A hub registers, on a link it dialed itself.
RegHub(l) ==
  /\ HasMessage(l)
  /\ remote[l] \in Hubs /\ dialName[l] = NoPeer
  /\ File(l)
  /\ hubOf' = [NameDialed(hubOf, remote[l]) EXCEPT ![l] = remote[l]]
  /\ UNCHANGED <<dialed, dialName, gateOf, remote, state, doomed, hung>>

\* A gate registers, on a link it dialed itself. The ConnProxy of that link
\* is not told.
RegGate(l) ==
  /\ HasMessage(l)
  /\ remote[l] \in Gates /\ dialName[l] = NoPeer
  /\ File(l)
  /\ gateOf' = NameDialed(gateOf, remote[l])
  /\ UNCHANGED <<dialed, dialName, hubOf, remote, state, doomed, hung>>

\* The gate at the end of l becomes gate proxy: add_gate_proxy locks the
\* ConnProxy dialed to the gate. The handler has locked the ConnProxy of l.
AdoptGate(l) ==
  LET g == remote[l]
  IN  /\ File(l)
      /\ IF dialed[g] = l
         THEN hung' = TRUE /\ UNCHANGED gateOf
         ELSE /\ gateOf' = [NameDialed(gateOf, g) EXCEPT ![l] = g]
              /\ UNCHANGED hung
      /\ UNCHANGED <<dialed, dialName, hubOf, remote, state, doomed>>

\* ClientRequestLogin and ClientRequestReconnect come from the gate that a
\* client is on, by the link the gate uses for this hub.
ClientEnters(l) ==
  /\ HasMessage(l)
  /\ remote[l] \in Gates
  /\ AdoptGate(l)

\* ClientRequestService does the same when it finds no gate on the link.
ClientRequestService(l) ==
  /\ HasMessage(l)
  /\ remote[l] \in Gates /\ gateOf[l] = NoPeer
  /\ AdoptGate(l)

\* Mutant of ForwardRequest: the gate's proxy gets the writer of the link the
\* request came by, as it does in the handlers of requests that a gate sends.
ForwardWithOwnWriter(l, k, g) ==
  /\ HasMessage(l)
  /\ hubOf[l] # NoPeer /\ k # l
  /\ toPeer[g] = NoLink
  /\ toPeer' = [toPeer EXCEPT ![g] = l]
  /\ gateOf' = [gateOf EXCEPT ![l] = g]
  /\ UNCHANGED <<dialed, dialName, remote, state, hubOf, doomed, hung, filedLate>>

\* A hub forwards the request of a client of gate g: the hub connects to g
\* when it is not in the table, over a new link k, and tells so to the
\* ConnProxy of the link the message came by.
ForwardRequest(l, k, g) ==
  /\ HasMessage(l)
  /\ hubOf[l] # NoPeer /\ k # l
  /\ Dialing(k, g)
  /\ gateOf' = [gateOf EXCEPT ![dialed'[g]] = g, ![l] = g]
  /\ UNCHANGED hubOf

-----------------------------------------------------------------------------
\* The peer closes the link, or the network does.
Die(l) ==
  /\ state[l] = "open"
  /\ state' = [state EXCEPT ![l] = "dead"]
  /\ UNCHANGED <<tables, remote, doomed, hung, filedLate>>

\* on_close, first half: whose connection was it?
NameOnClose(l) == IF dialName[l] # NoPeer THEN dialName[l]
                  ELSE IF gateOf[l] # NoPeer THEN gateOf[l] ELSE hubOf[l]

CloseName(l) ==
  /\ ~hung
  /\ state[l] = "dead"
  /\ state' = [state EXCEPT ![l] = "closing"]
  /\ doomed' = [doomed EXCEPT ![l] = NameOnClose(l)]
  /\ UNCHANGED <<tables, remote, hung, filedLate>>

\* remove_conn_proxy.
Removed(table, p) == [x \in Servers |-> IF x = p THEN NoLink ELSE table[x]]

\* Mutant of CloseRemove: remove_conn_proxy leaves wrs and connproxys alone.
CloseKeepsWriter(l) ==
  /\ ~hung
  /\ state[l] = "closing"
  /\ state' = [state EXCEPT ![l] = "gone"]
  /\ toPeer' = Removed(toPeer, doomed[l])
  /\ UNCHANGED <<dialed, dialName, hubOf, gateOf, remote, doomed, hung, filedLate>>

\* on_close, second half: the entries of that peer are removed.
CloseRemove(l) ==
  /\ ~hung
  /\ state[l] = "closing"
  /\ state' = [state EXCEPT ![l] = "gone"]
  /\ toPeer' = Removed(toPeer, doomed[l])
  /\ dialed' = Removed(dialed, doomed[l])
  /\ UNCHANGED <<dialName, hubOf, gateOf, remote, doomed, hung, filedLate>>

ConnsNext ==
  \/ \E l \in Links, p \in Servers : Accept(l, p)
  \/ \E l \in Links, h \in Hubs : EnterHub(l, h)
  \/ \E l \in Links, g \in Gates : EnterGate(l, g)
  \/ \E l \in Links : \/ RegHub(l) \/ RegGate(l)
                      \/ ClientEnters(l) \/ ClientRequestService(l)
                      \/ Die(l) \/ CloseName(l) \/ CloseRemove(l)
  \/ \E l, k \in Links, g \in Gates : ForwardRequest(l, k, g)

ConnsSpec == ConnsInit /\ [][ConnsNext]_connVars

-----------------------------------------------------------------------------
(***************************************************************************)
(* Properties.                                                             *)
(***************************************************************************)

\* Messages to a peer are written to a link that ends at that peer, whatever
\* order links were dialed, accepted, registered and closed in.
SendsToPeer == \A p \in Servers : toPeer[p] # NoLink => remote[toPeer[p]] = p

\* direct_connect_server returns a writer it already has for a peer. It never
\* comes to that: a peer that is missing from the proxy tables, which is when
\* the hub dials, has no writer left from an earlier link, and no link is left in
\* wrs and connproxys after its close callback ran.
NoOldWriter ==
  \A p \in Servers : dialed[p] # NoLink =>
    toPeer[p] # NoLink /\ state[dialed[p]] # "gone"

\* A link that is closed leads to its peer no longer: the close callback removes
\* the peer's proxy, with three exceptions. The link was filed when the callback
\* had already read the name; a hub's link got a gate proxy as well, for a
\* forwarded request, and was closed under the gate's name; a gate registered
\* over the link and its ConnProxy was not told.
ClosedIsForgotten ==
  \A p \in Servers, l \in Links : toPeer[p] = l /\ state[l] = "gone" =>
    \/ l \in filedLate
    \/ p \in Hubs /\ doomed[l] \in Gates
    \/ p \in Gates /\ doomed[l] = NoPeer
=============================================================================
