---------------------------- MODULE GateRouting ----------------------------
(***************************************************************************)
(* How the gate carries a client's calls to hubs: the table of hub links,  *)
(* the hub each entity belongs to, and the calls parked while an entity    *)
(* migrates (server/lib/gate/src: client_msg_handle, hub_msg_handle,       *)
(* hub_proxy_manager, Entity).                                             *)
(*                                                                         *)
(* Client and hub handlers run one at a time in the main loop; the reader  *)
(* task of a link and its close callback run beside them.  The callback    *)
(* reads the link's name under the lock of the link and forgets it under   *)
(* that of the connection manager; a registration names and files the link *)
(* in two steps as well, so each can run between the two of the other.     *)
(***************************************************************************)
EXTENDS Naturals, Sequences, SequencesExt

CONSTANTS
  Hubs,       \* hub names
  Links,      \* TCP links to hubs, in the order they are opened or not
  Entities,   \* entity ids
  Calls,      \* calls of clients to entities, each sent once
  NoEntity,   \* target of a call that is not made yet
  NoHub,      \* no name yet, or no entry in the entity table
  NoLink      \* no entry in the table of hubs

ASSUME NoEntityAssumption == NoEntity \notin Entities
ASSUME NoHubAssumption == NoHub \notin Hubs
ASSUME NoLinkAssumption == NoLink \notin Links

VARIABLES
  tcp,        \* state of a link: "free", "up", "down" (sends fail), "closing"
              \* (its close callback has read the name), "gone"
  owner,      \* HubProxy.name
  read,       \* the name a running close callback has read
  entering,   \* the registration the main loop is in the middle of
  overtaken,  \* history: links whose close callback overtook a registration
  hubs,       \* ConnManager.hubs
  eHub,       \* Entity.hub_name, NoHub when the gate does not hold the entity
  eMig,       \* Entity.is_migrate
  eCache,     \* Entity.cache_migrate_msg
  target,     \* entity a sent call names
  sentTo,     \* <<m, h>>: hub h was sent call m
  lost,       \* calls that reached no hub and wait nowhere
  hung        \* the main loop waits for a lock it holds itself

linkVars == <<tcp, owner, read, entering, overtaken>>
entityVars == <<eHub, eMig, eCache>>
callVars == <<target, sentTo, lost>>
vars == <<linkVars, hubs, entityVars, callVars, hung>>

\* "dial": the link is filed and gets its name next; "reg": it gets its name
\* next; "named": it is filed next.
Idle == [at |-> "idle", link |-> NoLink, hub |-> NoHub]
Registration ==
  [at : {"idle", "dial", "reg", "named"}, link : Links \cup {NoLink}, hub : Hubs \cup {NoHub}]

Init ==
  /\ tcp = [l \in Links |-> "free"]
  /\ owner = [l \in Links |-> NoHub]
  /\ read = [l \in Links |-> NoHub]
  /\ entering = Idle
  /\ overtaken = {}
  /\ hubs = [h \in Hubs |-> NoLink]
  /\ eHub = [e \in Entities |-> NoHub]
  /\ eMig = [e \in Entities |-> FALSE]
  /\ eCache = [e \in Entities |-> <<>>]
  /\ target = [m \in Calls |-> NoEntity]
  /\ sentTo = {}
  /\ lost = {}
  /\ hung = FALSE

Sent == {m \in Calls : target[m] # NoEntity}

-----------------------------------------------------------------------------
(* Links to hubs.                                                          *)

\* The main loop takes up its next message only when it is done with the last.
MainFree == ~hung /\ entering = Idle

\* The main loop keeps the connection manager locked while it dials.
ConnMgrFree == ~hung /\ entering.at # "dial"

\* The proxy takes its name.  The mutant files it and never names it.
NameNobody(l, h) == UNCHANGED owner
Name(l, h) == owner' = [owner EXCEPT ![l] = h]

\* entry_hub_service connects to a hub the table does not have.  The reader is
\* running and the link filed under its name before the link has that name.
Dial(l, h) ==
  /\ MainFree
  /\ tcp[l] = "free"
  /\ hubs[h] = NoLink
  /\ tcp' = [tcp EXCEPT ![l] = "up"]
  /\ hubs' = [hubs EXCEPT ![h] = l]
  /\ entering' = [at |-> "dial", link |-> l, hub |-> h]
  /\ UNCHANGED <<owner, read, overtaken, entityVars, callVars, hung>>

NameDialed ==
  /\ entering.at = "dial"
  /\ Name(entering.link, entering.hub)
  /\ entering' = Idle
  /\ UNCHANGED <<tcp, read, overtaken, hubs, entityVars, callVars, hung>>

\* A hub connects to the gate; its name comes with RegServer.
AcceptLink(l) ==
  /\ ConnMgrFree
  /\ tcp[l] = "free"
  /\ tcp' = [tcp EXCEPT ![l] = "up"]
  /\ UNCHANGED <<owner, read, entering, overtaken, hubs, entityVars, callVars, hung>>

\* do_reg_hub takes the proxy of an accepted link that still lives, names it
\* and then files it; it does not look whether the link closed meanwhile.
RegHub(l, h) ==
  /\ MainFree
  /\ tcp[l] \in {"up", "down", "closing"}
  /\ owner[l] = NoHub
  /\ entering' = [at |-> "reg", link |-> l, hub |-> h]
  /\ UNCHANGED <<tcp, owner, read, overtaken, hubs, entityVars, callVars, hung>>

RegName ==
  /\ entering.at = "reg"
  /\ Name(entering.link, entering.hub)
  /\ entering' = [entering EXCEPT !.at = "named"]
  /\ UNCHANGED <<tcp, read, overtaken, hubs, entityVars, callVars, hung>>

RegEnter ==
  /\ entering.at = "named"
  /\ hubs' = [hubs EXCEPT ![entering.hub] = entering.link]
  /\ overtaken' = IF tcp[entering.link] \in {"closing", "gone"}
                  THEN overtaken \cup {entering.link} ELSE overtaken
  /\ entering' = Idle
  /\ UNCHANGED <<tcp, owner, read, entityVars, callVars, hung>>

LinkDown(l) ==
  /\ tcp[l] = "up"
  /\ tcp' = [tcp EXCEPT ![l] = "down"]
  /\ UNCHANGED <<owner, read, entering, overtaken, hubs, entityVars, callVars, hung>>

\* HubProxyCloseCallback reads the name under the link's lock.
CloseName(l) ==
  /\ tcp[l] = "down"
  /\ tcp' = [tcp EXCEPT ![l] = "closing"]
  /\ read' = [read EXCEPT ![l] = owner[l]]
  /\ overtaken' = IF entering.at = "dial" /\ entering.link = l
                  THEN overtaken \cup {l} ELSE overtaken
  /\ UNCHANGED <<owner, entering, hubs, entityVars, callVars, hung>>

\* It forgets the hub by the name it read, whichever link has it now.  The
\* mutant only closes the socket.
ForgetNobody(h) == hubs' = hubs
Forget(h) == hubs' = IF h \in Hubs THEN [hubs EXCEPT ![h] = NoLink] ELSE hubs

CloseForget(l) ==
  /\ tcp[l] = "closing"
  /\ read[l] # NoHub => ConnMgrFree
  /\ tcp' = [tcp EXCEPT ![l] = "gone"]
  /\ read' = [read EXCEPT ![l] = NoHub]
  /\ Forget(read[l])
  /\ UNCHANGED <<owner, entering, overtaken, entityVars, callVars, hung>>

\* A login, reconnect or service request of a client is sent to the hub and
\* the send fails: the hub is dropped from the table.
RequestFails(h) ==
  /\ MainFree
  /\ hubs[h] # NoLink
  /\ tcp[hubs[h]] # "up"
  /\ hubs' = [hubs EXCEPT ![h] = NoLink]
  /\ UNCHANGED <<linkVars, entityVars, callVars, hung>>

-----------------------------------------------------------------------------
(* Entities, as far as routing looks at them.                              *)

\* Create and refresh messages of hub h: only an entity the gate does not
\* hold takes its hub and is_migrate from the message.
Ensure(e, h, isMigrate) ==
  /\ MainFree
  /\ eHub[e] = NoHub
  /\ eHub' = [eHub EXCEPT ![e] = h]
  /\ eMig' = [eMig EXCEPT ![e] = isMigrate]
  /\ UNCHANGED <<linkVars, hubs, eCache, callVars, hung>>

\* DeleteRemoteEntity drops the entity with the calls parked in it.
DeleteEntity(e) ==
  /\ MainFree
  /\ eHub[e] # NoHub
  /\ eHub' = [eHub EXCEPT ![e] = NoHub]
  /\ eMig' = [eMig EXCEPT ![e] = FALSE]
  /\ eCache' = [eCache EXCEPT ![e] = <<>>]
  /\ lost' = lost \cup ToSet(eCache[e])
  /\ UNCHANGED <<linkVars, hubs, target, sentTo, hung>>

\* Mutant of do_cache_msg: it ends the migration before it replays.
CompleteFirst(e, h) ==
  /\ eMig' = [eMig EXCEPT ![e] = FALSE]
  /\ hung' = (eCache[e] # <<>>)
  /\ UNCHANGED <<eHub, eCache, sentTo>>

WaitMigrate(e) ==
  /\ MainFree
  /\ eHub[e] # NoHub
  /\ eMig' = [eMig EXCEPT ![e] = TRUE]
  /\ UNCHANGED <<linkVars, hubs, eHub, eCache, callVars, hung>>

\* do_cache_msg locks the connection manager for each parked call, while its
\* caller holds that lock; with no call parked it resets is_migrate and never
\* assigns hub_name.
DoCacheMsg(e, h) ==
  /\ eMig' = IF eCache[e] = <<>> THEN [eMig EXCEPT ![e] = FALSE] ELSE eMig
  /\ hung' = (eCache[e] # <<>>)
  /\ UNCHANGED <<eHub, eCache, sentTo>>

MigrateComplete(e, h) ==
  /\ MainFree
  /\ eHub[e] # NoHub
  /\ DoCacheMsg(e, h)
  /\ UNCHANGED <<linkVars, hubs, target, lost>>

-----------------------------------------------------------------------------
(* Calls of clients.                                                       *)

\* The call waits in the migrating entity.  The mutant parks it and goes on,
\* as if the early return were missing.
ParkAndRoute(m, e) ==
  /\ eCache' = [eCache EXCEPT ![e] = Append(@, m)]
  /\ sentTo' = sentTo \cup {<<m, eHub[e]>>}
  /\ UNCHANGED <<hubs, lost>>
Park(m, e) ==
  /\ eCache' = [eCache EXCEPT ![e] = Append(@, m)]
  /\ UNCHANGED <<hubs, sentTo, lost>>

\* The call goes to the hub the entity belongs to, if the gate knows both; a
\* failed send drops the hub from the table, and the call.
Route(m, e) ==
  LET l == IF eHub[e] \in Hubs THEN hubs[eHub[e]] ELSE NoLink IN
  /\ UNCHANGED eCache
  /\ \/ /\ l # NoLink
        /\ tcp[l] = "up"
        /\ sentTo' = sentTo \cup {<<m, eHub[e]>>}
        /\ UNCHANGED <<hubs, lost>>
     \/ /\ l # NoLink
        /\ tcp[l] # "up"
        /\ hubs' = [hubs EXCEPT ![eHub[e]] = NoLink]
        /\ lost' = lost \cup {m}
        /\ UNCHANGED sentTo
     \/ /\ l = NoLink
        /\ lost' = lost \cup {m}
        /\ UNCHANGED <<hubs, sentTo>>

\* CallRpc, CallRsp and CallErr
CallHub(m, e) ==
  /\ MainFree
  /\ m \notin Sent
  /\ target' = [target EXCEPT ![m] = e]
  /\ IF eMig[e] THEN Park(m, e) ELSE Route(m, e)
  /\ UNCHANGED <<linkVars, eHub, eMig, hung>>

\* CallNtf by a connection that is not the entity's main one is refused, but
\* parked like any other while the entity migrates.
CallNtfOfOther(m, e) ==
  /\ MainFree
  /\ m \notin Sent
  /\ eHub[e] # NoHub
  /\ target' = [target EXCEPT ![m] = e]
  /\ IF eMig[e]
     THEN Park(m, e)
     ELSE /\ lost' = lost \cup {m}
          /\ UNCHANGED <<hubs, eCache, sentTo>>
  /\ UNCHANGED <<linkVars, eHub, eMig, hung>>

-----------------------------------------------------------------------------
LinkStep ==
  \/ \E l \in Links :
       \/ \E h \in Hubs : Dial(l, h) \/ RegHub(l, h)
       \/ AcceptLink(l) \/ LinkDown(l) \/ CloseName(l) \/ CloseForget(l)
  \/ NameDialed \/ RegName \/ RegEnter
  \/ \E h \in Hubs : RequestFails(h)

EntityStep ==
  \E e \in Entities :
    \/ \E h \in Hubs :
         \/ \E isMigrate \in BOOLEAN : Ensure(e, h, isMigrate)
         \/ MigrateComplete(e, h)
    \/ DeleteEntity(e) \/ WaitMigrate(e)

CallStep ==
  \E m \in Calls, e \in Entities : CallHub(m, e) \/ CallNtfOfOther(m, e)

Next == LinkStep \/ EntityStep \/ CallStep

\* The reader task of a dead link runs its close callback to the end, and the
\* main loop the handler it is in; what they wait for is locked only while a link
\* is dialed, and each link is dialed once.
Fairness ==
  /\ WF_vars(NameDialed) /\ WF_vars(RegName) /\ WF_vars(RegEnter)
  /\ \A l \in Links : WF_vars(CloseName(l)) /\ WF_vars(CloseForget(l))

Spec == Init /\ [][Next]_vars /\ Fairness

-----------------------------------------------------------------------------
TypeOK ==
  /\ tcp \in [Links -> {"free", "up", "down", "closing", "gone"}]
  /\ owner \in [Links -> Hubs \cup {NoHub}]
  /\ read \in [Links -> Hubs \cup {NoHub}]
  /\ entering \in Registration
  /\ overtaken \subseteq Links
  /\ hubs \in [Hubs -> Links \cup {NoLink}]
  /\ eHub \in [Entities -> Hubs \cup {NoHub}]
  /\ eMig \in [Entities -> BOOLEAN]
  /\ eCache \in [Entities -> Seq(Calls)]
  /\ target \in [Calls -> Entities \cup {NoEntity}]
  /\ sentTo \subseteq Calls \X Hubs
  /\ lost \subseteq Calls
  /\ hung \in BOOLEAN

Parked(m) == \E e \in Entities : m \in ToSet(eCache[e])
SentToHub(m) == \E h \in Hubs : <<m, h>> \in sentTo

\* A call a client made is in exactly one place: parked, sent to a hub or
\* lost.  It is never parked and sent, and never forgotten silently.
CallInOnePlace ==
  \A m \in Sent :
    /\ Parked(m) \/ SentToHub(m) \/ m \in lost
    /\ ~(Parked(m) /\ SentToHub(m))
    /\ ~(m \in lost /\ (Parked(m) \/ SentToHub(m)))

\* Calls wait only in an entity that still migrates, so the completion that
\* will come is the one to replay them.
ParkedMigrates ==
  \A e \in Entities : eCache[e] # <<>> => eMig[e] /\ eHub[e] # NoHub

\* The table forgets every link that closes, except one whose close callback
\* ran in the middle of its registration: it read no name while the link was
\* being dialed, or it had read the name, or found none, when the link was
\* filed.  Such a link stays in the table until a send to it fails.
ClosedLinkForgotten ==
  \A h \in Hubs, l \in Links : hubs[h] = l /\ tcp[l] = "gone" => l \in overtaken

\* A dead link that is registered under its name is dropped, by its close
\* callback or by a failed send, unless the main loop hangs with the lock the
\* callback needs.
DeadLinkDropped ==
  \A h \in Hubs, l \in Links :
    (hubs[h] = l /\ owner[l] = h /\ tcp[l] = "down") ~> (hubs[h] # l \/ hung)

=============================================================================
