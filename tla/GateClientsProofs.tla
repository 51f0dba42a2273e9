------------------------- MODULE GateClientsProofs -------------------------
(***************************************************************************)
(* Proofs about GateClients for every set of connections, hubs and         *)
(* entities.  The argument: a connection id is fresh until it is accepted, *)
(* and then the tables that name it only change together.                  *)
(***************************************************************************)
EXTENDS GateClients, TLAPS

\* An id no connection has been given yet appears in no table.
FreshUntouched ==
  \A c \in Conns : link[c] = "new" =>
    /\ c \notin clients
    /\ cEntities[c] = {} /\ clientHas[c] = {}
    /\ \A e \in Entities : ~Attached(e, c)

IInv ==
  /\ TypeOK
  /\ FreshUntouched
  /\ IndexMatchesClientView
  /\ AttachedIsIndexed
  /\ MainHasHubToNotify

-----------------------------------------------------------------------------
(* Type correctness.                                                       *)

LEMMA TypeInit == Init => TypeOK
<1> SUFFICES ASSUME Init PROVE TypeOK
  OBVIOUS
<1>1. hung \in BOOLEAN
  BY Zenon DEF Init
<1>2. eConns \in [Entities -> [Conns -> Nat]]
  BY DEF Init
<1> QED BY <1>1, <1>2 DEF Init, TypeOK

LEMMA DropOneNat == ASSUME NEW n \in Nat PROVE DropOne(n) \in Nat /\ DropOne(n) <= n
BY DEF DropOne

LEMMA TypeEnsure ==
  ASSUME TypeOK, NEW e \in Entities, NEW h \in Hubs, EnsureEntity(e, h)
  PROVE  eHub' \in [Entities -> Hubs \cup {NoHub}] /\ hubMap' = hubMap
BY DEF TypeOK, EnsureEntity, MainOfNew

LEMMA TypeShow ==
  ASSUME TypeOK, NEW e \in Entities, NEW S \in SUBSET Conns, Show(e, S)
  PROVE  /\ cEntities' \in [Conns -> SUBSET Entities]
         /\ clientHas' \in [Conns -> SUBSET Entities]
         /\ removed' \subseteq Entities \X Conns
BY DEF TypeOK, Show, Grant

LEMMA TypeConnStep == TypeOK /\ ConnStep => TypeOK'
BY DEF TypeOK, ConnStep, Accept, LinkDown, OnClose, CloseStale, DeleteProxies,
       clientVars, entityVars, history

LEMMA TypeCreateMain ==
  ASSUME TypeOK, NEW h \in Hubs, NEW e \in Entities, NEW c \in Conns,
         CreateMain(h, e, c)
  PROVE  TypeOK'
<1>1. CASE SendOk(c)
  <2>1. Show(e, {c}) /\ EnsureEntity(e, h) /\ {c} \in SUBSET Conns
    BY <1>1 DEF CreateMain
  <2>2. /\ cEntities' \in [Conns -> SUBSET Entities]
        /\ clientHas' \in [Conns -> SUBSET Entities]
        /\ removed' \subseteq Entities \X Conns
    BY <2>1, TypeShow
  <2>3. eHub' \in [Entities -> Hubs \cup {NoHub}] /\ hubMap' = hubMap
    BY <2>1, TypeEnsure
  <2>4. cHubs' \in [Conns -> SUBSET Hubs]
    BY <1>1 DEF CreateMain, TypeOK, Serve, Grant
  <2> QED BY <1>1, <2>2, <2>3, <2>4 DEF CreateMain, TypeOK
<1>2. CASE ~SendOk(c)
  BY <1>2 DEF CreateMain, TypeOK, DeleteProxies, entityVars, history
<1> QED BY <1>1, <1>2

LEMMA TypeCreateRemote ==
  ASSUME TypeOK, NEW h \in Hubs, NEW e \in Entities, NEW S \in SUBSET Conns,
         CreateRemote(h, e, S)
  PROVE  TypeOK'
<1> DEFINE ok == {c \in S : SendOk(c)}
<1>1. Show(e, ok) /\ ok \in SUBSET Conns
  BY DEF CreateRemote
<1>2. eHub' \in [Entities -> Hubs \cup {NoHub}] /\ hubMap' = hubMap
  BY TypeEnsure DEF CreateRemote, TypeOK
<1>3. eConns' \in [Entities -> [Conns -> Nat]]
  BY DEF CreateRemote, TypeOK
<1> QED BY <1>1, <1>2, <1>3, TypeShow DEF CreateRemote, TypeOK, Serve, Grant, DeleteProxies

LEMMA TypeRefresh ==
  ASSUME TypeOK, NEW h \in Hubs, NEW e \in Entities, NEW c \in Conns,
         NEW isMain \in BOOLEAN, Refresh(h, e, c, isMain)
  PROVE  TypeOK'
<1>1. CASE SendOk(c)
  <2>1. Show(e, {c}) /\ EnsureEntity(e, h) /\ {c} \in SUBSET Conns
    BY <1>1 DEF Refresh
  <2>2. /\ cEntities' \in [Conns -> SUBSET Entities]
        /\ clientHas' \in [Conns -> SUBSET Entities]
        /\ removed' \subseteq Entities \X Conns
    BY <2>1, TypeShow
  <2>3. eHub' \in [Entities -> Hubs \cup {NoHub}] /\ hubMap' = hubMap
    BY <2>1, TypeEnsure
  <2>4. cHubs' \in [Conns -> SUBSET Hubs]
    BY <1>1 DEF Refresh, TypeOK, Serve, Grant
  <2>5. eMain' \in [Entities -> Conns \cup {NoConn}]
    BY <1>1 DEF Refresh, TypeOK
  <2>6. eConns' \in [Entities -> [Conns -> Nat]]
    <3>1. eConns' = eConns \/ eConns' = [eConns EXCEPT ![e][c] = @ + 1]
      BY <1>1 DEF Refresh
    <3> QED BY <3>1 DEF TypeOK
  <2>7. UNCHANGED <<link, clients, cWait, hung, notified>>
    BY <1>1 DEF Refresh
  <2> QED BY <2>2, <2>3, <2>4, <2>5, <2>6, <2>7 DEF TypeOK
<1>2. CASE ~SendOk(c)
  BY <1>2 DEF Refresh, TypeOK, DeleteProxies, entityVars, history
<1> QED BY <1>1, <1>2

LEMMA TypeEntityStep == TypeOK /\ EntityStep => TypeOK'
<1> SUFFICES ASSUME TypeOK, NEW e \in Entities,
      \/ \E h \in Hubs :
           \/ \E c \in Conns : CreateMain(h, e, c)
           \/ \E S \in SUBSET Conns : CreateRemote(h, e, S)
           \/ \E c \in Conns, isMain \in BOOLEAN : Refresh(h, e, c, isMain)
      \/ DeleteEntity(e)
      \/ \E c \in Conns : ClientRemove(e, c)
    PROVE TypeOK'
  BY DEF EntityStep
<1>1. CASE DeleteEntity(e)
  BY <1>1 DEF DeleteEntity, TypeOK, Unindex, Revoke, DeleteProxies, Attached
<1>2. ASSUME NEW c \in Conns, ClientRemove(e, c) PROVE TypeOK'
  BY <1>2 DEF ClientRemove, TypeOK, Unindex, Revoke, DeleteProxies, DropOne
<1> QED BY <1>1, <1>2, TypeCreateMain, TypeCreateRemote, TypeRefresh

LEMMA TypeCallStep == TypeOK /\ CallStep => TypeOK'
<1>1. ASSUME TypeOK, NEW e \in Entities, NotifyAll(e) PROVE TypeOK'
  <2>1. eConns' \in [Entities -> [Conns -> Nat]]
    BY <1>1 DEF NotifyAll, TypeOK, DropOne
  <2> QED BY <1>1, <2>1 DEF NotifyAll, TypeOK, DeleteProxies, history
<1>2. ASSUME TypeOK, NEW e \in Entities, NEW c \in Conns, NotifyOne(e, c) PROVE TypeOK'
  BY <1>2 DEF NotifyOne, TypeOK, DeleteProxies, DropOne, history
<1> QED
  BY <1>1, <1>2
  DEF CallStep, TypeOK, CallMain, CallReply, SendToAll, DeleteProxies,
      entityVars, history

LEMMA TypeMoveStep == TypeOK /\ MoveStep => TypeOK'
<1> SUFFICES ASSUME TypeOK, NEW c \in Conns,
      \/ KickOff(c)
      \/ \E h \in Hubs : KickOffComplete(h, c)
      \/ Transfer(c)
      \/ \E e \in Entities : TransferComplete(c, e)
    PROVE TypeOK'
  BY DEF MoveStep
<1>1. CASE KickOff(c)
  <2>1. notified' \subseteq Conns \X Hubs
    BY <1>1 DEF KickOff, TypeOK
  <2> QED
    BY <1>1, <2>1
    DEF KickOff, TypeOK, CheckAllHubKickOff, clientVars, entityVars
<1>2. ASSUME NEW h \in Hubs, KickOffComplete(h, c) PROVE TypeOK'
  BY <1>2 DEF KickOffComplete, TypeOK, CheckAllHubKickOff, entityVars, history
<1>3. CASE Transfer(c)
  BY <1>3 DEF Transfer, TypeOK, entityVars, history
<1>4. ASSUME NEW e \in Entities, TransferComplete(c, e) PROVE TypeOK'
  BY <1>4 DEF TransferComplete, TypeOK, entityVars, history
<1> QED BY <1>1, <1>2, <1>3, <1>4

\* Every variable keeps the shape of its Rust field, whatever the number of
\* connections, hubs and entities.
THEOREM TypeCorrect == Spec => []TypeOK
<1>1. TypeOK /\ [Next]_vars => TypeOK'
  <2>1. TypeOK /\ UNCHANGED vars => TypeOK'
    BY DEF TypeOK, vars, clientVars, entityVars, history
  <2> QED BY <2>1, TypeConnStep, TypeEntityStep, TypeCallStep, TypeMoveStep DEF Next
<1> QED BY <1>1, TypeInit, PTL DEF Spec

-----------------------------------------------------------------------------
(* The safety invariants.                                                  *)

\* Steps that show nothing new: connections leave the table, entities lose
\* connections, and the indices stay.
LEMMA Dwindle ==
  ASSUME TypeOK, TypeOK', FreshUntouched, IndexMatchesClientView, AttachedIsIndexed,
         clients' \subseteq clients,
         \A c \in Conns : link'[c] = "new" => link[c] = "new",
         UNCHANGED <<cEntities, clientHas>>,
         removed \subseteq removed',
         \A e \in Entities, c \in Conns :
           (eMain'[e] = c \/ eConns'[e][c] > 0) => Attached(e, c)
  PROVE  FreshUntouched' /\ IndexMatchesClientView' /\ AttachedIsIndexed'
<1>1. FreshUntouched'
  BY DEF FreshUntouched, Attached
<1>2. IndexMatchesClientView'
  BY DEF IndexMatchesClientView
<1>3. AttachedIsIndexed'
  BY DEF AttachedIsIndexed, Attached, TypeOK
<1> QED BY <1>1, <1>2, <1>3

\* Steps that show entity e to the connections of S.
LEMMA Grow ==
  ASSUME TypeOK, FreshUntouched, IndexMatchesClientView, AttachedIsIndexed,
         NEW e \in Entities, NEW S \in SUBSET Conns,
         \A c \in S : SendOk(c),
         Show(e, S), link' = link, clients' \subseteq clients,
         \A e2 \in Entities, c \in Conns :
           (eMain'[e2] = c \/ eConns'[e2][c] > 0)
             => Attached(e2, c) \/ (e2 = e /\ c \in S)
  PROVE  FreshUntouched' /\ IndexMatchesClientView' /\ AttachedIsIndexed'
<1>1. FreshUntouched'
  <2> SUFFICES ASSUME NEW c \in Conns, link[c] = "new"
      PROVE /\ c \notin clients' /\ cEntities'[c] = {} /\ clientHas'[c] = {}
            /\ \A e2 \in Entities : ~(eMain'[e2] = c \/ eConns'[e2][c] > 0)
    BY DEF FreshUntouched, Attached
  <2>1. c \notin S
    BY DEF SendOk, FreshUntouched
  <2> QED BY <2>1 DEF FreshUntouched, Show, Grant
<1>2. IndexMatchesClientView'
  BY DEF IndexMatchesClientView, Show, Grant, TypeOK
<1>3. AttachedIsIndexed'
  <2> SUFFICES ASSUME NEW e2 \in Entities, NEW c \in clients',
                      eMain'[e2] = c \/ eConns'[e2][c] > 0,
                      <<e2, c>> \notin removed'
      PROVE e2 \in cEntities'[c]
    BY DEF AttachedIsIndexed, Attached
  <2>1. c \in Conns /\ c \in clients
    BY DEF TypeOK
  <2>2. CASE e2 = e /\ c \in S
    BY <2>1, <2>2 DEF Show, Grant
  <2>3. CASE ~(e2 = e /\ c \in S)
    <3>1. Attached(e2, c) /\ <<e2, c>> \notin removed
      BY <2>1, <2>3 DEF Show
    <3>2. e2 \in cEntities[c]
      BY <3>1, <2>1 DEF AttachedIsIndexed
    <3> QED BY <3>2, <2>1 DEF Show, Grant
  <2> QED BY <2>2, <2>3
<1> QED BY <1>1, <1>2, <1>3

Indexed == FreshUntouched /\ IndexMatchesClientView /\ AttachedIsIndexed

LEMMA IndexedConnStep ==
  ASSUME TypeOK, TypeOK', Indexed, ConnStep
  PROVE  Indexed'
<1> PICK c \in Conns : Accept(c) \/ LinkDown(c) \/ OnClose(c) \/ CloseStale(c)
  BY DEF ConnStep
<1>1. CASE Accept(c)
  BY <1>1
  DEF Accept, TypeOK, Indexed, FreshUntouched, IndexMatchesClientView,
      AttachedIsIndexed, Attached, entityVars, history
<1>2. CASE LinkDown(c)
  BY <1>2, Dwindle
  DEF LinkDown, Indexed, TypeOK, Attached, clientVars, entityVars, history
<1>3. CASE OnClose(c)
  BY <1>3, Dwindle
  DEF OnClose, Indexed, DeleteProxies, Attached, entityVars, history
<1>4. CASE CloseStale(c)
  BY <1>4, Dwindle
  DEF CloseStale, Indexed, DeleteProxies, Attached, TypeOK
<1> QED BY <1>1, <1>2, <1>3, <1>4

LEMMA IndexedCreateMain ==
  ASSUME TypeOK, TypeOK', Indexed, NEW h \in Hubs, NEW e \in Entities,
         NEW c \in Conns, CreateMain(h, e, c)
  PROVE  Indexed'
<1>1. CASE SendOk(c)
  BY <1>1, Grow DEF CreateMain, Indexed, TypeOK, Attached
<1>2. CASE ~SendOk(c)
  BY <1>2, Dwindle
  DEF CreateMain, Indexed, DeleteProxies, Attached, entityVars, history
<1> QED BY <1>1, <1>2

LEMMA IndexedCreateRemote ==
  ASSUME TypeOK, TypeOK', Indexed, NEW h \in Hubs, NEW e \in Entities,
         NEW S \in SUBSET Conns, CreateRemote(h, e, S)
  PROVE  Indexed'
<1> DEFINE ok == {c \in S : SendOk(c)}
<1>1. /\ Show(e, ok) /\ ok \in SUBSET Conns /\ \A c \in ok : SendOk(c)
      /\ link' = link /\ clients' \subseteq clients
  BY DEF CreateRemote, DeleteProxies
<1>2. \A e2 \in Entities, c \in Conns :
        (eMain'[e2] = c \/ eConns'[e2][c] > 0)
          => Attached(e2, c) \/ (e2 = e /\ c \in ok)
  BY DEF CreateRemote, Attached, TypeOK
<1> HIDE DEF ok
<1> QED BY <1>1, <1>2, Grow DEF Indexed

LEMMA IndexedRefresh ==
  ASSUME TypeOK, TypeOK', Indexed, NEW h \in Hubs, NEW e \in Entities,
         NEW c \in Conns, NEW isMain \in BOOLEAN, Refresh(h, e, c, isMain)
  PROVE  Indexed'
<1>1. CASE SendOk(c)
  <2>1. /\ Show(e, {c}) /\ {c} \in SUBSET Conns
        /\ link' = link /\ clients' = clients
    BY <1>1 DEF Refresh
  <2>2. \/ eMain' = [eMain EXCEPT ![e] = c] /\ eConns' = eConns
        \/ eMain' = eMain /\ eConns' = [eConns EXCEPT ![e][c] = @ + 1]
    BY <1>1 DEF Refresh
  <2>3. \A e2 \in Entities, d \in Conns :
          (eMain'[e2] = d \/ eConns'[e2][d] > 0)
            => Attached(e2, d) \/ (e2 = e /\ d \in {c})
    BY <2>2 DEF Attached, TypeOK
  <2> QED BY <1>1, <2>1, <2>3, Grow DEF Indexed
<1>2. CASE ~SendOk(c)
  BY <1>2, Dwindle
  DEF Refresh, Indexed, DeleteProxies, Attached, entityVars, history
<1> QED BY <1>1, <1>2

LEMMA IndexedDeleteEntity ==
  ASSUME TypeOK, TypeOK', Indexed, NEW e \in Entities, DeleteEntity(e)
  PROVE  Indexed'
<1>1. \A e2 \in Entities, c \in Conns :
        (eMain'[e2] = c \/ eConns'[e2][c] > 0) => Attached(e2, c) /\ e2 # e
  BY NoConnAssumption DEF DeleteEntity, Attached, TypeOK
<1>2. FreshUntouched'
  BY <1>1
  DEF DeleteEntity, Indexed, FreshUntouched, Attached, Unindex, Revoke,
      DeleteProxies, TypeOK
<1>3. IndexMatchesClientView'
  BY DEF DeleteEntity, Indexed, IndexMatchesClientView, Unindex, Revoke,
         DeleteProxies, Unreachable, SendOk, TypeOK
<1>4. AttachedIsIndexed'
  <2> SUFFICES ASSUME NEW e2 \in Entities, NEW c \in clients',
                      eMain'[e2] = c \/ eConns'[e2][c] > 0,
                      <<e2, c>> \notin removed'
      PROVE e2 \in cEntities'[c]
    BY DEF AttachedIsIndexed, Attached
  <2>1. c \in Conns /\ c \in clients /\ <<e2, c>> \notin removed
    BY DEF TypeOK, DeleteEntity, DeleteProxies
  <2>2. e2 # e /\ e2 \in cEntities[c]
    BY <1>1, <2>1 DEF Indexed, AttachedIsIndexed
  <2> QED BY <2>1, <2>2 DEF DeleteEntity, Unindex, Revoke
<1> QED BY <1>2, <1>3, <1>4 DEF Indexed

LEMMA IndexedClientRemove ==
  ASSUME TypeOK, TypeOK', Indexed, NEW e \in Entities, NEW c \in Conns,
         ClientRemove(e, c)
  PROVE  Indexed'
<1>1. \A e2 \in Entities, d \in Conns :
        (eMain'[e2] = d \/ eConns'[e2][d] > 0) => Attached(e2, d)
  BY DEF ClientRemove, Attached, TypeOK, DropOne
<1>2. link' = link /\ clients' \subseteq clients
  BY DEF ClientRemove, DeleteProxies
<1>3. FreshUntouched'
  BY <1>1, <1>2
  DEF ClientRemove, Indexed, FreshUntouched, Attached, Unindex, Revoke, TypeOK
<1>4. IndexMatchesClientView'
  <2> SUFFICES ASSUME NEW d \in clients' PROVE cEntities'[d] = clientHas'[d]
    BY DEF IndexMatchesClientView
  <2>1. d \in clients /\ d \in Conns /\ cEntities[d] = clientHas[d]
    BY <1>2 DEF Indexed, IndexMatchesClientView, TypeOK
  <2>2. CASE SendOk(c)
    BY <2>1, <2>2 DEF ClientRemove, Unindex, Revoke, SendOk
  <2>3. CASE ~SendOk(c)
    <3>1. d # c /\ clientHas' = clientHas
      BY <2>3 DEF ClientRemove, DeleteProxies
    <3> QED BY <2>1, <3>1 DEF ClientRemove, Unindex, Revoke
  <2> QED BY <2>2, <2>3
<1>5. AttachedIsIndexed'
  <2> SUFFICES ASSUME NEW e2 \in Entities, NEW d \in clients',
                      eMain'[e2] = d \/ eConns'[e2][d] > 0,
                      <<e2, d>> \notin removed'
      PROVE e2 \in cEntities'[d]
    BY DEF AttachedIsIndexed, Attached
  <2>1. d \in Conns /\ d \in clients
    BY <1>2 DEF TypeOK
  <2>2. <<e2, d>> \notin removed /\ <<e2, d>> # <<e, c>>
    BY DEF ClientRemove
  <2>3. e2 \in cEntities[d]
    BY <1>1, <2>1, <2>2 DEF Indexed, AttachedIsIndexed
  <2> QED BY <2>1, <2>2, <2>3 DEF ClientRemove, Unindex, Revoke
<1> QED BY <1>3, <1>4, <1>5 DEF Indexed

LEMMA IndexedEntityStep ==
  ASSUME TypeOK, TypeOK', Indexed, EntityStep
  PROVE  Indexed'
BY IndexedCreateMain, IndexedCreateRemote, IndexedRefresh, IndexedDeleteEntity,
   IndexedClientRemove
DEF EntityStep

LEMMA IndexedCallStep ==
  ASSUME TypeOK, TypeOK', Indexed, CallStep
  PROVE  Indexed'
<1>1. ASSUME NEW e \in Entities, NotifyAll(e) PROVE Indexed'
  <2>1. \A e2 \in Entities, c \in Conns :
          (eMain'[e2] = c \/ eConns'[e2][c] > 0) => Attached(e2, c)
    BY <1>1, NoConnAssumption DEF NotifyAll, Attached, TypeOK, DropOne
  <2> QED BY <1>1, <2>1, Dwindle DEF NotifyAll, Indexed, DeleteProxies, history
<1>2. ASSUME NEW e \in Entities, NEW c \in Conns, NotifyOne(e, c) PROVE Indexed'
  <2>1. \A e2 \in Entities, d \in Conns :
          (eMain'[e2] = d \/ eConns'[e2][d] > 0) => Attached(e2, d)
    BY <1>2, NoConnAssumption DEF NotifyOne, Attached, TypeOK, DropOne
  <2> QED BY <1>2, <2>1, Dwindle DEF NotifyOne, Indexed, DeleteProxies, history
<1>3. ASSUME NEW e \in Entities, CallMain(e) PROVE Indexed'
  BY <1>3, Dwindle DEF CallMain, Indexed, DeleteProxies, Attached, entityVars, history
<1>4. ASSUME NEW e \in Entities, NEW c \in Conns, CallReply(e, c) PROVE Indexed'
  BY <1>4, Dwindle DEF CallReply, Indexed, DeleteProxies, Attached, entityVars, history
<1>5. ASSUME NEW S, SendToAll(S) PROVE Indexed'
  BY <1>5, Dwindle DEF SendToAll, Indexed, DeleteProxies, Attached, entityVars, history
<1> QED BY <1>1, <1>2, <1>3, <1>4, <1>5 DEF CallStep

LEMMA IndexedMoveStep ==
  ASSUME TypeOK, TypeOK', Indexed, MoveStep
  PROVE  Indexed'
<1>1. /\ UNCHANGED <<link, clients, cEntities, clientHas, removed, eMain, eConns>>
  BY DEF MoveStep, KickOff, KickOffComplete, Transfer, TransferComplete,
         clientVars, entityVars, history
<1> QED BY <1>1, Dwindle DEF Indexed, Attached

-----------------------------------------------------------------------------
(* A main connection keeps a hub to be kicked off through.                 *)

\* Main connections that no step adds keep their hubs.
LEMMA MainKept ==
  ASSUME TypeOK, MainHasHubToNotify, clients' \subseteq clients,
         hung => hung',
         \A e \in Entities : eMain'[e] \in Conns => eMain'[e] = eMain[e],
         \A c \in Conns : cHubs[c] # {} => cHubs'[c] # {}
  PROVE  MainHasHubToNotify'
BY DEF MainHasHubToNotify, TypeOK

\* A connection becomes main and records the hub in the same step.
LEMMA MainShown ==
  ASSUME TypeOK, MainHasHubToNotify, NEW e \in Entities, NEW c \in Conns,
         NEW h \in Hubs, clients' = clients, hung' = hung,
         eMain' = [eMain EXCEPT ![e] = c], Serve({c}, h)
  PROVE  MainHasHubToNotify'
<1> SUFFICES ASSUME NEW f \in Entities, eMain'[f] \in clients, ~hung
             PROVE cHubs'[eMain'[f]] # {}
  BY DEF MainHasHubToNotify
<1>1. h \in cHubs'[c]
  BY DEF Serve, Grant
<1>2. \A d \in Conns : cHubs[d] \subseteq cHubs'[d]
  BY DEF Serve, Grant
<1>3. CASE f = e
  BY <1>1, <1>3 DEF TypeOK
<1>4. CASE f # e
  <2>1. eMain'[f] = eMain[f] /\ eMain[f] \in Conns /\ cHubs[eMain[f]] # {}
    BY <1>4 DEF MainHasHubToNotify, TypeOK
  <2> QED BY <1>2, <2>1
<1> QED BY <1>3, <1>4

LEMMA MainConnStep ==
  ASSUME TypeOK, TypeOK', FreshUntouched, MainHasHubToNotify, ConnStep
  PROVE  MainHasHubToNotify'
<1> PICK c \in Conns : Accept(c) \/ LinkDown(c) \/ OnClose(c) \/ CloseStale(c)
  BY DEF ConnStep
<1>1. CASE Accept(c)
  BY <1>1
  DEF Accept, TypeOK, MainHasHubToNotify, FreshUntouched, Attached, entityVars
<1>2. CASE LinkDown(c) \/ OnClose(c) \/ CloseStale(c)
  BY <1>2, MainKept
  DEF LinkDown, OnClose, CloseStale, DeleteProxies, clientVars, entityVars
<1> QED BY <1>1, <1>2

LEMMA MainEntityStep ==
  ASSUME TypeOK, TypeOK', MainHasHubToNotify, EntityStep
  PROVE  MainHasHubToNotify'
<1>1. ASSUME NEW h \in Hubs, NEW e \in Entities, NEW c \in Conns,
             CreateMain(h, e, c)
      PROVE MainHasHubToNotify'
  <2>1. CASE SendOk(c)
    BY <1>1, <2>1, MainShown DEF CreateMain
  <2>2. CASE ~SendOk(c)
    BY <1>1, <2>2, MainKept DEF CreateMain, DeleteProxies, entityVars
  <2> QED BY <2>1, <2>2
<1>2. ASSUME NEW h \in Hubs, NEW e \in Entities, NEW S \in SUBSET Conns,
             CreateRemote(h, e, S)
      PROVE MainHasHubToNotify'
  BY <1>2, MainKept DEF CreateRemote, Serve, Grant, DeleteProxies
<1>3. ASSUME NEW h \in Hubs, NEW e \in Entities, NEW c \in Conns,
             NEW isMain \in BOOLEAN, Refresh(h, e, c, isMain)
      PROVE MainHasHubToNotify'
  <2>1. CASE SendOk(c)
    <3>1. /\ clients' = clients /\ hung' = hung
          /\ \/ eMain' = [eMain EXCEPT ![e] = c] /\ Serve({c}, h)
             \/ UNCHANGED <<eMain, cHubs>>
      BY <1>3, <2>1 DEF Refresh
    <3>2. CASE UNCHANGED <<eMain, cHubs>>
      BY <3>1, <3>2, MainKept
    <3> QED BY <3>1, <3>2, MainShown
  <2>2. CASE ~SendOk(c)
    BY <1>3, <2>2, MainKept DEF Refresh, DeleteProxies, entityVars
  <2> QED BY <2>1, <2>2
<1>4. ASSUME NEW e \in Entities, DeleteEntity(e) PROVE MainHasHubToNotify'
  BY <1>4, MainKept, NoConnAssumption DEF DeleteEntity, DeleteProxies, TypeOK
<1>5. ASSUME NEW e \in Entities, NEW c \in Conns, ClientRemove(e, c)
      PROVE MainHasHubToNotify'
  BY <1>5, MainKept DEF ClientRemove, DeleteProxies
<1> QED BY <1>1, <1>2, <1>3, <1>4, <1>5 DEF EntityStep

LEMMA MainCallStep ==
  ASSUME TypeOK, TypeOK', MainHasHubToNotify, CallStep
  PROVE  MainHasHubToNotify'
<1>1. /\ clients' \subseteq clients /\ UNCHANGED <<cHubs, hung>>
      /\ \A e \in Entities : eMain'[e] \in Conns => eMain'[e] = eMain[e]
  BY NoConnAssumption
  DEF CallStep, CallMain, CallReply, NotifyOne, NotifyAll, SendToAll,
      DeleteProxies, entityVars, TypeOK
<1> QED BY <1>1, MainKept

LEMMA MainMoveStep ==
  ASSUME TypeOK, TypeOK', MainHasHubToNotify, MoveStep
  PROVE  MainHasHubToNotify'
<1> PICK c \in Conns :
      \/ KickOff(c)
      \/ \E h \in Hubs : KickOffComplete(h, c)
      \/ Transfer(c)
      \/ \E e \in Entities : TransferComplete(c, e)
  BY DEF MoveStep
<1>1. CASE KickOff(c)
  BY <1>1, MainKept DEF KickOff, clientVars, entityVars
<1>2. ASSUME NEW h \in Hubs, KickOffComplete(h, c) PROVE MainHasHubToNotify'
  BY <1>2 DEF KickOffComplete, MainHasHubToNotify, CheckAllHubKickOff, TypeOK,
              entityVars
<1>3. CASE Transfer(c) \/ \E e \in Entities : TransferComplete(c, e)
  BY <1>3, MainKept DEF Transfer, TransferComplete, entityVars
<1> QED BY <1>1, <1>2, <1>3

-----------------------------------------------------------------------------
LEMMA InvInit == Init => IInv
BY TypeInit, NoConnAssumption
DEF Init, IInv, FreshUntouched, IndexMatchesClientView, AttachedIsIndexed,
    MainHasHubToNotify, Attached

LEMMA InvStep == IInv /\ [Next]_vars => IInv'
<1> SUFFICES ASSUME IInv, [Next]_vars PROVE IInv'
  OBVIOUS
<1>1. CASE UNCHANGED vars
  BY <1>1
  DEF vars, clientVars, entityVars, history, IInv, TypeOK, FreshUntouched,
      IndexMatchesClientView, AttachedIsIndexed, MainHasHubToNotify, Attached
<1>2. CASE Next
  <2>1. TypeOK'
    BY <1>2, TypeConnStep, TypeEntityStep, TypeCallStep, TypeMoveStep DEF Next, IInv
  <2>2. Indexed'
    BY <1>2, <2>1, IndexedConnStep, IndexedEntityStep, IndexedCallStep,
       IndexedMoveStep
    DEF Next, IInv, Indexed
  <2>3. MainHasHubToNotify'
    BY <1>2, <2>1, MainConnStep, MainEntityStep, MainCallStep, MainMoveStep
    DEF Next, IInv
  <2> QED BY <2>1, <2>2, <2>3 DEF IInv, Indexed
<1> QED BY <1>1, <1>2

THEOREM InvCorrect == Spec => []IInv
BY InvInit, InvStep, PTL DEF Spec

\* The entities recorded for a connected client are the ones it holds.
THEOREM IndexCorrect == Spec => []IndexMatchesClientView
BY InvCorrect, PTL DEF IInv

\* A transfer, which walks the index, meets every entity attached to the
\* client that no ClientRemoveRemoteEntity took from it.
THEOREM AttachedCorrect == Spec => []AttachedIsIndexed
BY InvCorrect, PTL DEF IInv

\* While the main loop runs, a main client has a hub to be kicked off through.
THEOREM MainHubCorrect == Spec => []MainHasHubToNotify
BY InvCorrect, PTL DEF IInv

\* A connection leaves the table only if its socket is dead or is closed by
\* the same step, however many connections one message names.
THEOREM HealthyCorrect == Spec => HealthyClientStays
<1>1. ASSUME IInv, Next, NEW c \in clients \ clients'
      PROVE  link[c] = "down" \/ link'[c] = "down"
  <2>1. c \in Conns /\ link[c] \in {"up", "down"} /\ (SendOk(c) <=> link[c] = "up")
    BY <1>1 DEF IInv, TypeOK, FreshUntouched, SendOk
  <2>2. CASE ConnStep
    BY <1>1, <2>1, <2>2
    DEF ConnStep, Accept, LinkDown, OnClose, CloseStale, DeleteProxies, clientVars,
        IInv, TypeOK
  <2>3. CASE EntityStep
    <3>1. ~SendOk(c)
      BY <1>1, <2>3
      DEF EntityStep, CreateMain, CreateRemote, Refresh, DeleteEntity,
          ClientRemove, DeleteProxies, Unreachable
    <3> QED BY <2>1, <3>1
  <2>4. CASE CallStep
    BY <1>1, <2>1, <2>4
    DEF CallStep, CallMain, CallReply, NotifyOne, NotifyAll, SendToAll,
        DeleteProxies, Unreachable
  <2>5. CASE MoveStep
    BY <1>1, <2>5
    DEF MoveStep, KickOff, KickOffComplete, Transfer, TransferComplete, clientVars
  <2> QED BY <1>1, <2>2, <2>3, <2>4, <2>5 DEF Next
<1>2. IInv /\ [Next]_vars =>
        [\A c \in clients \ clients' : link[c] = "down" \/ link'[c] = "down"]_vars
  BY <1>1
<1> QED BY <1>2, InvCorrect, PTL DEF Spec, HealthyClientStays
=============================================================================
