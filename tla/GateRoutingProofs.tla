------------------------- MODULE GateRoutingProofs -------------------------
(***************************************************************************)
(* Proofs about GateRouting for every set of hubs, links, entities and     *)
(* calls: a call is parked only in a migrating entity and never in two     *)
(* places, and the hub table keeps a closed link only when its close       *)
(* callback ran in the middle of its registration.                         *)
(***************************************************************************)
EXTENDS GateRouting, TLAPS

\* A call that was not made is nowhere.
UnsentNowhere ==
  \A m \in Calls \ Sent : ~Parked(m) /\ ~SentToHub(m) /\ m \notin lost

\* A parked call waits in the entity it names, so in no second one.
ParkedAtTarget ==
  \A e \in Entities : \A m \in ToSet(eCache[e]) : target[m] = e

\* The link of a registration under way is open and is being named: it has no
\* name yet, or, when it is filed last, has it already.
EnteringOpen ==
  entering # Idle =>
    /\ entering.link \in Links
    /\ entering.hub \in Hubs
    /\ tcp[entering.link] # "free"
    /\ owner[entering.link] = IF entering.at = "named" THEN entering.hub ELSE NoHub

\* A link nobody opened has no name.
FreeUnnamed == \A l \in Links : tcp[l] = "free" => owner[l] = NoHub

\* A filed link has the name it is filed under, or is just about to get it,
\* and its close callback, when it runs, has read that name.
Kept(h, l) ==
  /\ owner[l] = h \/ (entering.at = "dial" /\ entering.link = l /\ entering.hub = h)
  /\ tcp[l] = "closing" => read[l] = h
  /\ tcp[l] \notin {"free", "gone"}
FiledKept ==
  \A h \in Hubs, l \in Links : hubs[h] = l /\ l \notin overtaken => Kept(h, l)

\* Only an entity the gate holds migrates.
MigratingHeld == \A e \in Entities : eMig[e] => eHub[e] # NoHub

IInv ==
  /\ TypeOK
  /\ EnteringOpen
  /\ FreeUnnamed
  /\ FiledKept
  /\ MigratingHeld
  /\ ParkedAtTarget
  /\ UnsentNowhere
  /\ CallInOnePlace
  /\ ParkedMigrates

LEMMA ToSetEmpty == ToSet(<<>>) = {}
BY DEF ToSet

LEMMA ToSetAppend ==
  ASSUME NEW s \in Seq(Calls), NEW m \in Calls
  PROVE  ToSet(Append(s, m)) = ToSet(s) \cup {m}
<1>1. DOMAIN Append(s, m) = 1 .. Len(s) + 1 /\ DOMAIN s = 1 .. Len(s) /\ Len(s) \in Nat
  OBVIOUS
<1>2. \A i \in 1 .. Len(s) : Append(s, m)[i] = s[i]
  OBVIOUS
<1>3. Append(s, m)[Len(s) + 1] = m
  OBVIOUS
<1> QED BY <1>1, <1>2, <1>3 DEF ToSet

LEMMA ToSetCalls == ASSUME NEW s \in Seq(Calls) PROVE ToSet(s) \subseteq Calls
BY DEF ToSet

-----------------------------------------------------------------------------
(* Type correctness.                                                       *)

LEMMA TypeInit == Init => TypeOK
<1> SUFFICES ASSUME Init PROVE TypeOK
  OBVIOUS
<1>1. hung \in BOOLEAN /\ eMig \in [Entities -> BOOLEAN]
  BY Zenon DEF Init
<1>2. eCache \in [Entities -> Seq(Calls)]
  BY DEF Init
<1>3. entering \in Registration
  BY DEF Init, Idle, Registration
<1> QED BY <1>1, <1>2, <1>3 DEF Init, TypeOK

LEMMA TypeLinkStep == TypeOK /\ EnteringOpen /\ LinkStep => TypeOK'
<1> SUFFICES ASSUME TypeOK, EnteringOpen, LinkStep PROVE TypeOK'
  OBVIOUS
<1>1. UNCHANGED <<entityVars, callVars, hung>>
  BY DEF LinkStep, Dial, NameDialed, AcceptLink, RegHub, RegName, RegEnter, LinkDown,
         CloseName, CloseForget, RequestFails
<1>2. ASSUME NEW l \in Links, NEW h \in Hubs, Dial(l, h) \/ RegHub(l, h)
      PROVE  TypeOK'
  <2>1. entering' \in Registration
    BY <1>2 DEF Dial, RegHub, Registration
  <2> QED BY <1>1, <1>2, <2>1 DEF Dial, RegHub, TypeOK, entityVars, callVars
<1>3. ASSUME NEW l \in Links,
             AcceptLink(l) \/ LinkDown(l) \/ CloseName(l) \/ CloseForget(l)
      PROVE  TypeOK'
  BY <1>1, <1>3
  DEF AcceptLink, LinkDown, CloseName, CloseForget, Forget, TypeOK, entityVars, callVars
<1>4. CASE NameDialed \/ RegName \/ RegEnter
  <2>1. entering # Idle /\ entering.link \in Links /\ entering.hub \in Hubs
    BY <1>4 DEF NameDialed, RegName, RegEnter, EnteringOpen, Idle
  <2>2. entering' \in Registration
    <3>1. entering \in Registration
      BY DEF TypeOK
    <3>2. CASE RegName
      BY <3>1, <3>2 DEF RegName, Registration
    <3>3. CASE NameDialed \/ RegEnter
      BY <3>3 DEF NameDialed, RegEnter, Idle, Registration
    <3> QED BY <1>4, <3>2, <3>3
  <2>3. owner' \in [Links -> Hubs \cup {NoHub}]
    BY <1>4, <2>1 DEF NameDialed, RegName, RegEnter, Name, TypeOK
  <2>4. hubs' \in [Hubs -> Links \cup {NoLink}] /\ overtaken' \subseteq Links
    BY <1>4, <2>1 DEF NameDialed, RegName, RegEnter, TypeOK
  <2>5. UNCHANGED <<tcp, read>>
    BY <1>4 DEF NameDialed, RegName, RegEnter
  <2> QED BY <1>1, <2>2, <2>3, <2>4, <2>5 DEF TypeOK, entityVars, callVars
<1>5. ASSUME NEW h \in Hubs, RequestFails(h) PROVE TypeOK'
  BY <1>1, <1>5 DEF RequestFails, linkVars, TypeOK, entityVars, callVars
<1> QED BY <1>2, <1>3, <1>4, <1>5 DEF LinkStep

LEMMA TypeEntityStep == TypeOK /\ EntityStep => TypeOK'
<1> SUFFICES ASSUME TypeOK, NEW e \in Entities,
      \/ \E h \in Hubs :
           \/ \E isMigrate \in BOOLEAN : Ensure(e, h, isMigrate)
           \/ MigrateComplete(e, h)
      \/ DeleteEntity(e) \/ WaitMigrate(e)
    PROVE TypeOK'
  BY DEF EntityStep
<1>1. ASSUME NEW h \in Hubs, NEW isMigrate \in BOOLEAN, Ensure(e, h, isMigrate)
      PROVE TypeOK'
  BY <1>1 DEF Ensure, TypeOK, linkVars, callVars
<1>2. ASSUME NEW h \in Hubs, MigrateComplete(e, h) PROVE TypeOK'
  <2>1. eMig' \in [Entities -> BOOLEAN]
    BY <1>2 DEF MigrateComplete, DoCacheMsg, TypeOK
  <2>2. hung' \in BOOLEAN
    BY <1>2, Zenon DEF MigrateComplete, DoCacheMsg
  <2> QED BY <1>2, <2>1, <2>2 DEF MigrateComplete, DoCacheMsg, TypeOK, linkVars
<1>3. CASE DeleteEntity(e)
  <2>1. ToSet(eCache[e]) \subseteq Calls
    BY ToSetCalls DEF TypeOK
  <2> QED BY <1>3, <2>1 DEF DeleteEntity, TypeOK, linkVars
<1>4. CASE WaitMigrate(e)
  BY <1>4 DEF WaitMigrate, TypeOK, linkVars, callVars
<1> QED BY <1>1, <1>2, <1>3, <1>4

LEMMA TypeRoute ==
  ASSUME TypeOK, NEW m \in Calls, NEW e \in Entities, Park(m, e) \/ Route(m, e)
  PROVE  /\ eCache' \in [Entities -> Seq(Calls)]
         /\ hubs' \in [Hubs -> Links \cup {NoLink}]
         /\ sentTo' \subseteq Calls \X Hubs
         /\ lost' \subseteq Calls
<1>1. CASE Park(m, e)
  BY <1>1 DEF Park, TypeOK
<1>2. CASE Route(m, e)
  <2>1. hubs' \in [Hubs -> Links \cup {NoLink}] /\ lost' \subseteq Calls /\ eCache' = eCache
    BY <1>2 DEF Route, TypeOK
  <2>2. sentTo' = sentTo \/ (eHub[e] \in Hubs /\ sentTo' = sentTo \cup {<<m, eHub[e]>>})
    BY <1>2 DEF Route
  <2> QED BY <2>1, <2>2 DEF TypeOK
<1> QED BY <1>1, <1>2

LEMMA TypeCallStep == TypeOK /\ CallStep => TypeOK'
<1> SUFFICES ASSUME TypeOK, NEW m \in Calls, NEW e \in Entities,
                    CallHub(m, e) \/ CallNtfOfOther(m, e)
             PROVE TypeOK'
  BY DEF CallStep
<1>1. CASE CallHub(m, e)
  <2>1. Park(m, e) \/ Route(m, e)
    BY <1>1 DEF CallHub
  <2> QED BY <1>1, <2>1, TypeRoute DEF CallHub, TypeOK, linkVars
<1>2. CASE CallNtfOfOther(m, e)
  <2>1. \/ Park(m, e)
        \/ lost' = lost \cup {m} /\ UNCHANGED <<hubs, eCache, sentTo>>
    BY <1>2 DEF CallNtfOfOther
  <2> QED BY <1>2, <2>1, TypeRoute DEF CallNtfOfOther, TypeOK, linkVars
<1> QED BY <1>1, <1>2

-----------------------------------------------------------------------------
(* Where a call is.                                                        *)

Placed ==
  ParkedAtTarget /\ UnsentNowhere /\ CallInOnePlace /\ ParkedMigrates

\* Steps that move no call
LEMMA PlacedFrame ==
  ASSUME Placed, UNCHANGED <<eCache, callVars>>,
         \A e \in Entities : eCache[e] # <<>> => eMig'[e] = eMig[e] /\ eHub'[e] = eHub[e]
  PROVE  Placed'
BY DEF Placed, ParkedAtTarget, UnsentNowhere, CallInOnePlace, ParkedMigrates,
       Parked, SentToHub, Sent, callVars

LEMMA PlacedLinkStep == Placed /\ LinkStep => Placed'
<1> SUFFICES ASSUME Placed, LinkStep PROVE Placed'
  OBVIOUS
<1>1. UNCHANGED <<entityVars, callVars>>
  BY DEF LinkStep, Dial, NameDialed, AcceptLink, RegHub, RegName, RegEnter, LinkDown,
         CloseName, CloseForget, RequestFails
<1> QED BY <1>1, PlacedFrame DEF entityVars

\* Calls parked in a deleted entity are lost; the others stay where they are.
LEMMA PlacedDelete ==
  ASSUME TypeOK, Placed, NEW e \in Entities, DeleteEntity(e)
  PROVE  Placed'
<1> DEFINE gone == ToSet(eCache[e])
<1>1. /\ eCache' = [eCache EXCEPT ![e] = <<>>] /\ lost' = lost \cup gone
      /\ UNCHANGED <<target, sentTo>>
  BY DEF DeleteEntity
<1>2. /\ ToSet(eCache'[e]) = {}
      /\ \A f \in Entities \ {e} : eCache'[f] = eCache[f]
  BY <1>1, ToSetEmpty DEF TypeOK
<1>3. \A m \in Calls : m \in gone => target[m] = e /\ Parked(m)
  BY DEF Placed, ParkedAtTarget, Parked
<1>4. \A m \in Calls : Parked(m)' <=> Parked(m) /\ m \notin gone
  BY <1>2, <1>3 DEF Parked, Placed, ParkedAtTarget
<1>5. Sent' = Sent /\ \A m : SentToHub(m)' <=> SentToHub(m)
  BY <1>1 DEF Sent, SentToHub
<1>6. ParkedAtTarget'
  BY <1>1, <1>2 DEF Placed, ParkedAtTarget
<1>7. ParkedMigrates'
  BY <1>2 DEF Placed, ParkedMigrates, DeleteEntity, TypeOK
<1>8. UnsentNowhere'
  BY <1>1, <1>3, <1>4, <1>5 DEF Placed, UnsentNowhere
<1>9. CallInOnePlace'
  <2> SUFFICES ASSUME NEW m \in Sent
               PROVE  /\ Parked(m)' \/ SentToHub(m) \/ m \in lost'
                      /\ ~(Parked(m)' /\ SentToHub(m))
                      /\ ~(m \in lost' /\ (Parked(m)' \/ SentToHub(m)))
    BY <1>5 DEF CallInOnePlace
  <2>1. m \in Calls
    BY DEF Sent
  <2> QED BY <2>1, <1>1, <1>3, <1>4 DEF Placed, CallInOnePlace
<1> QED BY <1>6, <1>7, <1>8, <1>9 DEF Placed

LEMMA PlacedEntityStep == TypeOK /\ Placed /\ EntityStep => Placed'
<1> SUFFICES ASSUME TypeOK, Placed, NEW e \in Entities,
      \/ \E h \in Hubs :
           \/ \E isMigrate \in BOOLEAN : Ensure(e, h, isMigrate)
           \/ MigrateComplete(e, h)
      \/ DeleteEntity(e) \/ WaitMigrate(e)
    PROVE Placed'
  BY DEF EntityStep
<1>1. ASSUME NEW h \in Hubs, NEW isMigrate \in BOOLEAN, Ensure(e, h, isMigrate)
      PROVE Placed'
  <2>1. eCache[e] = <<>>
    BY <1>1 DEF Ensure, Placed, ParkedMigrates
  <2> QED BY <1>1, <2>1, PlacedFrame DEF Ensure, TypeOK
<1>2. ASSUME NEW h \in Hubs, MigrateComplete(e, h) PROVE Placed'
  BY <1>2, PlacedFrame DEF MigrateComplete, DoCacheMsg, TypeOK, callVars
<1>3. CASE WaitMigrate(e)
  <2>1. \A f \in Entities : eCache[f] # <<>> => eMig'[f] = eMig[f]
    BY <1>3 DEF WaitMigrate, Placed, ParkedMigrates, TypeOK
  <2> QED BY <1>3, <2>1, PlacedFrame DEF WaitMigrate
<1> QED BY <1>1, <1>2, <1>3, PlacedDelete

\* A new call goes to one place.
LEMMA PlacedNew ==
  ASSUME TypeOK, Placed, NEW m \in Calls \ Sent, NEW e \in Entities,
         target' = [target EXCEPT ![m] = e],
         UNCHANGED <<eHub, eMig>>,
         \/ /\ eMig[e] /\ eHub[e] # NoHub
            /\ eCache' = [eCache EXCEPT ![e] = Append(@, m)]
            /\ UNCHANGED <<sentTo, lost>>
         \/ /\ sentTo' = sentTo \cup {<<m, eHub[e]>>} /\ eHub[e] \in Hubs
            /\ UNCHANGED <<eCache, lost>>
         \/ lost' = lost \cup {m} /\ UNCHANGED <<eCache, sentTo>>
  PROVE  Placed'
<1>1. /\ Sent' = Sent \cup {m}
      /\ target'[m] = e /\ \A n \in Calls \ {m} : target'[n] = target[n]
  BY NoEntityAssumption DEF Sent, TypeOK
<1>2. ~Parked(m) /\ ~SentToHub(m) /\ m \notin lost
  BY DEF Placed, UnsentNowhere
<1>3. \A f \in Entities : ToSet(eCache[f]) \subseteq Calls
  BY ToSetCalls DEF TypeOK
<1>4. CASE /\ eMig[e] /\ eHub[e] # NoHub
           /\ eCache' = [eCache EXCEPT ![e] = Append(@, m)]
           /\ UNCHANGED <<sentTo, lost>>
  <2>1. /\ ToSet(eCache'[e]) = ToSet(eCache[e]) \cup {m}
        /\ \A f \in Entities \ {e} : eCache'[f] = eCache[f]
    BY <1>4, ToSetAppend DEF TypeOK
  <2>2. \A n \in Calls : Parked(n)' <=> Parked(n) \/ n = m
    BY <2>1 DEF Parked
  <2>3. \A n : SentToHub(n)' <=> SentToHub(n)
    BY <1>4 DEF SentToHub
  <2>4. ParkedAtTarget'
    BY <1>1, <1>2, <1>3, <2>1 DEF Placed, ParkedAtTarget, Parked
  <2>5. UnsentNowhere'
    BY <1>1, <1>4, <2>2, <2>3 DEF Placed, UnsentNowhere
  <2>6. CallInOnePlace'
    BY <1>1, <1>2, <1>4, <2>2, <2>3 DEF Placed, CallInOnePlace, Sent
  <2>7. ParkedMigrates'
    BY <1>4, <2>1 DEF Placed, ParkedMigrates
  <2> QED BY <2>4, <2>5, <2>6, <2>7 DEF Placed
<1>5. CASE /\ sentTo' = sentTo \cup {<<m, eHub[e]>>} /\ eHub[e] \in Hubs
           /\ UNCHANGED <<eCache, lost>>
  <2>1. \A n \in Calls : (Parked(n)' <=> Parked(n)) /\ (SentToHub(n)' <=> SentToHub(n) \/ n = m)
    BY <1>5 DEF Parked, SentToHub
  <2>2. ParkedAtTarget'
    BY <1>1, <1>2, <1>3, <1>5 DEF Placed, ParkedAtTarget, Parked
  <2>3. UnsentNowhere' /\ CallInOnePlace'
    BY <1>1, <1>2, <1>5, <2>1 DEF Placed, UnsentNowhere, CallInOnePlace, Sent
  <2>4. ParkedMigrates'
    BY <1>5 DEF Placed, ParkedMigrates
  <2> QED BY <2>2, <2>3, <2>4 DEF Placed
<1>6. CASE lost' = lost \cup {m} /\ UNCHANGED <<eCache, sentTo>>
  <2>1. \A n : (Parked(n)' <=> Parked(n)) /\ (SentToHub(n)' <=> SentToHub(n))
    BY <1>6 DEF Parked, SentToHub
  <2>2. ParkedAtTarget'
    BY <1>1, <1>2, <1>3, <1>6 DEF Placed, ParkedAtTarget, Parked
  <2>3. UnsentNowhere' /\ CallInOnePlace' /\ ParkedMigrates'
    BY <1>1, <1>2, <1>6, <2>1
    DEF Placed, UnsentNowhere, CallInOnePlace, Sent, ParkedMigrates
  <2> QED BY <2>2, <2>3 DEF Placed
<1> QED BY <1>4, <1>5, <1>6

LEMMA PlacedCallStep ==
  ASSUME TypeOK, Placed, MigratingHeld, CallStep
  PROVE  Placed'
<1> PICK m \in Calls, e \in Entities : CallHub(m, e) \/ CallNtfOfOther(m, e)
  BY DEF CallStep
<1>1. m \notin Sent /\ target' = [target EXCEPT ![m] = e] /\ UNCHANGED <<eHub, eMig>>
  BY DEF CallHub, CallNtfOfOther
<1>2. CASE Park(m, e) /\ eMig[e]
  BY <1>1, <1>2, PlacedNew DEF Park, MigratingHeld
<1>3. CASE Route(m, e)
  BY <1>1, <1>3, PlacedNew DEF Route
<1>4. CASE lost' = lost \cup {m} /\ UNCHANGED <<hubs, eCache, sentTo>>
  BY <1>1, <1>4, PlacedNew
<1> QED BY <1>2, <1>3, <1>4 DEF CallHub, CallNtfOfOther

-----------------------------------------------------------------------------
(* The tables.                                                             *)

LEMMA HeldStep == TypeOK /\ MigratingHeld /\ Next => MigratingHeld'
<1> SUFFICES ASSUME TypeOK, MigratingHeld, Next PROVE MigratingHeld'
  OBVIOUS
<1>1. CASE LinkStep \/ CallStep
  BY <1>1
  DEF LinkStep, CallStep, Dial, NameDialed, AcceptLink, RegHub, RegName, RegEnter,
      LinkDown, CloseName, CloseForget, RequestFails, CallHub, CallNtfOfOther, entityVars,
      MigratingHeld
<1>2. CASE EntityStep
  BY <1>2, NoHubAssumption
  DEF EntityStep, Ensure, DeleteEntity, WaitMigrate, MigrateComplete, DoCacheMsg,
      MigratingHeld, TypeOK
<1> QED BY <1>1, <1>2 DEF Next

Filed == EnteringOpen /\ FreeUnnamed /\ FiledKept

\* Steps that register no link and close none
LEMMA FiledFrame ==
  ASSUME Filed, UNCHANGED linkVars,
         \A h \in Hubs : hubs'[h] = hubs[h] \/ hubs'[h] = NoLink
  PROVE  Filed'
BY NoLinkAssumption DEF linkVars, Filed, EnteringOpen, FreeUnnamed, FiledKept, Kept

\* What a registration does to the table, at each of its steps
LEMMA FiledRegistration ==
  ASSUME TypeOK, Filed,
         \/ \E l \in Links, h \in Hubs : Dial(l, h) \/ RegHub(l, h)
         \/ NameDialed \/ RegName \/ RegEnter
  PROVE  Filed'
<1>1. ASSUME NEW l \in Links, NEW h \in Hubs, Dial(l, h) PROVE Filed'
  <2>1. entering = Idle /\ owner[l] = NoHub
    BY <1>1 DEF Dial, MainFree, Filed, FreeUnnamed
  <2>2. EnteringOpen' /\ FreeUnnamed'
    BY <1>1, <2>1 DEF Dial, Filed, EnteringOpen, FreeUnnamed, TypeOK
  <2>3. ASSUME NEW g \in Hubs, NEW k \in Links, hubs'[g] = k, k \notin overtaken'
        PROVE  Kept(g, k)'
    <3>1. CASE g = h
      BY <1>1, <2>3, <3>1 DEF Dial, Kept, TypeOK
    <3>2. CASE g # h
      <4>1. hubs[g] = k /\ k \notin overtaken /\ Kept(g, k)
        BY <1>1, <2>3, <3>2 DEF Dial, Filed, FiledKept, TypeOK
      <4>2. k # l /\ owner[k] = g
        BY <1>1, <2>1, <4>1 DEF Dial, Kept, Idle
      <4> QED BY <1>1, <4>1, <4>2 DEF Dial, Kept, TypeOK
    <3> QED BY <3>1, <3>2
  <2> QED BY <2>2, <2>3 DEF Filed, FiledKept
<1>2. ASSUME NEW l \in Links, NEW h \in Hubs, RegHub(l, h) PROVE Filed'
  <2>1. entering = Idle
    BY <1>2 DEF RegHub, MainFree
  <2>2. EnteringOpen' /\ FreeUnnamed'
    BY <1>2 DEF RegHub, Filed, EnteringOpen, FreeUnnamed
  <2>3. FiledKept'
    BY <1>2, <2>1 DEF RegHub, Filed, FiledKept, Kept, Idle
  <2> QED BY <2>2, <2>3 DEF Filed
<1>3. CASE NameDialed \/ RegName
  <2> DEFINE l == entering.link
  <2>1. /\ entering # Idle /\ l \in Links /\ entering.hub \in Hubs /\ tcp[l] # "free"
        /\ owner[l] = NoHub
    BY <1>3 DEF NameDialed, RegName, Filed, EnteringOpen, Idle
  <2>2. EnteringOpen' /\ FreeUnnamed'
    BY <1>3, <2>1
    DEF NameDialed, RegName, Name, Filed, EnteringOpen, FreeUnnamed, TypeOK, Registration
  <2>3. ASSUME NEW g \in Hubs, NEW k \in Links, hubs'[g] = k, k \notin overtaken'
        PROVE  Kept(g, k)'
    <3>1. Kept(g, k) /\ UNCHANGED <<tcp, read>>
      BY <1>3, <2>3 DEF NameDialed, RegName, Filed, FiledKept
    <3>2. owner'[k] = g
      <4>1. CASE k = l
        <5>1. entering.at = "dial" /\ entering.hub = g
          BY <2>1, <3>1, <4>1, NoHubAssumption DEF Kept
        <5> QED BY <1>3, <2>1, <4>1, <5>1 DEF NameDialed, RegName, Name, TypeOK
      <4>2. CASE k # l
        BY <1>3, <2>1, <3>1, <4>2 DEF NameDialed, RegName, Name, Kept, TypeOK
      <4> QED BY <4>1, <4>2
    <3> QED BY <3>1, <3>2 DEF Kept
  <2> QED BY <2>2, <2>3 DEF Filed, FiledKept
<1>4. CASE RegEnter
  <2> DEFINE l == entering.link
  <2>1. /\ l \in Links /\ entering.hub \in Hubs /\ tcp[l] # "free"
        /\ owner[l] = entering.hub
    BY <1>4 DEF RegEnter, Filed, EnteringOpen, Idle
  <2>2. EnteringOpen' /\ FreeUnnamed'
    BY <1>4 DEF RegEnter, Filed, EnteringOpen, FreeUnnamed
  <2>3. ASSUME NEW g \in Hubs, NEW k \in Links, hubs'[g] = k, k \notin overtaken'
        PROVE  Kept(g, k)'
    <3>1. CASE g = entering.hub
      BY <1>4, <2>1, <2>3, <3>1 DEF RegEnter, Kept, TypeOK
    <3>2. CASE g # entering.hub
      <4>1. hubs[g] = k /\ k \notin overtaken /\ Kept(g, k)
        BY <1>4, <2>3, <3>2 DEF RegEnter, Filed, FiledKept, TypeOK
      <4> QED BY <1>4, <4>1 DEF RegEnter, Kept
    <3> QED BY <3>1, <3>2
  <2> QED BY <2>2, <2>3 DEF Filed, FiledKept
<1> QED BY <1>1, <1>2, <1>3, <1>4

\* A close callback that read the name of a filed link forgets that link.
LEMMA FiledClose ==
  ASSUME TypeOK, Filed, NEW l \in Links, CloseName(l) \/ CloseForget(l)
  PROVE  Filed'
<1>1. EnteringOpen' /\ FreeUnnamed'
  BY DEF CloseName, CloseForget, Filed, EnteringOpen, FreeUnnamed, TypeOK
<1>2. ASSUME NEW h \in Hubs, NEW k \in Links, hubs'[h] = k, k \notin overtaken'
      PROVE  Kept(h, k)'
  <2>1. hubs[h] = k /\ k \notin overtaken /\ Kept(h, k)
    BY <1>2, NoLinkAssumption
    DEF CloseName, CloseForget, Forget, Filed, FiledKept, TypeOK
  <2>2. CASE CloseName(l)
    <3>1. k = l => owner[l] = h
      BY <1>2, <2>1, <2>2 DEF CloseName, Kept
    <3> QED BY <2>1, <2>2, <3>1 DEF CloseName, Kept, TypeOK
  <2>3. CASE CloseForget(l)
    <3>1. k # l
      BY <1>2, <2>1, <2>3, NoLinkAssumption DEF CloseForget, Forget, Kept, TypeOK
    <3> QED BY <2>1, <2>3, <3>1 DEF CloseForget, Kept, TypeOK
  <2> QED BY <2>2, <2>3
<1> QED BY <1>1, <1>2 DEF Filed, FiledKept

LEMMA FiledStep == TypeOK /\ Filed /\ Next => Filed'
<1> SUFFICES ASSUME TypeOK, Filed, Next PROVE Filed'
  OBVIOUS
<1>1. ASSUME NEW l \in Links, AcceptLink(l) \/ LinkDown(l) PROVE Filed'
  BY <1>1 DEF AcceptLink, LinkDown, Filed, EnteringOpen, FreeUnnamed, FiledKept, Kept, TypeOK
<1>2. ASSUME NEW h \in Hubs, RequestFails(h) PROVE Filed'
  BY <1>2, FiledFrame DEF RequestFails, TypeOK
<1>3. CASE EntityStep
  BY <1>3, FiledFrame
  DEF EntityStep, Ensure, DeleteEntity, WaitMigrate, MigrateComplete
<1>4. CASE CallStep
  <2>1. UNCHANGED linkVars /\ \A h \in Hubs : hubs'[h] = hubs[h] \/ hubs'[h] = NoLink
    BY <1>4 DEF CallStep, CallHub, CallNtfOfOther, Park, Route, TypeOK
  <2> QED BY <2>1, FiledFrame
<1> QED BY <1>1, <1>2, <1>3, <1>4, FiledRegistration, FiledClose DEF Next, LinkStep

-----------------------------------------------------------------------------
LEMMA InvInit == Init => IInv
BY TypeInit, ToSetEmpty, NoLinkAssumption
DEF Init, IInv, EnteringOpen, FreeUnnamed, FiledKept, MigratingHeld, ParkedAtTarget,
    UnsentNowhere, CallInOnePlace, ParkedMigrates, Parked, SentToHub, Sent

LEMMA InvStep == IInv /\ [Next]_vars => IInv'
<1> SUFFICES ASSUME IInv, [Next]_vars PROVE IInv'
  OBVIOUS
<1>1. CASE UNCHANGED vars
  <2>1. TypeOK' /\ MigratingHeld'
    BY <1>1 DEF vars, linkVars, entityVars, callVars, IInv, TypeOK, MigratingHeld
  <2>2. Placed'
    BY <1>1, PlacedFrame DEF IInv, Placed, vars, entityVars
  <2>3. Filed'
    BY <1>1, FiledFrame DEF IInv, Filed, vars
  <2> QED BY <2>1, <2>2, <2>3 DEF IInv, Placed, Filed
<1>2. CASE Next
  <2>1. TypeOK'
    BY <1>2, TypeLinkStep, TypeEntityStep, TypeCallStep DEF Next, IInv
  <2>2. Placed'
    BY <1>2, PlacedLinkStep, PlacedEntityStep, PlacedCallStep DEF Next, IInv, Placed
  <2>3. Filed' /\ MigratingHeld'
    BY <1>2, HeldStep, FiledStep DEF IInv, Filed
  <2> QED BY <2>1, <2>2, <2>3 DEF IInv, Placed, Filed
<1> QED BY <1>1, <1>2

THEOREM InvCorrect == Spec => []IInv
BY InvInit, InvStep, PTL DEF Spec

\* Every variable keeps the shape of its Rust field.
THEOREM TypeCorrect == Spec => []TypeOK
BY InvCorrect, PTL DEF IInv

\* Every call made is parked, sent or lost, and only one of the three, for
\* any number of hubs, links, entities and calls.
THEOREM PlaceCorrect == Spec => []CallInOnePlace
BY InvCorrect, PTL DEF IInv

\* Calls wait only in an entity that the gate holds and that migrates.
THEOREM ParkedCorrect == Spec => []ParkedMigrates
BY InvCorrect, PTL DEF IInv

\* A closed link stays in the hub table only when its close callback ran in
\* the middle of its registration.
THEOREM ForgottenCorrect == Spec => []ClosedLinkForgotten
<1>1. IInv => ClosedLinkForgotten
  BY DEF IInv, FiledKept, Kept, ClosedLinkForgotten
<1> QED BY <1>1, InvCorrect, PTL
=============================================================================
