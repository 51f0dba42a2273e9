----------------------------- MODULE PlayerProofs -----------------------------
(***************************************************************************)
(* Theorems about the player manager. The invariant Inv is inductive: the  *)
(* objects filed under a connection are registered ones on that connection *)
(* (FiledIsLive), which needs that a registered object knows its entity    *)
(* and its connection (RegisteredIsBuilt). With it every step of the       *)
(* player manager is a step of PlayerSessions or changes nothing there.    *)
(***************************************************************************)
EXTENDS PlayerManager, PlayerThreads, FiniteSetTheorems, SequenceTheorems, TLAPS

Inv == FieldTypes /\ RegisteredIsBuilt /\ FiledIsLive

-----------------------------------------------------------------------------
LEMMA InitInv == Init => Inv
<1> SUFFICES ASSUME Init PROVE Inv
  OBVIOUS
<1> USE DEF Init
<1>1. FieldTypes
  BY DEF FieldTypes
<1>2. RegisteredIsBuilt
  BY DEF RegisteredIsBuilt
<1>3. FiledIsLive
  BY DEF FiledIsLive
<1> QED BY <1>1, <1>2, <1>3 DEF Inv

\* The constructor of a player keeps the tables together.
LEMMA NewPlayerInv ==
  ASSUME Inv, NEW p \in Players, NEW e \in Entities, NEW c \in Conns, NewPlayer(p, e, c)
  PROVE  Inv'
<1> USE NullAssumption DEF Inv
<1>0. Detach(e) \in [Conns -> SUBSET Players]
  BY DEF FieldTypes, Detach
<1>1. FieldTypes'
  BY <1>0 DEF FieldTypes, NewPlayer
<1>2. \A x \in Entities : players[x] # p
  BY DEF RegisteredIsBuilt, NewPlayer, FieldTypes
<1>3. RegisteredIsBuilt'
  BY <1>2 DEF RegisteredIsBuilt, NewPlayer, FieldTypes
<1>4. ASSUME NEW d \in Conns, NEW q \in onConn'[d]
      PROVE  clientConn'[q] = d /\ Registered(q)'
  <2>1. CASE q = p
    <3>1. \A x \in Conns : p \notin onConn[x]
      BY DEF FiledIsLive, Registered, NewPlayer
    <3>2. d = c
      BY <3>1, <1>0, <2>1, <1>4 DEF NewPlayer, Detach
    <3> QED BY <2>1, <3>2 DEF NewPlayer, Registered, FieldTypes
  <2>2. CASE q # p
    <3>1. q \in Detach(e)[d]
      BY <2>2, <1>0 DEF NewPlayer
    <3>2. q \in onConn[d] /\ ~(players[e] = q /\ clientConn[q] = d)
      BY <3>1, <2>2 DEF Detach, FieldTypes
    <3>3. clientConn[q] = d /\ Registered(q) /\ q \in Players
      BY <3>2 DEF FiledIsLive, FieldTypes
    <3>4. entityId[q] # e
      BY <3>2, <3>3 DEF Registered
    <3> QED BY <2>2, <3>3, <3>4 DEF NewPlayer, Registered, FieldTypes
  <2> QED BY <2>1, <2>2
<1> QED BY <1>1, <1>3, <1>4 DEF FiledIsLive

\* Adding an object again keeps the tables together: whatever served the
\* entity by now is taken off its connection.
LEMMA AddAgainInv ==
  ASSUME Inv, NEW p \in Players, AddAgain(p)
  PROVE  Inv'
<1> DEFINE e == entityId[p]
           c == clientConn[p]
<1> USE NullAssumption DEF Inv
<1>1. e \in Entities /\ c \in Conns
  BY DEF AddAgain, FieldTypes, RegisteredIsBuilt
<1>2. Detach(e) \in [Conns -> SUBSET Players]
  BY DEF FieldTypes, Detach
<1>3. /\ players' = [players EXCEPT ![e] = p]
      /\ onConn' = [Detach(e) EXCEPT ![c] = @ \cup {p}]
      /\ UNCHANGED <<entityId, clientConn>>
  BY DEF AddAgain
<1>4. FieldTypes'
  BY <1>1, <1>2, <1>3 DEF FieldTypes
<1>5. RegisteredIsBuilt'
  BY <1>1, <1>3 DEF RegisteredIsBuilt, FieldTypes
<1>6. ASSUME NEW d \in Conns, NEW q \in onConn'[d]
      PROVE  clientConn'[q] = d /\ Registered(q)'
  <2>1. CASE q = p
    <3>1. d = c
      BY <2>1, <1>1, <1>2, <1>3, <1>6 DEF Detach, FiledIsLive
    <3> QED BY <2>1, <3>1, <1>1, <1>3 DEF Registered, FieldTypes
  <2>2. CASE q # p
    <3>1. q \in Detach(e)[d]
      BY <2>2, <1>1, <1>2, <1>3, <1>6
    <3>2. q \in onConn[d] /\ ~(players[e] = q /\ clientConn[q] = d)
      BY <3>1 DEF Detach, FieldTypes
    <3>3. clientConn[q] = d /\ Registered(q) /\ q \in Players
      BY <3>2 DEF FiledIsLive, FieldTypes
    <3>4. entityId[q] # e
      BY <3>2, <3>3 DEF Registered
    <3> QED BY <1>1, <1>3, <3>3, <3>4 DEF Registered, FieldTypes
  <2> QED BY <2>1, <2>2
<1> QED BY <1>4, <1>5, <1>6 DEF FiledIsLive

\* A transfer moves the whole list of a connection and files it anew.
LEMMA UpdateConnInv ==
  ASSUME Inv, NEW e \in Entities, NEW c \in Conns, UpdateConn(e, c)
  PROVE  Inv'
<1> DEFINE old   == clientConn[players[e]]
           moved == onConn[old] \cup {players[e]}
<1> USE NullAssumption DEF Inv
<1>1. /\ players[e] \in Players
      /\ players[e] # NoPlayer
      /\ old \in Conns
  BY DEF UpdateConn, FieldTypes, RegisteredIsBuilt
<1>2. moved \in SUBSET Players
  BY <1>1 DEF FieldTypes
<1>3. /\ clientConn' = [q \in Players |-> IF q \in moved THEN c ELSE clientConn[q]]
      /\ onConn' = [x \in Conns |-> IF x = c THEN moved ELSE IF x = old THEN {} ELSE onConn[x]]
      /\ UNCHANGED <<players, entityId>>
  BY DEF UpdateConn, Refile
<1>4. FieldTypes'
  BY <1>2, <1>3 DEF FieldTypes
<1>5. RegisteredIsBuilt'
  BY <1>3 DEF RegisteredIsBuilt, FieldTypes
<1>6. \A q \in moved : Registered(q)
  BY <1>1 DEF FiledIsLive, RegisteredIsBuilt, Registered
<1>7. ASSUME NEW d \in Conns, NEW q \in onConn'[d]
      PROVE  clientConn'[q] = d /\ Registered(q)'
  <2>1. CASE d = c
    BY <2>1, <1>2, <1>3, <1>6, <1>7 DEF Registered
  <2>2. CASE d # c
    <3>1. d # old /\ q \in onConn[d]
      BY <2>2, <1>3, <1>7
    <3>2. clientConn[q] = d /\ Registered(q) /\ q \in Players
      BY <3>1 DEF FiledIsLive, FieldTypes
    <3>3. q \notin moved
      BY <1>1, <3>1, <3>2 DEF FiledIsLive
    <3> QED BY <3>2, <3>3, <1>3 DEF Registered
  <2> QED BY <2>1, <2>2
<1> QED BY <1>4, <1>5, <1>7 DEF FiledIsLive

\* A disconnect ends what is filed under its connection and nothing else.
LEMMA PlayerOfflineInv ==
  ASSUME Inv, NEW c \in Conns, PlayerOffline(c)
  PROVE  Inv'
<1> USE NullAssumption DEF Inv
<1>1. FieldTypes'
  BY DEF FieldTypes, PlayerOffline
<1>2. RegisteredIsBuilt'
  BY DEF RegisteredIsBuilt, PlayerOffline, FieldTypes
<1>3. ASSUME NEW d \in Conns, NEW q \in onConn'[d]
      PROVE  clientConn'[q] = d /\ Registered(q)'
  <2>1. d # c /\ q \in onConn[d]
    BY <1>3 DEF PlayerOffline, FieldTypes
  <2>2. clientConn[q] = d /\ Registered(q) /\ q \in Players
    BY <2>1 DEF FiledIsLive, FieldTypes
  <2>3. q \notin Ending(c) /\ entityId[q] \in Entities
    BY <2>1, <2>2 DEF Ending, Registered, FieldTypes
  <2>4. players'[entityId[q]] = q
    BY <2>2, <2>3 DEF PlayerOffline, Registered
  <2> QED BY <2>2, <2>4 DEF PlayerOffline, Registered
<1> QED BY <1>1, <1>2, <1>3 DEF FiledIsLive

LEMMA StutterInv ==
  ASSUME Inv, UNCHANGED vars
  PROVE  Inv'
BY DEF Inv, FieldTypes, RegisteredIsBuilt, FiledIsLive, Registered, vars

LEMMA StepInv ==
  ASSUME Inv, [Next]_vars
  PROVE  Inv'
<1>1. CASE \E p \in Players, e \in Entities, c \in Conns : NewPlayer(p, e, c)
  BY <1>1, NewPlayerInv
<1>5. CASE \E p \in Players : AddAgain(p)
  BY <1>5, AddAgainInv
<1>2. CASE \E e \in Entities, c \in Conns : UpdateConn(e, c)
  BY <1>2, UpdateConnInv
<1>3. CASE \E c \in Conns : PlayerOffline(c)
  BY <1>3, PlayerOfflineInv
<1>4. CASE UNCHANGED vars
  BY <1>4, StutterInv
<1> QED BY <1>1, <1>2, <1>3, <1>4, <1>5 DEF Next

\* Inv holds in every reachable state, for any number of objects, entities and
\* connections.
THEOREM InvCorrect == Spec => []Inv
<1>1. Inv /\ [Next]_vars => Inv'
  BY StepInv
<1> QED BY InitInv, <1>1, PTL DEF Spec

\* The fields of the player manager keep their types, and a registered object
\* knows its entity and its connection.
THEOREM TypeCorrect == Spec => []TypeOK
<1>1. Inv => TypeOK
  BY DEF Inv, TypeOK
<1> QED BY <1>1, InvCorrect, PTL

\* conn_id_players never holds an object that was replaced or moved away.
THEOREM FiledCorrect == Spec => []FiledIsLive
<1>1. Inv => FiledIsLive
  BY DEF Inv
<1> QED BY <1>1, InvCorrect, PTL

-----------------------------------------------------------------------------
\* The refinement. Session is the abstract session function; what follows states
\* the effect of each operation on it and on the orphans.
Session == [e \in Entities |-> SessionOf(e)]

\* A registered object is filed under its connection or its entity is an orphan.
LEMMA FollowingFiled ==
  ASSUME Inv, NEW c \in Conns
  PROVE  Sessions!Following(c) = {e \in Entities : players[e] \in onConn[c]}
<1> USE NullAssumption
<1>1. ASSUME NEW e \in Entities, e \notin Orphans, Session[e] = c
      PROVE  players[e] \in onConn[c]
  BY <1>1 DEF Session, SessionOf, Orphans
<1>2. ASSUME NEW e \in Entities, players[e] \in onConn[c]
      PROVE  e \notin Orphans /\ Session[e] = c
  <2>1. players[e] \in Players /\ players[e] # NoPlayer /\ clientConn[players[e]] = c
    BY <1>2 DEF Inv, FieldTypes, FiledIsLive
  <2> QED BY <2>1, <1>2 DEF Session, SessionOf, Orphans
<1> QED BY <1>1, <1>2 DEF Sessions!Following, Session

LEMMA InitSessions == Init => Sessions!Init
BY DEF Init, Sessions!Init, SessionOf, Orphans

LEMMA LoginRefines ==
  ASSUME Inv, NEW p \in Players, NEW e \in Entities, NEW c \in Conns, NewPlayer(p, e, c)
  PROVE  Sessions!Login(e, c)
<1> USE NullAssumption DEF Inv
<1>0. Detach(e) \in [Conns -> SUBSET Players]
  BY DEF FieldTypes, Detach
<1>1. \A x \in Entities : players[x] # p
  BY DEF RegisteredIsBuilt, NewPlayer, FieldTypes
<1>2. /\ players' = [players EXCEPT ![e] = p]
      /\ clientConn' = [clientConn EXCEPT ![p] = c]
      /\ onConn' = [Detach(e) EXCEPT ![c] = @ \cup {p}]
  BY DEF NewPlayer
<1>3. SessionOf(e)' = c
  BY <1>2 DEF SessionOf, FieldTypes
<1>4. \A x \in Entities \ {e} : SessionOf(x)' = SessionOf(x)
  BY <1>1, <1>2 DEF SessionOf, FieldTypes
<1>5. e \notin Orphans'
  BY <1>0, <1>2, <1>3 DEF Orphans, FieldTypes
<1>6. ASSUME NEW x \in Entities \ {e}
      PROVE  x \in Orphans' <=> x \in Orphans
  <2>1. players'[x] = players[x]
    BY <1>2 DEF FieldTypes
  <2>2. CASE players[x] = NoPlayer
    BY <2>1, <2>2 DEF Orphans
  <2>3. CASE players[x] # NoPlayer
    <3>1. players[x] \in Players /\ SessionOf(x) \in Conns
      BY <2>3 DEF SessionOf, FieldTypes, RegisteredIsBuilt
    <3>2. players[x] # players[e]
      BY <2>3 DEF RegisteredIsBuilt
    <3>3. players[x] \in Detach(e)[SessionOf(x)] <=> players[x] \in onConn[SessionOf(x)]
      BY <3>1, <3>2 DEF Detach
    <3>4. players[x] \in onConn'[SessionOf(x)] <=> players[x] \in Detach(e)[SessionOf(x)]
      BY <3>1, <1>0, <1>1, <1>2
    <3> QED BY <2>1, <2>3, <3>3, <3>4, <1>4 DEF Orphans
  <2> QED BY <2>2, <2>3
<1>7. Session' = [Session EXCEPT ![e] = c]
  BY <1>3, <1>4 DEF Session
<1>8. Orphans' = Orphans \ {e}
  BY <1>5, <1>6 DEF Orphans
<1> QED BY <1>7, <1>8 DEF Sessions!Login, Session

LEMMA LoginAgainRefines ==
  ASSUME Inv, NEW p \in Players, AddAgain(p)
  PROVE  \E e \in Entities, c \in Conns : Sessions!Login(e, c)
<1> USE NullAssumption DEF Inv
<1>0. PICK e \in Entities, c \in Conns : e = entityId[p] /\ c = clientConn[p]
  BY DEF AddAgain, FieldTypes, RegisteredIsBuilt
<1>1. Detach(e) \in [Conns -> SUBSET Players]
  BY DEF FieldTypes, Detach
<1>2. /\ players' = [players EXCEPT ![e] = p]
      /\ clientConn' = clientConn
      /\ onConn' = [Detach(e) EXCEPT ![c] = @ \cup {p}]
  BY <1>0 DEF AddAgain
<1>3. SessionOf(e)' = c
  BY <1>0, <1>2 DEF SessionOf, FieldTypes
<1>4. \A x \in Entities \ {e} : SessionOf(x)' = SessionOf(x)
  BY <1>0, <1>2 DEF SessionOf, FieldTypes
<1>5. e \notin Orphans'
  BY <1>0, <1>1, <1>2, <1>3 DEF Orphans, FieldTypes
<1>6. ASSUME NEW x \in Entities \ {e}
      PROVE  x \in Orphans' <=> x \in Orphans
  <2>1. players'[x] = players[x]
    BY <1>2 DEF FieldTypes
  <2>2. CASE players[x] = NoPlayer
    BY <2>1, <2>2 DEF Orphans
  <2>3. CASE players[x] # NoPlayer
    <3>1. players[x] \in Players /\ SessionOf(x) \in Conns
      BY <2>3 DEF SessionOf, FieldTypes, RegisteredIsBuilt
    <3>2. players[x] # players[e] /\ players[x] # p
      BY <2>3, <1>0 DEF RegisteredIsBuilt
    <3>3. players[x] \in Detach(e)[SessionOf(x)] <=> players[x] \in onConn[SessionOf(x)]
      BY <3>1, <3>2 DEF Detach
    <3>4. players[x] \in onConn'[SessionOf(x)] <=> players[x] \in Detach(e)[SessionOf(x)]
      BY <3>1, <3>2, <1>1, <1>2
    <3> QED BY <2>1, <2>3, <3>3, <3>4, <1>4 DEF Orphans
  <2> QED BY <2>2, <2>3
<1>7. Session' = [Session EXCEPT ![e] = c]
  BY <1>3, <1>4 DEF Session
<1>8. Orphans' = Orphans \ {e}
  BY <1>5, <1>6 DEF Orphans
<1>9. Sessions!Login(e, c)
  BY <1>7, <1>8 DEF Sessions!Login, Session
<1> QED BY <1>9

LEMMA TransferRefines ==
  ASSUME Inv, NEW e \in Entities, NEW c \in Conns, UpdateConn(e, c)
  PROVE  Sessions!Transfer(e, c)
<1> DEFINE old   == clientConn[players[e]]
           moved == onConn[old] \cup {players[e]}
           goes  == {x \in Entities : players[x] \in moved}
<1> USE NullAssumption DEF Inv
<1>1. /\ players[e] \in Players
      /\ players[e] # NoPlayer
      /\ old \in Conns
      /\ SessionOf(e) = old
  BY DEF UpdateConn, FieldTypes, RegisteredIsBuilt, SessionOf
<1>2. /\ clientConn' = [q \in Players |-> IF q \in moved THEN c ELSE clientConn[q]]
      /\ onConn' = [x \in Conns |-> IF x = c THEN moved ELSE IF x = old THEN {} ELSE onConn[x]]
      /\ players' = players
  BY DEF UpdateConn, Refile
<1>3. moved \in SUBSET Players
  BY <1>1 DEF FieldTypes
<1>4. goes = Sessions!Following(old) \cup {e}
  <2>1. \A x \in Entities : players[x] = players[e] => x = e
    BY <1>1 DEF RegisteredIsBuilt
  <2> QED BY <2>1, <1>1, FollowingFiled
<1>5. ASSUME NEW x \in Entities
      PROVE  SessionOf(x)' = IF x \in goes THEN c ELSE SessionOf(x)
  <2>1. CASE players[x] = NoPlayer
    BY <2>1, <1>2, <1>3 DEF SessionOf
  <2>2. CASE players[x] # NoPlayer
    BY <2>2, <1>2 DEF SessionOf, FieldTypes
  <2> QED BY <2>1, <2>2
<1>6. ASSUME NEW x \in Entities
      PROVE  x \in Orphans' <=>
               /\ x # e
               /\ x \in Orphans \/ (old # c /\ x \in Sessions!Following(c))
  <2>1. CASE players[x] = NoPlayer
    <3>1. x \notin Sessions!Following(c)
      BY <2>1, FollowingFiled DEF FieldTypes
    <3> QED BY <2>1, <3>1, <1>2 DEF Orphans
  <2>2. CASE players[x] # NoPlayer /\ x \in goes
    <3>1. SessionOf(x)' = c /\ onConn'[c] = moved
      BY <2>2, <1>2, <1>5
    <3>2. x \notin Orphans'
      BY <2>2, <3>1, <1>2 DEF Orphans
    <3>3. CASE x = e
      BY <3>2, <3>3
    <3>4. CASE x # e
      <4>1. players[x] \in onConn[old] /\ x \in Sessions!Following(old)
        BY <2>2, <3>4, <1>4, <1>1, FollowingFiled
      <4>2. clientConn[players[x]] = old
        BY <4>1, <1>1 DEF FiledIsLive
      <4>3. x \notin Orphans
        BY <4>1, <4>2, <2>2 DEF Orphans, SessionOf
      <4>4. old # c => players[x] \notin onConn[c]
        BY <4>2 DEF FiledIsLive
      <4> QED BY <3>2, <4>3, <4>4, FollowingFiled
    <3> QED BY <3>3, <3>4
  <2>3. CASE players[x] # NoPlayer /\ x \notin goes
    <3>1. /\ SessionOf(x)' = SessionOf(x)
          /\ SessionOf(x) = clientConn[players[x]]
          /\ SessionOf(x) \in Conns
          /\ players[x] \notin moved
          /\ x # e
      BY <2>3, <1>5 DEF SessionOf, FieldTypes, RegisteredIsBuilt
    <3>2. x \in Orphans' <=> players[x] \notin onConn'[SessionOf(x)]
      BY <2>3, <3>1, <1>2 DEF Orphans
    <3>3. x \in Orphans <=> players[x] \notin onConn[SessionOf(x)]
      BY <2>3 DEF Orphans
    <3>4. x \in Sessions!Following(c) <=> players[x] \in onConn[c]
      BY FollowingFiled
    <3>5. players[x] \in onConn[c] => SessionOf(x) = c
      BY <3>1 DEF FiledIsLive
    <3>6. CASE SessionOf(x) = c
      BY <3>1, <3>2, <3>3, <3>4, <3>6, <1>2
    <3>7. CASE SessionOf(x) # c /\ SessionOf(x) = old
      BY <3>1, <3>2, <3>3, <3>4, <3>5, <3>7, <1>2
    <3>8. CASE SessionOf(x) # c /\ SessionOf(x) # old
      BY <3>1, <3>2, <3>3, <3>4, <3>5, <3>8, <1>2
    <3> QED BY <3>6, <3>7, <3>8
  <2> QED BY <2>1, <2>2, <2>3
<1>7. Session' = [x \in Entities |-> IF x \in goes THEN c ELSE Session[x]]
  BY <1>5 DEF Session
<1>8. Orphans' = (Orphans \cup IF old = c THEN {} ELSE Sessions!Following(c)) \ {e}
  <2>1. Orphans' \subseteq Entities /\ Orphans \subseteq Entities
    BY DEF Orphans
  <2>2. Sessions!Following(c) \subseteq Entities
    BY FollowingFiled
  <2> QED BY <1>6, <2>1, <2>2
<1>9. Session[e] = old /\ old # NoConn
  BY <1>1 DEF Session
<1> QED BY <1>4, <1>7, <1>8, <1>9 DEF Sessions!Transfer, Session

LEMMA DisconnectRefines ==
  ASSUME Inv, NEW c \in Conns, PlayerOffline(c)
  PROVE  Sessions!Disconnect(c)
<1> USE NullAssumption DEF Inv
<1>1. /\ players' = [x \in Entities |-> IF players[x] \in Ending(c) THEN NoPlayer
                                         ELSE players[x]]
      /\ onConn' = [onConn EXCEPT ![c] = {}]
      /\ clientConn' = clientConn
  BY DEF PlayerOffline
<1>2. Ending(c) = onConn[c]
  BY DEF Ending, FiledIsLive
<1>3. \A x \in Entities : SessionOf(x)' = IF players[x] \in onConn[c] THEN NoConn
                                          ELSE SessionOf(x)
  BY <1>1, <1>2 DEF SessionOf
<1>4. ASSUME NEW x \in Entities
      PROVE  x \in Orphans' <=> x \in Orphans
  <2>1. CASE players[x] \in onConn[c]
    <3>1. players'[x] = NoPlayer
      BY <2>1, <1>1, <1>2
    <3>2. SessionOf(x) = c \/ players[x] = NoPlayer
      BY <2>1 DEF FiledIsLive, SessionOf
    <3> QED BY <2>1, <3>1, <3>2 DEF Orphans
  <2>2. CASE players[x] \notin onConn[c]
    <3>1. players'[x] = players[x] /\ SessionOf(x)' = SessionOf(x)
      BY <2>2, <1>1, <1>2, <1>3
    <3>2. CASE players[x] = NoPlayer
      BY <3>1, <3>2 DEF Orphans
    <3>3. CASE players[x] # NoPlayer
      <4>1. SessionOf(x) \in Conns
        BY <3>3 DEF SessionOf, FieldTypes, RegisteredIsBuilt
      <4>2. players[x] \in onConn'[SessionOf(x)] <=> players[x] \in onConn[SessionOf(x)]
        BY <4>1, <2>2, <1>1 DEF FieldTypes
      <4> QED BY <3>1, <3>3, <4>2 DEF Orphans
    <3> QED BY <3>2, <3>3
  <2> QED BY <2>1, <2>2
<1>5. Orphans' = Orphans
  BY <1>4 DEF Orphans
<1>6. Session' = [x \in Entities |-> IF x \in Sessions!Following(c) THEN NoConn
                                     ELSE Session[x]]
  BY <1>3, FollowingFiled DEF Session
<1> QED BY <1>5, <1>6 DEF Sessions!Disconnect, Session

LEMMA StepSessions ==
  ASSUME Inv, [Next]_vars
  PROVE  [Sessions!Next]_(Sessions!vars)
<1>1. CASE \E p \in Players, e \in Entities, c \in Conns : NewPlayer(p, e, c)
  BY <1>1, LoginRefines DEF Sessions!Next
<1>5. CASE \E p \in Players : AddAgain(p)
  BY <1>5, LoginAgainRefines DEF Sessions!Next
<1>2. CASE \E e \in Entities, c \in Conns : UpdateConn(e, c)
  BY <1>2, TransferRefines DEF Sessions!Next
<1>3. CASE \E c \in Conns : PlayerOffline(c)
  BY <1>3, DisconnectRefines DEF Sessions!Next
<1>4. CASE UNCHANGED vars
  BY <1>4 DEF vars, Sessions!vars, SessionOf, Orphans
<1> QED BY <1>1, <1>2, <1>3, <1>4, <1>5 DEF Next

\* The player manager implements PlayerSessions: whatever the gates and the
\* login coroutines send, in whatever order, an entity has one session, sessions
\* on one connection move together, and a disconnect ends those that follow its
\* connection and no other.
THEOREM SessionsCorrect == Spec => KeepsSessions
<1>1. Inv /\ [Next]_vars => [Sessions!Next]_(Sessions!vars)
  BY StepSessions
<1> QED BY InitSessions, InvCorrect, <1>1, PTL DEF Spec, KeepsSessions, Sessions!Spec

-----------------------------------------------------------------------------
(***************************************************************************)
(* The two threads. What holds however their calls overlap (Kinds): what   *)
(* the tables, lists and threads refer to are constructed objects, and     *)
(* lists have nobody twice. What holds while calls that overlap have no    *)
(* connection in common (Calm): each thread finds the lists of its         *)
(* connections as it left them.                                            *)
(***************************************************************************)

Main == [at : {"idle", "find", "join", "take", "move", "file", "next", "delete"},
         player : Players \cup {NoPlayer}, conn : Conns \cup {NoConn},
         old : Conns \cup {NoConn}, list : Lists \cup {NoList}, i : Nat,
         rest : Seq(Players)]
Loop == [at : {"idle", "look", "detach", "count", "register"},
         player : Players \cup {NoPlayer}, old : Players \cup {NoPlayer},
         list : Lists \cup {NoList}, empty : BOOLEAN, made : Players \cup {NoPlayer}]

Built(p) == p \in Players /\ entityId[p] # NoEntity
BuiltOrNo(p) == p = NoPlayer \/ Built(p)

TypesOK ==
  /\ players \in [Entities -> Players \cup {NoPlayer}]
  /\ entityId \in [Players -> Entities \cup {NoEntity}]
  /\ clientConn \in [Players -> Conns \cup {NoConn}]
  /\ filed \in [Conns -> Lists \cup {NoList}]
  /\ list \in [Lists -> Seq(Players)]
  /\ main \in Main /\ loop \in Loop

\* A list of constructed objects, nobody twice.
KnownList(s) == s \in Seq(Players) /\ IsInjective(s) /\ \A p \in ToSet(s) : Built(p)

TablesKnown ==
  /\ \A p \in Players : Built(p) => clientConn[p] \in Conns
  /\ \A e \in Entities : players[e] # NoPlayer => entityId[players[e]] = e
  /\ \A l \in Lists : KnownList(list[l])

\* The main thread has the list it works on from Find to File.
Moving == main.at \in {"join", "take", "move", "file"}
MainKnown ==
  /\ BuiltOrNo(main.player) /\ \A p \in ToSet(main.rest) : Built(p)
  /\ main.at \in {"find", "join", "move", "delete"} => main.player # NoPlayer
  /\ main.at # "idle" => main.conn \in Conns
  /\ Moving => main.old \in Conns /\ main.list \in Lists
  /\ ~Moving => main.old = NoConn /\ main.list = NoList
  /\ main.at = "delete" => clientConn[main.player] = main.conn
  /\ main.at \in {"take", "move"} => main.i # 0

LoopKnown ==
  /\ BuiltOrNo(loop.player) /\ BuiltOrNo(loop.old) /\ BuiltOrNo(loop.made)
  /\ loop.at # "idle" => loop.player # NoPlayer
  /\ loop.at \in {"look", "detach", "count"} \/ loop.empty => loop.old # NoPlayer
  /\ loop.at \in {"detach", "count"} => loop.list \in Lists
  /\ loop.at \notin {"detach", "count"} => loop.list = NoList
  /\ loop.empty => loop.at = "register"

Kinds == TypesOK /\ TablesKnown /\ MainKnown /\ LoopKnown

-----------------------------------------------------------------------------
(* Sequences without repetition.                                           *)

LEMMA EmptyList == ToSet(<<>>) = {} /\ IsInjective(<<>>)
BY DEF ToSet, IsInjective

LEMMA ContainsIs ==
  ASSUME NEW T, NEW s \in Seq(T), NEW x
  PROVE  /\ Contains(s, x) <=> x \in ToSet(s)
         /\ Len(s) \in Nat /\ DOMAIN s = 1 .. Len(s)
         /\ \A i \in 1 .. Len(s) : s[i] \in ToSet(s)
         /\ s = <<>> <=> ToSet(s) = {}
<1>1. Len(s) \in Nat /\ DOMAIN s = 1 .. Len(s) OBVIOUS
<1>2. s # <<>> => 1 \in DOMAIN s BY <1>1
<1>3. s = <<>> => ToSet(s) = {} BY EmptyList
<1> QED BY <1>1, <1>2, <1>3 DEF Contains, ToSet

LEMMA ListAppend ==
  ASSUME NEW T, NEW s \in Seq(T), NEW x \in T, IsInjective(s)
  PROVE  LET r == IF Contains(s, x) THEN s ELSE Append(s, x)
         IN  r \in Seq(T) /\ IsInjective(r) /\ ToSet(r) = ToSet(s) \cup {x}
<1>1. CASE Contains(s, x) BY <1>1, ContainsIs
<1>2. CASE ~Contains(s, x)
  <2>1. /\ Len(Append(s, x)) = Len(s) + 1 /\ Len(s) \in Nat
        /\ Append(s, x) \in Seq(T) /\ Append(s, x)[Len(s) + 1] = x
        /\ \A i \in 1 .. Len(s) : Append(s, x)[i] = s[i] /\ s[i] # x
    BY <1>2 DEF Contains
  <2> QED BY <1>2, <2>1 DEF ToSet, IsInjective
<1> QED BY <1>1, <1>2

LEMMA ListRemove ==
  ASSUME NEW T, NEW s \in Seq(T), NEW i \in DOMAIN s, IsInjective(s)
  PROVE  /\ RemoveAt(s, i) \in Seq(T) /\ IsInjective(RemoveAt(s, i))
         /\ ToSet(RemoveAt(s, i)) = ToSet(s) \ {s[i]}
<1> DEFINE r == RemoveAt(s, i)
           n == Len(s)
<1>1. n \in Nat /\ DOMAIN s = 1 .. n /\ i \in 1 .. n /\ n >= 1 OBVIOUS
<1> DEFINE a == SubSeq(s, 1, i - 1)
           b == SubSeq(s, i + 1, n)
<1>9. /\ a \in Seq(T) /\ Len(a) = i - 1 /\ \A j \in 1 .. i - 1 : a[j] = s[j]
  BY <1>1
<1>10. /\ b \in Seq(T) /\ Len(b) = n - i /\ \A j \in 1 .. n - i : b[j] = s[j + i]
  BY <1>1
<1>11. r = a \o b BY DEF RemoveAt
<1> HIDE DEF a, b, r, n
<1>2. /\ r \in Seq(T) /\ Len(r) = n - 1
      /\ \A j \in 1 .. n - 1 : r[j] = IF j < i THEN s[j] ELSE s[j + 1]
  <2>3. /\ r \in Seq(T) /\ Len(r) = Len(a) + Len(b)
        /\ \A j \in 1 .. Len(a) + Len(b) :
             r[j] = IF j <= Len(a) THEN a[j] ELSE b[j - Len(a)]
    BY <1>9, <1>10, <1>11, ConcatProperties
  <2>4. Len(a) + Len(b) = n - 1 BY <1>1, <1>9, <1>10
  <2>1. r \in Seq(T) /\ Len(r) = n - 1 BY <2>3, <2>4
  <2>2. ASSUME NEW j \in 1 .. n - 1 PROVE r[j] = IF j < i THEN s[j] ELSE s[j + 1]
    <3>1. r[j] = IF j <= i - 1 THEN a[j] ELSE b[j - (i - 1)]
      BY <1>9, <2>3, <2>4
    <3>2. CASE j < i BY <1>1, <1>9, <3>1, <3>2
    <3>3. CASE ~(j < i)
      <4>1. j - (i - 1) \in 1 .. n - i /\ (j - (i - 1)) + i = j + 1
        BY <1>1, <3>3
      <4> QED BY <1>1, <1>10, <3>1, <3>3, <4>1
    <3> QED BY <3>2, <3>3
  <2> QED BY <2>1, <2>2
<1>3. \A j, k \in 1 .. n : s[j] = s[k] => j = k BY <1>1 DEF IsInjective
<1>4. DOMAIN r = 1 .. n - 1 BY <1>2
<1> HIDE DEF r, n
<1>5. IsInjective(r)
  <2> SUFFICES ASSUME NEW j \in 1 .. n - 1, NEW k \in 1 .. n - 1, r[j] = r[k]
               PROVE  j = k
    BY <1>4 DEF IsInjective
  <2>1. /\ j \in 1 .. n /\ j + 1 \in 1 .. n /\ k \in 1 .. n /\ k + 1 \in 1 .. n
    BY <1>1
  <2>2. r[j] = (IF j < i THEN s[j] ELSE s[j + 1]) BY <1>2
  <2>3. r[k] = (IF k < i THEN s[k] ELSE s[k + 1]) BY <1>2
  <2>4. CASE j < i /\ k < i BY <1>3, <2>1, <2>2, <2>3, <2>4
  <2>5. CASE j < i /\ ~(k < i)
    <3>1. j = k + 1 BY <1>3, <2>1, <2>2, <2>3, <2>5
    <3> QED BY <1>1, <2>5, <3>1
  <2>6. CASE ~(j < i) /\ k < i
    <3>1. j + 1 = k BY <1>3, <2>1, <2>2, <2>3, <2>6
    <3> QED BY <1>1, <2>6, <3>1
  <2>7. CASE ~(j < i) /\ ~(k < i)
    <3>1. j + 1 = k + 1 BY <1>3, <2>1, <2>2, <2>3, <2>7
    <3> QED BY <3>1
  <2> QED BY <2>4, <2>5, <2>6, <2>7
<1>6. ASSUME NEW x \in ToSet(r) PROVE x \in ToSet(s) /\ x # s[i]
  <2>1. PICK j \in 1 .. n - 1 : x = r[j] BY <1>4 DEF ToSet
  <2>2. j \in 1 .. n /\ j + 1 \in 1 .. n /\ (j < i => j # i) /\ (~(j < i) => j + 1 # i)
    BY <1>1
  <2>3. x = IF j < i THEN s[j] ELSE s[j + 1] BY <1>2, <2>1
  <2>4. x # s[i] BY <1>1, <1>3, <2>2, <2>3
  <2>5. x \in ToSet(s) BY <1>1, <2>2, <2>3 DEF ToSet
  <2> QED BY <2>4, <2>5
<1>7. ASSUME NEW x \in ToSet(s), x # s[i] PROVE x \in ToSet(r)
  <2>1. PICK j \in 1 .. n : x = s[j] BY <1>1 DEF ToSet
  <2>2. CASE j < i
    <3>1. j \in 1 .. n - 1 /\ r[j] = s[j] BY <1>1, <1>2, <2>1, <2>2
    <3> QED BY <1>4, <2>1, <3>1 DEF ToSet
  <2>3. CASE ~(j < i)
    <3>1. j # i BY <1>7, <2>1
    <3>2. j - 1 \in 1 .. n - 1 /\ ~(j - 1 < i) /\ (j - 1) + 1 = j
      BY <1>1, <2>3, <3>1
    <3>3. r[j - 1] = s[j] BY <1>2, <3>2
    <3> QED BY <1>4, <2>1, <3>2, <3>3 DEF ToSet
  <2> QED BY <2>2, <2>3
<1>8. r \in Seq(T) BY <1>2
<1> QED BY <1>5, <1>6, <1>7, <1>8 DEF r

\* There is a list that nothing refers to.
LEMMA OneMore ==
  ASSUME NEW S, NEW x, NEW n \in Nat, IsFiniteSet(S), Cardinality(S) <= n
  PROVE  IsFiniteSet(S \cup {x}) /\ Cardinality(S \cup {x}) <= n + 1
<1>1. Cardinality(S) \in Nat BY FS_CardinalityType
<1>2. /\ IsFiniteSet(S \cup {x})
      /\ Cardinality(S \cup {x}) = IF x \in S THEN Cardinality(S) ELSE Cardinality(S) + 1
  BY FS_AddElement
<1> QED BY <1>1, <1>2

LEMMA FreshList == Fresh \in Lists /\ Fresh \notin InUse
<1> DEFINE Used == {filed[c] : c \in Conns}
           f == [c \in Conns |-> filed[c]]
           n == Cardinality(Conns)
<1>1. IsFiniteSet(Used) /\ Cardinality(Used) <= n
  <2>1. f \in Surjection(Conns, Used) BY DEF Surjection
  <2> HIDE DEF f, Used
  <2> QED BY <2>1, ListsAssumption, FS_Surjection
<1>5. n \in Nat BY ListsAssumption, FS_CardinalityType
<1>2. IsFiniteSet(InUse) /\ Cardinality(InUse) <= (n + 1) + 1
  <2> HIDE DEF Used, n
  <2>1. /\ IsFiniteSet(Used \cup {main.list})
        /\ Cardinality(Used \cup {main.list}) <= n + 1
    BY <1>1, <1>5, OneMore
  <2>4. n + 1 \in Nat BY <1>5
  <2>2. /\ IsFiniteSet((Used \cup {main.list}) \cup {loop.list})
        /\ Cardinality((Used \cup {main.list}) \cup {loop.list}) <= (n + 1) + 1
    BY <2>1, <2>4, OneMore
  <2>3. InUse = (Used \cup {main.list}) \cup {loop.list} BY DEF InUse, Used
  <2> QED BY <2>2, <2>3
<1>3. Cardinality(InUse) < Cardinality(Lists)
  <2>1. Cardinality(Lists) \in Nat /\ Cardinality(InUse) \in Nat
    BY <1>2, ListsAssumption, FS_CardinalityType
  <2>2. Cardinality(Lists) >= n + 3 BY ListsAssumption
  <2> HIDE DEF n
  <2> QED BY <1>2, <1>5, <2>1, <2>2
<1> HIDE DEF n
<1>4. ~(Lists \subseteq InUse)
  <2> SUFFICES ASSUME Lists \subseteq InUse PROVE FALSE OBVIOUS
  <2>1. Cardinality(Lists) <= Cardinality(InUse) BY <1>2, FS_Subset
  <2>2. Cardinality(Lists) \in Nat /\ Cardinality(InUse) \in Nat
    BY <1>2, ListsAssumption, FS_CardinalityType
  <2> QED BY <1>3, <2>1, <2>2
<1> QED BY <1>4 DEF Fresh

-----------------------------------------------------------------------------
(* Every step keeps Kinds.                                                 *)

LEMMA KnownEmpty == KnownList(<<>>)
BY EmptyList DEF KnownList

LEMMA KnownAppend ==
  ASSUME NEW s, NEW p, KnownList(s), Built(p)
  PROVE  KnownList(IF Contains(s, p) THEN s ELSE Append(s, p))
<1> DEFINE r == IF Contains(s, p) THEN s ELSE Append(s, p)
<1>1. s \in Seq(Players) /\ IsInjective(s) /\ p \in Players BY DEF KnownList, Built
<1>2. r \in Seq(Players) /\ IsInjective(r) /\ ToSet(r) = ToSet(s) \cup {p}
  BY <1>1, ListAppend
<1> QED BY <1>2 DEF KnownList

LEMMA KnownRemove ==
  ASSUME NEW s, NEW i \in DOMAIN s, KnownList(s)
  PROVE  KnownList(RemoveAt(s, i))
<1>1. s \in Seq(Players) /\ IsInjective(s) BY DEF KnownList
<1>2. /\ RemoveAt(s, i) \in Seq(Players) /\ IsInjective(RemoveAt(s, i))
      /\ ToSet(RemoveAt(s, i)) = ToSet(s) \ {s[i]}
  BY <1>1, ListRemove
<1> QED BY <1>2 DEF KnownList

LEMMA OneListSet ==
  ASSUME TypesOK, TablesKnown, NEW l \in Lists, NEW r, KnownList(r)
  PROVE  LET lists == [list EXCEPT ![l] = r]
         IN  lists \in [Lists -> Seq(Players)] /\ \A k \in Lists : KnownList(lists[k])
<1> DEFINE lists == [list EXCEPT ![l] = r]
<1>1. list \in [Lists -> Seq(Players)] /\ \A k \in Lists : KnownList(list[k])
  BY DEF TypesOK, TablesKnown
<1>2. lists \in [Lists -> Seq(Players)] BY <1>1 DEF KnownList
<1>3. ASSUME NEW k \in Lists PROVE KnownList(lists[k])
  <2>1. CASE k = l
    <3>1. lists[k] = r BY <1>1, <2>1
    <3> QED BY <3>1
  <2>2. CASE k # l
    <3>1. lists[k] = list[k] BY <1>1, <2>2
    <3> QED BY <1>1, <3>1
  <2> QED BY <2>1, <2>2
<1> QED BY <1>2, <1>3

LEMMA MainMoves ==
  ASSUME Kinds, UNCHANGED <<tables, loop>>, main' \in Main, MainKnown'
  PROVE  Kinds'
BY DEF Kinds, tables, TypesOK, TablesKnown, LoopKnown, KnownList, Built, BuiltOrNo

LEMMA LoopMoves ==
  ASSUME Kinds, UNCHANGED <<tables, main>>, loop' \in Loop, LoopKnown'
  PROVE  Kinds'
BY DEF Kinds, tables, TypesOK, TablesKnown, MainKnown, Moving, KnownList, Built, BuiltOrNo

\* The lists change, and one thread.
LEMMA ListsMove ==
  ASSUME Kinds, UNCHANGED <<entityId, clientConn>>,
         NEW lists \in [Lists -> Seq(Players)], \A l \in Lists : KnownList(lists[l]),
         list' \in {lists, Kept(lists)},
         filed' \in [Conns -> Lists \cup {NoList}],
         players' \in [Entities -> Players \cup {NoPlayer}],
         \A e \in Entities : players'[e] # NoPlayer => entityId[players'[e]] = e,
         \/ main' \in Main /\ MainKnown' /\ loop' = loop
         \/ loop' \in Loop /\ LoopKnown' /\ main' = main
  PROVE  Kinds'
<1>1. list' \in [Lists -> Seq(Players)] /\ \A l \in Lists : KnownList(list'[l])
  <2>1. CASE list' = lists BY <2>1
  <2>2. CASE list' = Kept(lists)
    <3>1. PICK used : list' = [l \in Lists |-> IF l \in used THEN lists[l] ELSE <<>>]
      BY <2>2 DEF Kept
    <3>2. KnownList(<<>>) BY KnownEmpty
    <3>3. ASSUME NEW l \in Lists
          PROVE  list'[l] \in Seq(Players) /\ KnownList(list'[l])
      <4>1. list'[l] = lists[l] \/ list'[l] = <<>> BY <3>1
      <4>2. KnownList(list'[l]) BY <3>2, <4>1
      <4> QED BY <4>2 DEF KnownList
    <3>4. list' = [l \in Lists |-> list'[l]] BY <3>1
    <3> QED BY <3>3, <3>4
  <2> QED BY <2>1, <2>2
<1>2. main' \in Main /\ MainKnown'
  BY DEF Kinds, TypesOK, MainKnown, Moving, Built, BuiltOrNo
<1>3. loop' \in Loop /\ LoopKnown'
  BY DEF Kinds, TypesOK, LoopKnown, Built, BuiltOrNo
<1>4. TypesOK' BY <1>1, <1>2, <1>3 DEF Kinds, TypesOK
<1>5. TablesKnown' BY <1>1 DEF Kinds, TablesKnown, KnownList, Built
<1> QED BY <1>2, <1>3, <1>4, <1>5 DEF Kinds

LEMMA TransferKinds ==
  ASSUME Kinds, NEW e \in Entities, NEW c \in Conns, Transfer(e, c)
  PROVE  Kinds'
<1>1. players[e] \in Players /\ Built(players[e])
  BY NullAssumption DEF Kinds, TypesOK, TablesKnown, Transfer, Built
<1>2. main' = [at |-> "find", player |-> players[e], conn |-> c, old |-> NoConn,
               list |-> NoList, i |-> 0, rest |-> <<>>]
  BY DEF Transfer, NoCall
<1>3. main' \in Main BY <1>1, <1>2 DEF Main
<1>5. ToSet(main'.rest) = {} BY <1>2, EmptyList
<1>6. UNCHANGED <<entityId, clientConn>> BY DEF Transfer, tables
<1>4. MainKnown'
  BY <1>1, <1>2, <1>5, <1>6, NullAssumption DEF MainKnown, Moving, Built, BuiltOrNo
<1> QED BY <1>3, <1>4, MainMoves DEF Transfer

LEMMA AddMadeKinds == ASSUME Kinds, AddMade PROVE Kinds'
<1> DEFINE e == entityId[loop.made]
<1>1. loop.made \in Players /\ Built(loop.made) /\ e \in Entities
  BY NullAssumption DEF Kinds, TypesOK, LoopKnown, AddMade, Built, BuiltOrNo
<1>2. BuiltOrNo(players[e])
  BY <1>1, NullAssumption DEF Kinds, TypesOK, TablesKnown, Built, BuiltOrNo
<1>3. loop' = [at |-> IF players[e] \in {NoPlayer, loop.made} THEN "register" ELSE "look",
               player |-> loop.made,
               old |-> IF players[e] \in {NoPlayer, loop.made} THEN NoPlayer ELSE players[e],
               list |-> NoList, empty |-> FALSE, made |-> NoPlayer]
  BY DEF AddMade, Add, NoAdd
<1>4. loop' \in Loop BY <1>1, <1>2, <1>3 DEF Loop, Built, BuiltOrNo
<1>5. LoopKnown'
  BY <1>1, <1>2, <1>3, NullAssumption DEF LoopKnown, Built, BuiltOrNo, AddMade, tables
<1> QED BY <1>4, <1>5, LoopMoves DEF AddMade

LEMMA LookKinds == ASSUME Kinds, Look PROVE Kinds'
<1>1. loop.old \in Players /\ Built(loop.old) /\ clientConn[loop.old] \in Conns
  BY NullAssumption DEF Kinds, TypesOK, TablesKnown, LoopKnown, Look, Built, BuiltOrNo
<1>2. filed[clientConn[loop.old]] \in Lists \cup {NoList}
  BY <1>1 DEF Kinds, TypesOK
<1>3. PICK at \in {"register", "detach"}, l \in Lists \cup {NoList} :
        /\ loop' = [loop EXCEPT !.at = at, !.list = l]
        /\ at = "register" <=> l = NoList
  BY <1>2 DEF Look, Registering
<1>4. loop' \in Loop BY <1>3 DEF Kinds, TypesOK, Loop
<1>5. /\ loop'.at = at /\ loop'.list = l /\ loop'.player = loop.player
      /\ loop'.old = loop.old /\ loop'.made = loop.made /\ loop'.empty = loop.empty
  BY <1>3 DEF Kinds, TypesOK, Loop
<1>6. LoopKnown'
  BY <1>1, <1>3, <1>5, NullAssumption
     DEF LoopKnown, Kinds, Built, BuiltOrNo, Look, tables
<1> QED BY <1>4, <1>6, LoopMoves DEF Look

LEMMA CountKinds == ASSUME Kinds, Count PROVE Kinds'
<1>1. PICK b \in BOOLEAN :
        loop' = [loop EXCEPT !.at = "register", !.list = NoList, !.empty = b]
  BY DEF Count, Registering
<1>2. loop' \in Loop BY <1>1 DEF Kinds, TypesOK, Loop
<1>3. /\ loop'.at = "register" /\ loop'.list = NoList /\ loop'.player = loop.player
      /\ loop'.old = loop.old /\ loop'.made = loop.made
  BY <1>1 DEF Kinds, TypesOK, Loop
<1>4. LoopKnown'
  BY <1>3, NullAssumption DEF LoopKnown, Kinds, Built, BuiltOrNo, Count, tables
<1> QED BY <1>2, <1>4, LoopMoves DEF Count

LEMMA TakeOffKinds == ASSUME Kinds, TakeOff PROVE Kinds'
<1>1. loop.list \in Lists /\ \A l \in Lists : KnownList(list[l])
  BY DEF Kinds, LoopKnown, TablesKnown, TakeOff
<1>2. PICK i \in DOMAIN list[loop.list] :
        list' = [list EXCEPT ![loop.list] = RemoveAt(list[loop.list], i)]
  BY DEF TakeOff
<1>3. KnownList(RemoveAt(list[loop.list], i)) BY <1>1, KnownRemove
<1>4. RemoveAt(list[loop.list], i) \in Seq(Players) BY <1>3 DEF KnownList
<1>5. /\ list' \in [Lists -> Seq(Players)]
      /\ \A l \in Lists : KnownList(list'[l])
  BY <1>1, <1>2, <1>3, OneListSet DEF Kinds, TypesOK, TablesKnown
<1>6. loop' = [loop EXCEPT !.at = "count"] BY DEF TakeOff
<1>7. loop' \in Loop BY <1>6 DEF Kinds, TypesOK, Loop
<1>8. /\ loop'.at = "count" /\ loop'.list = loop.list /\ loop'.player = loop.player
      /\ loop'.old = loop.old /\ loop'.made = loop.made /\ loop'.empty = loop.empty
  BY <1>6 DEF Kinds, TypesOK, Loop
<1>9. LoopKnown'
  BY <1>1, <1>8, NullAssumption DEF LoopKnown, Kinds, Built, BuiltOrNo, TakeOff
<1>10. /\ filed' \in [Conns -> Lists \cup {NoList}]
       /\ players' \in [Entities -> Players \cup {NoPlayer}]
       /\ \A e \in Entities : players'[e] # NoPlayer => entityId[players'[e]] = e
       /\ UNCHANGED <<entityId, clientConn>> /\ main' = main
  BY DEF Kinds, TypesOK, TablesKnown, TakeOff
<1> QED BY <1>5, <1>7, <1>9, <1>10, ListsMove

LEMMA ConstructKinds ==
  ASSUME Kinds, NEW p \in Players, NEW e \in Entities, NEW c \in Conns,
         Construct(p, e, c)
  PROVE  Kinds'
<1> USE NullAssumption
<1>1. /\ loop.at = "idle" /\ entityId[p] = NoEntity
      /\ entityId' = [entityId EXCEPT ![p] = e]
      /\ clientConn' = [clientConn EXCEPT ![p] = c]
      /\ UNCHANGED <<players, filed, list, main>>
  BY DEF Construct
<1>2. \A q \in Players : Built(q)' <=> q = p \/ Built(q)
  BY <1>1 DEF Built, Kinds, TypesOK
<1>3. \A q \in Players : Built(q) => clientConn'[q] = clientConn[q] /\ entityId'[q] = entityId[q]
  BY <1>1 DEF Built, Kinds, TypesOK
<1>4. players[e] = NoPlayer \/ Built(players[e])
  BY DEF Built, Kinds, TypesOK, TablesKnown
<1>5. loop' = [at |-> IF players[e] \in {NoPlayer, p} THEN "register" ELSE "look",
               player |-> p,
               old |-> IF players[e] \in {NoPlayer, p} THEN NoPlayer ELSE players[e],
               list |-> NoList, empty |-> FALSE, made |-> p]
  BY DEF Construct, Add, NoAdd
<1>6. loop' \in Loop BY <1>4, <1>5 DEF Loop, Built
<1>7. TypesOK' BY <1>1, <1>6 DEF Kinds, TypesOK
<1>8. LoopKnown' BY <1>2, <1>4, <1>5 DEF LoopKnown, Built, BuiltOrNo
<1>9. MainKnown'
  <2>1. main.at = "delete" => Built(main.player) BY DEF Kinds, MainKnown, BuiltOrNo
  <2>2. BuiltOrNo(main.player)' BY <1>1, <1>2 DEF Kinds, MainKnown, BuiltOrNo, Built
  <2>3. \A q \in ToSet(main.rest) : Built(q)'
    BY <1>1, <1>2 DEF Kinds, MainKnown, Built
  <2> QED BY <1>1, <1>3, <2>1, <2>2, <2>3 DEF Kinds, MainKnown, Moving, Built
<1>10. TablesKnown'
  <2>1. \A q \in Players : Built(q)' => clientConn'[q] \in Conns
    BY <1>1, <1>2, <1>3 DEF Kinds, TypesOK, TablesKnown
  <2>2. \A x \in Entities : players'[x] # NoPlayer => entityId'[players'[x]] = x
    BY <1>1, <1>3 DEF Kinds, TypesOK, TablesKnown, Built
  <2>3. \A l \in Lists : KnownList(list[l])'
    BY <1>1, <1>2 DEF Kinds, TablesKnown, KnownList, Built
  <2> QED BY <2>1, <2>2, <2>3 DEF TablesKnown, KnownList
<1> QED BY <1>7, <1>8, <1>9, <1>10 DEF Kinds

\* What Register does to the tables.
LEMMA RegisterIs ==
  ASSUME Kinds, Register
  PROVE  LET p == loop.player
             c == clientConn[p]
             l == IF Dropped[c] = NoList THEN Fresh ELSE Dropped[c]
             has == IF Dropped[c] = NoList THEN <<>> ELSE list[l]
         IN  /\ p \in Players /\ Built(p) /\ c \in Conns /\ l \in Lists
             /\ KnownList(IF Contains(has, p) THEN has ELSE Append(has, p))
             /\ Dropped \in [Conns -> Lists \cup {NoList}]
<1> DEFINE p == loop.player
           c == clientConn[p]
           l == IF Dropped[c] = NoList THEN Fresh ELSE Dropped[c]
           has == IF Dropped[c] = NoList THEN <<>> ELSE list[l]
<1> USE NullAssumption
<1>1. p \in Players /\ Built(p) /\ c \in Conns
  BY DEF Kinds, TypesOK, TablesKnown, LoopKnown, Register, Built, BuiltOrNo
<1>2. Dropped \in [Conns -> Lists \cup {NoList}] BY DEF Kinds, TypesOK, Dropped
<1>3. l \in Lists BY <1>1, <1>2, FreshList
<1>4. KnownList(IF Contains(has, p) THEN has ELSE Append(has, p))
  <2>1. has = <<>> \/ has = list[l] BY <1>3
  <2> HIDE DEF has, l
  <2>2. KnownList(list[l]) BY <1>3 DEF Kinds, TablesKnown
  <2>3. KnownList(has) BY <2>1, <2>2, KnownEmpty
  <2> QED BY <1>1, <2>3, KnownAppend
<1> QED BY <1>1, <1>2, <1>3, <1>4

LEMMA RegisterKinds == ASSUME Kinds, Register PROVE Kinds'
<1> DEFINE p == loop.player
           c == clientConn[p]
           l == IF Dropped[c] = NoList THEN Fresh ELSE Dropped[c]
           has == IF Dropped[c] = NoList THEN <<>> ELSE list[l]
           r == IF Contains(has, p) THEN has ELSE Append(has, p)
<1>1. /\ p \in Players /\ Built(p) /\ c \in Conns /\ l \in Lists
      /\ KnownList(r) /\ Dropped \in [Conns -> Lists \cup {NoList}]
  BY RegisterIs
<1>2. /\ players' = [players EXCEPT ![entityId[p]] = p]
      /\ filed' = [Dropped EXCEPT ![c] = l]
      /\ loop' = [NoAdd EXCEPT !.made = loop.made]
      /\ UNCHANGED <<entityId, clientConn, main>>
      /\ list' = Kept([list EXCEPT ![l] = r])
  BY DEF Register
<1> HIDE DEF c, l, r
<1> DEFINE lists == [list EXCEPT ![l] = r]
<1>3. lists \in [Lists -> Seq(Players)] /\ \A k \in Lists : KnownList(lists[k])
  BY <1>1, OneListSet DEF Kinds
<1>4. list' \in {lists, Kept(lists)} BY <1>2
<1>5. filed' \in [Conns -> Lists \cup {NoList}] BY <1>1, <1>2
<1>6. entityId[p] \in Entities BY <1>1 DEF Kinds, TypesOK, Built
<1>7. /\ players' \in [Entities -> Players \cup {NoPlayer}]
      /\ \A e \in Entities : players'[e] # NoPlayer => entityId[players'[e]] = e
  BY <1>1, <1>2, <1>6 DEF Kinds, TypesOK, TablesKnown
<1>8. loop' = [at |-> "idle", player |-> NoPlayer, old |-> NoPlayer,
               list |-> NoList, empty |-> FALSE, made |-> loop.made]
  BY <1>2 DEF NoAdd
<1>9. loop' \in Loop BY <1>8 DEF Kinds, TypesOK, Loop
<1>10. LoopKnown' BY <1>2, <1>8 DEF Kinds, LoopKnown, Built, BuiltOrNo
<1> HIDE DEF lists
<1> QED BY <1>2, <1>3, <1>4, <1>5, <1>7, <1>9, <1>10, ListsMove

LEMMA RegisterFailsKinds == ASSUME Kinds, RegisterFails PROVE Kinds'
<1>1. loop' = NoAdd /\ UNCHANGED <<players, filed, entityId, clientConn, main>>
  BY DEF RegisterFails
<1>2. loop' \in Loop /\ LoopKnown'
  BY <1>1 DEF Loop, LoopKnown, BuiltOrNo, NoAdd
<1>3. list \in [Lists -> Seq(Players)] /\ \A l \in Lists : KnownList(list[l])
  BY DEF Kinds, TypesOK, TablesKnown
<1>4. list' \in {list, Kept(list)} BY DEF RegisterFails
<1>5. /\ filed' \in [Conns -> Lists \cup {NoList}]
      /\ players' \in [Entities -> Players \cup {NoPlayer}]
      /\ \A e \in Entities : players'[e] # NoPlayer => entityId[players'[e]] = e
  BY <1>1 DEF Kinds, TypesOK, TablesKnown
<1> QED BY <1>1, <1>2, <1>3, <1>4, <1>5, ListsMove

LEMMA FindKinds == ASSUME Kinds, Find PROVE Kinds'
<1> DEFINE old == clientConn[main.player]
           l == IF filed[old] = NoList THEN Fresh ELSE filed[old]
           has == IF filed[old] = NoList THEN <<>> ELSE list[l]
<1>1. main.player \in Players /\ Built(main.player) /\ old \in Conns
  BY NullAssumption DEF Kinds, TypesOK, TablesKnown, MainKnown, Find, Built, BuiltOrNo
<1>2. l \in Lists BY <1>1, FreshList DEF Kinds, TypesOK
<1>3. main' = [main EXCEPT !.at = "join", !.old = old, !.list = l] BY DEF Find
<1>4. list' = [list EXCEPT ![l] = has] BY DEF Find
<1>5. KnownList(has) BY <1>2, KnownEmpty DEF Kinds, TablesKnown
<1> HIDE DEF old, l, has
<1>6. list' \in [Lists -> Seq(Players)] /\ \A k \in Lists : KnownList(list'[k])
  BY <1>2, <1>4, <1>5, OneListSet DEF Kinds
<1>7. main' \in Main BY <1>1, <1>2, <1>3 DEF Kinds, TypesOK, Main
<1>8. /\ main'.at = "join" /\ main'.old = old /\ main'.list = l
      /\ main'.player = main.player /\ main'.conn = main.conn /\ main'.rest = main.rest
  BY <1>3 DEF Kinds, TypesOK, Main
<1>9. UNCHANGED <<players, filed, entityId, clientConn, loop>> BY DEF Find
<1>10. MainKnown'
  BY <1>1, <1>2, <1>8, <1>9 DEF Kinds, MainKnown, Moving, Built, BuiltOrNo, Find
<1>11. /\ filed' \in [Conns -> Lists \cup {NoList}]
       /\ players' \in [Entities -> Players \cup {NoPlayer}]
       /\ \A e \in Entities : players'[e] # NoPlayer => entityId[players'[e]] = e
  BY <1>9 DEF Kinds, TypesOK, TablesKnown
<1> QED BY <1>6, <1>7, <1>9, <1>10, <1>11, ListsMove

LEMMA JoinKinds == ASSUME Kinds, Join PROVE Kinds'
<1> DEFINE s == list[main.list]
           r == IF Contains(s, main.player) THEN s ELSE Append(s, main.player)
<1>1. Built(main.player) /\ main.list \in Lists /\ KnownList(s)
  BY NullAssumption DEF Kinds, TablesKnown, MainKnown, Moving, Join, BuiltOrNo
<1>2. main' = [main EXCEPT !.at = "take", !.i = 1] BY DEF Join
<1>3. list' = [list EXCEPT ![main.list] = r] BY DEF Join
<1>4. KnownList(r) BY <1>1, KnownAppend
<1> HIDE DEF s, r
<1>5. list' \in [Lists -> Seq(Players)] /\ \A k \in Lists : KnownList(list'[k])
  BY <1>1, <1>3, <1>4, OneListSet DEF Kinds
<1>6. main' \in Main BY <1>2 DEF Kinds, TypesOK, Main
<1>7. /\ main'.at = "take" /\ main'.old = main.old /\ main'.list = main.list
      /\ main'.player = main.player /\ main'.conn = main.conn /\ main'.rest = main.rest
      /\ main'.i = 1
  BY <1>2 DEF Kinds, TypesOK, Main
<1>8. UNCHANGED <<players, filed, entityId, clientConn, loop>> BY DEF Join
<1>9. MainKnown'
  BY <1>7, <1>8 DEF Kinds, MainKnown, Moving, Built, BuiltOrNo, Join
<1>10. /\ filed' \in [Conns -> Lists \cup {NoList}]
       /\ players' \in [Entities -> Players \cup {NoPlayer}]
       /\ \A e \in Entities : players'[e] # NoPlayer => entityId[players'[e]] = e
  BY <1>8 DEF Kinds, TypesOK, TablesKnown
<1> QED BY <1>5, <1>6, <1>8, <1>9, <1>10, ListsMove

LEMMA TakeKinds == ASSUME Kinds, Take PROVE Kinds'
<1> DEFINE s == list[main.list]
<1>1. main.list \in Lists /\ main.i \in Nat \ {0} /\ KnownList(s)
  BY DEF Kinds, TypesOK, Main, TablesKnown, MainKnown, Moving, Take
<1>2. main.i \in DOMAIN s BY <1>1 DEF Take, KnownList
<1>3. Built(s[main.i]) BY <1>1, <1>2 DEF KnownList, ToSet
<1>4. main' = [main EXCEPT !.at = "move", !.player = s[main.i]] BY DEF Take
<1>5. UNCHANGED <<entityId, clientConn>> BY DEF Take, tables
<1> HIDE DEF s
<1>6. main' \in Main BY <1>3, <1>4 DEF Kinds, TypesOK, Main, Built
<1>7. /\ main'.at = "move" /\ main'.old = main.old /\ main'.list = main.list
      /\ main'.player = s[main.i] /\ main'.conn = main.conn /\ main'.rest = main.rest
      /\ main'.i = main.i
  BY <1>4 DEF Kinds, TypesOK, Main
<1>8. MainKnown'
  BY <1>1, <1>3, <1>5, <1>7, NullAssumption
     DEF Kinds, MainKnown, Moving, Built, BuiltOrNo, Take
<1> QED BY <1>6, <1>8, MainMoves DEF Take

LEMMA MoveKinds == ASSUME Kinds, Move PROVE Kinds'
<1>1. /\ main.player \in Players /\ main.conn \in Conns
      /\ main.at = "move" /\ main.i \in Nat \ {0}
  BY DEF Kinds, TypesOK, Main, MainKnown, Move, Built, BuiltOrNo
<1>2. PICK n \in Nat \ {0} : main' = [main EXCEPT !.at = "take", !.i = n]
  <2>1. main.i + 1 \in Nat \ {0} BY <1>1
  <2> QED BY <2>1 DEF Move
<1>3. /\ clientConn' = [clientConn EXCEPT ![main.player] = main.conn]
      /\ UNCHANGED <<players, filed, list, entityId, loop>>
  BY DEF Move
<1>4. main' \in Main BY <1>1, <1>2 DEF Kinds, TypesOK, Main
<1>5. /\ main'.at = "take" /\ main'.old = main.old /\ main'.list = main.list
      /\ main'.player = main.player /\ main'.conn = main.conn /\ main'.rest = main.rest
      /\ main'.i # 0
  BY <1>2 DEF Kinds, TypesOK, Main
<1>6. MainKnown'
  BY <1>1, <1>3, <1>5 DEF Kinds, MainKnown, Moving, Built, BuiltOrNo
<1>7. TypesOK' BY <1>1, <1>3, <1>4 DEF Kinds, TypesOK
<1>8. LoopKnown' BY <1>3 DEF Kinds, LoopKnown, Built, BuiltOrNo
<1>9. TablesKnown'
  <2>1. \A p \in Players : Built(p)' => clientConn'[p] \in Conns
    BY <1>1, <1>3 DEF Kinds, TypesOK, TablesKnown, Built
  <2>2. \A e \in Entities : players'[e] # NoPlayer => entityId'[players'[e]] = e
    BY <1>3 DEF Kinds, TablesKnown
  <2>3. \A l \in Lists : KnownList(list[l])'
    BY <1>3 DEF Kinds, TablesKnown, KnownList, Built
  <2> QED BY <2>1, <2>2, <2>3 DEF TablesKnown, KnownList
<1> QED BY <1>6, <1>7, <1>8, <1>9 DEF Kinds

\* The main thread files or drops a list.
LEMMA FilingKinds ==
  ASSUME Kinds, Unfile \/ File \/ DelList
  PROVE  Kinds'
<1>1. /\ main.at \in {"take", "file", "next"} /\ main.conn \in Conns
      /\ main.at # "next" => main.old \in Conns /\ main.list \in Lists
  BY DEF Unfile, File, DelList, Kinds, MainKnown, Moving
<1>2. UNCHANGED <<players, entityId, clientConn, loop>> /\ list' = Kept(list)
  BY DEF Unfile, File, DelList
<1>3. filed' \in [Conns -> Lists \cup {NoList}]
  BY <1>1 DEF Unfile, File, DelList, Kinds, TypesOK
<1>4. main' \in Main /\ MainKnown'
  <2>1. CASE Unfile
    <3>1. main' = [main EXCEPT !.at = "file", !.i = 0] BY <2>1 DEF Unfile
    <3>2. main.at = "take" BY <2>1 DEF Unfile
    <3>3. main' \in Main BY <3>1 DEF Kinds, TypesOK, Main
    <3>4. /\ main'.at = "file" /\ main'.old = main.old /\ main'.list = main.list
          /\ main'.player = main.player /\ main'.conn = main.conn
          /\ main'.rest = main.rest
      BY <3>1 DEF Kinds, TypesOK, Main
    <3>5. MainKnown'
      BY <1>2, <3>2, <3>4 DEF Kinds, MainKnown, Moving, Built, BuiltOrNo
    <3> QED BY <3>3, <3>5
  <2>2. CASE main' = NoCall
    <3>1. main' \in Main BY <2>2 DEF NoCall, Main
    <3>2. /\ main'.at = "idle" /\ main'.player = NoPlayer /\ main'.old = NoConn
          /\ main'.list = NoList /\ ToSet(main'.rest) = {}
      BY <2>2, EmptyList DEF NoCall
    <3> QED BY <3>1, <3>2 DEF MainKnown, Moving, BuiltOrNo
  <2> QED BY <2>1, <2>2 DEF File, DelList
<1>5. list \in [Lists -> Seq(Players)] /\ \A l \in Lists : KnownList(list[l])
  BY DEF Kinds, TypesOK, TablesKnown
<1>6. /\ players' \in [Entities -> Players \cup {NoPlayer}]
      /\ \A e \in Entities : players'[e] # NoPlayer => entityId[players'[e]] = e
  BY <1>2 DEF Kinds, TypesOK, TablesKnown
<1> QED BY <1>2, <1>3, <1>4, <1>5, <1>6, ListsMove

LEMMA OfflineKinds ==
  ASSUME Kinds, NEW c \in Conns, Offline(c)
  PROVE  Kinds'
<1> DEFINE has == IF filed[c] = NoList THEN <<>> ELSE list[filed[c]]
<1>1. KnownList(has)
  <2>1. filed[c] = NoList \/ filed[c] \in Lists BY DEF Kinds, TypesOK
  <2> QED BY <2>1, KnownEmpty DEF Kinds, TablesKnown
<1>2. main' = [at |-> "next", player |-> NoPlayer, conn |-> c, old |-> NoConn,
               list |-> NoList, i |-> 0, rest |-> has]
  BY DEF Offline, NoCall
<1> HIDE DEF has
<1>3. main' \in Main BY <1>1, <1>2 DEF Main, KnownList
<1>4. UNCHANGED <<entityId, clientConn>> BY DEF Offline, tables
<1>5. MainKnown'
  BY <1>1, <1>2, <1>4 DEF MainKnown, Moving, Built, BuiltOrNo, KnownList
<1> QED BY <1>3, <1>5, MainMoves DEF Offline

LEMMA NextPlayerKinds == ASSUME Kinds, NextPlayer PROVE Kinds'
<1> DEFINE p == Head(main.rest)
<1>1. main.rest \in Seq(Players) /\ main.rest # <<>> /\ main.at = "next"
  BY DEF Kinds, TypesOK, Main, NextPlayer
<1>2. Built(p) /\ \A q \in ToSet(Tail(main.rest)) : Built(q)
  <2>1. \A q \in ToSet(main.rest) : Built(q) BY DEF Kinds, MainKnown
  <2>2. 1 \in DOMAIN main.rest /\ p = main.rest[1] BY <1>1
  <2>3. \A i \in DOMAIN Tail(main.rest) :
          i + 1 \in DOMAIN main.rest /\ Tail(main.rest)[i] = main.rest[i + 1]
    BY <1>1
  <2> QED BY <2>1, <2>2, <2>3 DEF ToSet
<1>3. UNCHANGED <<players, entityId, clientConn>> BY DEF NextPlayer, tables
<1>4. Tail(main.rest) \in Seq(Players) BY <1>1
<1> DEFINE rest == Tail(main.rest)
<1>5. CASE main' = [main EXCEPT !.rest = rest, !.at = "delete", !.player = p]
           /\ clientConn[p] = main.conn
  <2> HIDE DEF p, rest
  <2>1. main' \in Main BY <1>2, <1>4, <1>5 DEF Kinds, TypesOK, Main, Built, rest
  <2>2. /\ main'.at = "delete" /\ main'.old = main.old /\ main'.list = main.list
        /\ main'.player = p /\ main'.conn = main.conn /\ main'.rest = rest
    BY <1>5 DEF Kinds, TypesOK, Main
  <2>3. MainKnown'
    BY <1>1, <1>2, <1>3, <1>5, <2>2, NullAssumption
       DEF Kinds, MainKnown, Moving, Built, BuiltOrNo, rest
  <2> QED BY <2>1, <2>3, MainMoves DEF NextPlayer
<1>6. CASE main' = [main EXCEPT !.rest = rest]
  <2> HIDE DEF rest
  <2>1. main' \in Main BY <1>4, <1>6 DEF Kinds, TypesOK, Main, rest
  <2>2. /\ main'.at = "next" /\ main'.old = main.old /\ main'.list = main.list
        /\ main'.player = main.player /\ main'.conn = main.conn /\ main'.rest = rest
    BY <1>1, <1>6 DEF Kinds, TypesOK, Main
  <2>3. MainKnown'
    BY <1>1, <1>2, <1>3, <2>2 DEF Kinds, MainKnown, Moving, Built, BuiltOrNo, rest
  <2> QED BY <2>1, <2>3, MainMoves DEF NextPlayer
<1>7. main' = (IF clientConn[p] = main.conn /\ Serves(p)
               THEN [main EXCEPT !.rest = rest, !.at = "delete", !.player = p]
               ELSE [main EXCEPT !.rest = rest])
  BY DEF NextPlayer
<1> HIDE DEF p, rest
<1> QED BY <1>5, <1>6, <1>7

LEMMA DelPlayerKinds == ASSUME Kinds, DelPlayer PROVE Kinds'
<1>1. main' = [main EXCEPT !.at = "next", !.player = NoPlayer] BY DEF DelPlayer
<1>2. UNCHANGED <<filed, list, entityId, clientConn, loop>> BY DEF DelPlayer
<1>3. main' \in Main BY <1>1 DEF Kinds, TypesOK, Main
<1>4. /\ main'.at = "next" /\ main'.old = main.old /\ main'.list = main.list
      /\ main'.player = NoPlayer /\ main'.conn = main.conn /\ main'.rest = main.rest
  BY <1>1 DEF Kinds, TypesOK, Main
<1>5. MainKnown'
  BY <1>2, <1>4 DEF Kinds, MainKnown, Moving, Built, BuiltOrNo, DelPlayer
<1>6. /\ players' \in [Entities -> Players \cup {NoPlayer}]
      /\ \A e \in Entities : players'[e] # NoPlayer => entityId[players'[e]] = e
  BY DEF DelPlayer, Kinds, TypesOK, TablesKnown
<1>7. /\ list' \in [Lists -> Seq(Players)] /\ \A l \in Lists : KnownList(list'[l])
      /\ filed' \in [Conns -> Lists \cup {NoList}]
  BY <1>2 DEF Kinds, TypesOK, TablesKnown
<1> QED BY <1>2, <1>3, <1>5, <1>6, <1>7, ListsMove

LEMMA InitKinds == ThreadsInit => Kinds
<1> SUFFICES ASSUME ThreadsInit PROVE Kinds OBVIOUS
<1>1. main \in Main /\ loop \in Loop
  BY DEF ThreadsInit, NoCall, NoAdd, Main, Loop
<1>2. TypesOK BY <1>1 DEF ThreadsInit, TypesOK
<1>3. TablesKnown BY KnownEmpty DEF ThreadsInit, TablesKnown, Built
<1>4. ToSet(main.rest) = {} BY EmptyList DEF ThreadsInit, NoCall
<1>5. MainKnown BY <1>4 DEF ThreadsInit, MainKnown, Moving, BuiltOrNo, NoCall
<1>6. LoopKnown BY DEF ThreadsInit, LoopKnown, BuiltOrNo, NoAdd
<1> QED BY <1>2, <1>3, <1>5, <1>6 DEF Kinds

LEMMA StepKinds == Kinds /\ [ThreadsNext]_threadVars => Kinds'
<1> SUFFICES ASSUME Kinds, [ThreadsNext]_threadVars PROVE Kinds' OBVIOUS
<1>1. CASE Step
  <2>1. CASE \E p \in Players, e \in Entities, c \in Conns : Construct(p, e, c)
    BY <2>1, ConstructKinds
  <2>2. CASE AddMade \/ Look \/ TakeOff \/ Count \/ Register \/ RegisterFails
    BY <2>2, AddMadeKinds, LookKinds, TakeOffKinds, CountKinds, RegisterKinds,
       RegisterFailsKinds
  <2>3. CASE \E e \in Entities, c \in Conns : Transfer(e, c)
    BY <2>3, TransferKinds
  <2>4. CASE Find \/ Join \/ Take \/ Move \/ Unfile \/ File \/ DelList
    BY <2>4, FindKinds, JoinKinds, TakeKinds, MoveKinds, FilingKinds
  <2>5. CASE \E c \in Conns : Offline(c) BY <2>5, OfflineKinds
  <2>6. CASE NextPlayer \/ DelPlayer BY <2>6, NextPlayerKinds, DelPlayerKinds
  <2> QED BY <1>1, <2>1, <2>2, <2>3, <2>4, <2>5, <2>6 DEF Step
<1>2. CASE UNCHANGED threadVars
  <2>1. UNCHANGED <<tables, loop>> /\ main' = main BY <1>2 DEF threadVars
  <2>2. MainKnown' BY <2>1 DEF Kinds, MainKnown, Moving, Built, BuiltOrNo, tables
  <2> QED BY <2>1, <2>2, MainMoves DEF Kinds, TypesOK
<1> QED BY <1>1, <1>2 DEF ThreadsNext

LEMMA KindsCorrect == ThreadsSpec => []Kinds
BY InitKinds, StepKinds, PTL DEF ThreadsSpec

\* However the calls of the two threads overlap, the disconnect of a client ends
\* the session of an entity only if the object that serves it is on that client's
\* connection: add_player never leaves an entity without an object, and
\* player_offline looks at the object again before and after the game is told.
THEOREM SparesOthersCorrect == ThreadsSpec => SparesOthers
<1>1. ASSUME Kinds, [ThreadsNext]_threadVars, NEW e \in Entities,
             players[e] # NoPlayer, players'[e] = NoPlayer
      PROVE  clientConn[players[e]] = main.conn
  <2>1. Step
    BY <1>1 DEF ThreadsNext, threadVars, tables
  <2>2. CASE DelPlayer
    <3>1. Serves(main.player) /\ e = entityId[main.player]
      BY <1>1, <2>2 DEF DelPlayer, Kinds, TypesOK
    <3>2. players[e] = main.player BY <3>1 DEF Serves
    <3> QED BY <1>1, <2>2, <3>2 DEF DelPlayer, Kinds, MainKnown
  <2>3. CASE Register
    <3>1. loop.player \in Players BY <1>1, <2>3, RegisterIs
    <3>2. players' = [players EXCEPT ![entityId[loop.player]] = loop.player]
      BY <2>3 DEF Register
    <3> QED BY <1>1, <3>1, <3>2, NullAssumption DEF Kinds, TypesOK
  <2>4. CASE players' = players BY <1>1, <2>4
  <2>5. DelPlayer \/ Register \/ players' = players
    BY <2>1 DEF Step, Construct, AddMade, Look, TakeOff, Count, RegisterFails,
                Transfer, Find, Join, Take, Move, Unfile, File, Offline, NextPlayer,
                DelList, tables
  <2> QED BY <2>2, <2>3, <2>4, <2>5
<1>2. Kinds /\ [ThreadsNext]_threadVars =>
        [\A e \in Entities : players[e] # NoPlayer /\ players'[e] = NoPlayer =>
           clientConn[players[e]] = main.conn]_threadVars
  BY <1>1
<1> QED BY KindsCorrect, <1>2, PTL DEF ThreadsSpec, SparesOthers

-----------------------------------------------------------------------------
(* Calls that overlap and have no connection in common.                    *)

NoCommon == Overlap => MainConns \cap LoopConns = {}

\* No two connections have the same list.
FiledOnce ==
  \A c, d \in Conns : filed[c] = filed[d] /\ filed[c] # NoList => c = d

\* What is filed under a connection is on it and serves its entity. Only the main
\* thread makes exceptions: it has moved some of the old connection's objects, or
\* has ended some of the sessions of the client that left.
FiledIs ==
  \A c \in Conns : \A p \in Contents(c) :
    /\ clientConn[p] # c => /\ main.at \in {"take", "move"}
                            /\ c = main.old /\ clientConn[p] = main.conn
    /\ Serves(p) \/ (main.at \in {"next", "delete"} /\ c = main.conn)

\* The main thread's list is filed under the old connection or nowhere, and its
\* first objects have been moved.
MainIs ==
  /\ main.at \in {"find", "join"} => Serves(main.player)
  /\ Moving =>
       /\ \A c \in Conns : filed[c] = main.list => c = main.old /\ main.at # "file"
       /\ \A p \in ToSet(list[main.list]) :
            Serves(p) /\ clientConn[p] \in {main.old, main.conn}
  /\ main.at = "join" => clientConn[main.player] = main.old
  /\ main.at \in {"take", "move"} => \A j \in DOMAIN list[main.list] :
       j < main.i => clientConn[list[main.list][j]] = main.conn
  /\ main.at = "move" => /\ main.i \in DOMAIN list[main.list]
                         /\ main.player = list[main.list][main.i]
  /\ main.at = "file" => \A p \in ToSet(list[main.list]) : clientConn[p] = main.conn

\* No other object has come to serve the entity than the one being detached. That
\* one is off its list from detach on, and an empty list is still filed.
LoopIs ==
  /\ loop.at # "idle" => players[entityId[loop.player]] \in {NoPlayer, loop.player, loop.old}
  /\ loop.at \in {"detach", "count"} => loop.list = filed[clientConn[loop.old]]
  /\ loop.at \in {"count", "register"} /\ loop.old # NoPlayer =>
       loop.old \notin Contents(clientConn[loop.old])
  /\ loop.empty => /\ filed[clientConn[loop.old]] # NoList
                   /\ Contents(clientConn[loop.old]) = {}

Quiet == NoCommon /\ FiledOnce /\ FiledIs /\ MainIs /\ LoopIs
Calm == ~clash => Quiet

LEMMA Apart ==
  ASSUME Kinds, NoCommon, Overlap
  PROVE  \A p \in {loop.player, loop.old} : p # NoPlayer =>
           /\ clientConn[p] \in Conns
           /\ clientConn[p] # main.conn /\ clientConn[p] # main.old
           /\ main.player # NoPlayer => clientConn[p] # clientConn[main.player]
<1> SUFFICES ASSUME NEW p \in {loop.player, loop.old}, p # NoPlayer
             PROVE  /\ clientConn[p] \in Conns
                    /\ clientConn[p] # main.conn /\ clientConn[p] # main.old
                    /\ main.player # NoPlayer => clientConn[p] # clientConn[main.player]
  OBVIOUS
<1>1. clientConn[p] \in Conns
  BY DEF Kinds, LoopKnown, BuiltOrNo, Built, TablesKnown
<1>2. clientConn[p] \in LoopConns BY <1>1, NullAssumption DEF LoopConns, ConnOf
<1>3. clientConn[p] \notin MainConns BY <1>2 DEF NoCommon
<1> QED BY <1>1, <1>3, NullAssumption DEF MainConns, ConnOf

LEMMA KeptIs ==
  ASSUME NEW lists \in [Lists -> Seq(Players)], list' = Kept(lists), Kinds'
  PROVE  /\ \A c \in Conns : filed'[c] # NoList => list'[filed'[c]] = lists[filed'[c]]
         /\ main'.list # NoList => list'[main'.list] = lists[main'.list]
<1>1. \A l \in Lists : l \in InUse' => list'[l] = lists[l] BY DEF Kept
<1>2. (\A c \in Conns : filed'[c] \in InUse') /\ main'.list \in InUse' BY DEF InUse
<1>3. /\ \A c \in Conns : filed'[c] \in Lists \cup {NoList}
      /\ main'.list \in Lists \cup {NoList}
  BY DEF Kinds, TypesOK, Main
<1> QED BY <1>1, <1>2, <1>3

\* Steps that change the thread's state alone.
LEMMA MainAloneQuiet ==
  ASSUME Kinds, Quiet, UNCHANGED <<tables, loop>>,
         main.at \in {"idle", "next"}, main'.at \in {"find", "next", "delete"},
         main.at = "next" => main'.conn = main.conn /\ main'.at # "find",
         main'.at = "find" => Serves(main'.player)
  PROVE  FiledOnce' /\ FiledIs' /\ MainIs' /\ LoopIs'
<1>1. FiledOnce' BY DEF Quiet, FiledOnce, tables
<1>2. LoopIs' BY DEF Quiet, LoopIs, Contents, tables
<1>3. MainIs' BY DEF MainIs, Moving, Serves, tables
<1>4. FiledIs' BY DEF Quiet, FiledIs, Contents, Serves, tables
<1> QED BY <1>1, <1>2, <1>3, <1>4

LEMMA LoopAloneQuiet ==
  ASSUME Kinds, Quiet, UNCHANGED <<tables, main>>, LoopIs'
  PROVE  FiledOnce' /\ FiledIs' /\ MainIs'
<1>1. FiledOnce' BY DEF Quiet, FiledOnce, tables
<1>3. MainIs' BY DEF Quiet, MainIs, Moving, Serves, tables
<1>4. FiledIs' BY DEF Quiet, FiledIs, Contents, Serves, tables
<1> QED BY <1>1, <1>3, <1>4

LEMMA TransferQuiet ==
  ASSUME Kinds, Quiet, NEW e \in Entities, NEW c \in Conns, Transfer(e, c)
  PROVE  FiledOnce' /\ FiledIs' /\ MainIs' /\ LoopIs'
<1>1. main'.at = "find" /\ main'.player = players[e] BY DEF Transfer, NoCall
<1>2. Serves(players[e]) BY DEF Kinds, TablesKnown, Serves, Transfer
<1>3. Serves(main'.player) BY <1>1, <1>2
<1> QED BY <1>1, <1>3, MainAloneQuiet DEF Transfer

LEMMA EndingQuiet ==
  ASSUME Kinds, Quiet, NextPlayer \/ \E c \in Conns : Offline(c)
  PROVE  FiledOnce' /\ FiledIs' /\ MainIs' /\ LoopIs'
<1>1. CASE \E c \in Conns : Offline(c)
  <2>1. main.at = "idle" /\ main'.at = "next" BY <1>1 DEF Offline, NoCall
  <2> QED BY <1>1, <2>1, MainAloneQuiet DEF Offline
<1>2. CASE NextPlayer
  <2>1. main.at = "next" /\ main'.at \in {"next", "delete"} /\ main'.conn = main.conn
    BY <1>2 DEF NextPlayer, Kinds, TypesOK, Main
  <2> QED BY <1>2, <2>1, MainAloneQuiet DEF NextPlayer
<1> QED BY <1>1, <1>2

LEMMA TakeQuiet ==
  ASSUME Kinds, Quiet, Take
  PROVE  FiledOnce' /\ FiledIs' /\ MainIs' /\ LoopIs'
<1>1. /\ main.at = "take" /\ main.i \in Nat \ {0} /\ main.i <= Len(list[main.list])
      /\ list[main.list] \in Seq(Players)
  BY DEF Take, Kinds, TypesOK, Main, MainKnown, Moving
<1>2. main.i \in DOMAIN list[main.list] BY <1>1
<1>3. /\ main'.at = "move" /\ main'.player = list[main.list][main.i]
      /\ main'.i = main.i /\ main'.list = main.list
      /\ main'.conn = main.conn /\ main'.old = main.old
  BY DEF Take, Kinds, TypesOK, Main
<1>4. UNCHANGED <<tables, loop>> BY DEF Take
<1>5. FiledOnce' BY <1>4 DEF Quiet, FiledOnce, tables
<1>6. LoopIs' BY <1>4 DEF Quiet, LoopIs, Contents, tables
<1>7. FiledIs' BY <1>1, <1>3, <1>4 DEF Quiet, FiledIs, Contents, Serves, tables
<1>8. MainIs' BY <1>1, <1>2, <1>3, <1>4 DEF Quiet, MainIs, Moving, Serves, tables
<1> QED BY <1>5, <1>6, <1>7, <1>8

LEMMA LookQuiet ==
  ASSUME Kinds, Quiet, Look
  PROVE  FiledOnce' /\ FiledIs' /\ MainIs' /\ LoopIs'
<1>1. UNCHANGED <<tables, main>> /\ loop.at = "look" BY DEF Look
<1>2. /\ loop'.player = loop.player /\ loop'.old = loop.old
      /\ loop'.empty = loop.empty /\ loop.empty = FALSE
      /\ \/ loop'.at = "register" /\ filed[clientConn[loop.old]] = NoList
         \/ loop'.at = "detach" /\ loop'.list = filed[clientConn[loop.old]]
  BY DEF Look, Registering, Kinds, TypesOK, Loop, LoopKnown
<1>3. LoopIs' BY <1>1, <1>2 DEF Quiet, LoopIs, Contents, tables
<1> QED BY <1>1, <1>3, LoopAloneQuiet

LEMMA CountQuiet ==
  ASSUME Kinds, Quiet, Count
  PROVE  FiledOnce' /\ FiledIs' /\ MainIs' /\ LoopIs'
<1>1. UNCHANGED <<tables, main>> /\ loop.at \in {"detach", "count"} BY DEF Count
<1>2. /\ loop'.player = loop.player /\ loop'.old = loop.old
      /\ loop'.at = "register" /\ loop'.empty = (list[loop.list] = <<>>)
  BY DEF Count, Registering, Kinds, TypesOK, Loop
<1>3. loop.list = filed[clientConn[loop.old]] /\ loop.list \in Lists
  BY <1>1 DEF Quiet, LoopIs, Kinds, LoopKnown
<1>4. loop.list # NoList BY <1>3, ListsAssumption
<1>5. Contents(clientConn[loop.old]) = ToSet(list[loop.list])
  BY <1>3, <1>4 DEF Contents
<1>6. list[loop.list] \in Seq(Players) BY <1>3 DEF Kinds, TypesOK
<1>7. Contains(list[loop.list], loop.old) <=> loop.old \in ToSet(list[loop.list])
  BY <1>6, ContainsIs
<1>8. loop.old \notin Contents(clientConn[loop.old])
  <2>1. loop.old # NoPlayer BY <1>1 DEF Kinds, LoopKnown
  <2> QED BY <1>5, <1>7, <2>1 DEF Count, Quiet, LoopIs
<1>9. loop'.empty => Contents(clientConn[loop.old]) = {}
  BY <1>2, <1>5, EmptyList
<1>10. LoopIs'
  <2>1. players[entityId[loop.player]] \in {NoPlayer, loop.player, loop.old}
    BY <1>1 DEF Quiet, LoopIs
  <2>2. \A c : Contents(c)' = Contents(c) BY <1>1 DEF Contents, tables
  <2> HIDE DEF Contents
  <2> QED BY <1>1, <1>2, <1>3, <1>4, <1>8, <1>9, <2>1, <2>2 DEF LoopIs, tables
<1> QED BY <1>1, <1>10, LoopAloneQuiet

LEMMA AddMadeQuiet ==
  ASSUME Kinds, Quiet, AddMade
  PROVE  FiledOnce' /\ FiledIs' /\ MainIs' /\ LoopIs'
<1> DEFINE e == entityId[loop.made]
<1>1. /\ loop'.at \in {"register", "look"} /\ loop'.player = loop.made
      /\ players[e] \in {NoPlayer, loop.made, loop'.old}
      /\ loop'.at = "register" => loop'.old = NoPlayer
      /\ loop'.empty = FALSE
  BY DEF AddMade, Add, NoAdd
<1>2. UNCHANGED <<tables, main>> BY DEF AddMade
<1>3. LoopIs' BY <1>1, <1>2 DEF LoopIs, tables
<1> QED BY <1>2, <1>3, LoopAloneQuiet

LEMMA RegisterFailsQuiet ==
  ASSUME Kinds, Quiet
  PROVE  ~RegisterFails
BY DEF RegisterFails, Quiet, LoopIs

LEMMA ConstructQuiet ==
  ASSUME Kinds, Quiet, NEW p \in Players, NEW e \in Entities, NEW c \in Conns,
         Construct(p, e, c)
  PROVE  FiledOnce' /\ FiledIs' /\ MainIs' /\ LoopIs'
<1>1. /\ entityId[p] = NoEntity
      /\ entityId' = [entityId EXCEPT ![p] = e]
      /\ clientConn' = [clientConn EXCEPT ![p] = c]
      /\ UNCHANGED <<players, filed, list, main>>
  BY DEF Construct
<1>2. \A q \in Players : Built(q) =>
        clientConn'[q] = clientConn[q] /\ entityId'[q] = entityId[q]
  BY <1>1 DEF Built, Kinds, TypesOK
<1>3. \A q : Built(q) => clientConn'[q] = clientConn[q] /\ (Serves(q)' <=> Serves(q))
  BY <1>1, <1>2 DEF Built, Serves
<1>4. /\ \A l \in Lists : \A q \in ToSet(list[l]) : Built(q)
      /\ \A k \in Conns : Contents(k)' = Contents(k)
      /\ \A k \in Conns : \A q \in Contents(k) : Built(q)
  BY <1>1 DEF Kinds, TypesOK, TablesKnown, KnownList, Contents
<1>5. FiledOnce' BY <1>1 DEF Quiet, FiledOnce
<1>6. FiledIs'
  <2> HIDE DEF Contents
  <2> QED BY <1>1, <1>3, <1>4 DEF Quiet, FiledIs
<1>7. MainIs'
  <2>1. main.at \in {"find", "join"} => Built(main.player)
    BY DEF Kinds, MainKnown, BuiltOrNo
  <2>2. Moving => main.list \in Lists BY DEF Kinds, MainKnown
  <2>3. Moving => \A j \in DOMAIN list[main.list] : Built(list[main.list][j])
    BY <1>4, <2>2 DEF ToSet
  <2>4. main.at \in {"find", "join"} => Serves(main.player)'
    BY <1>1, <1>3, <2>1 DEF Quiet, MainIs, Serves
  <2>5. main.at = "join" => clientConn'[main.player] = main.old
    BY <1>3, <2>1 DEF Quiet, MainIs
  <2>6. Moving => \A q \in ToSet(list[main.list]) :
          Serves(q)' /\ clientConn'[q] \in {main.old, main.conn}
    BY <1>3, <1>4, <2>2 DEF Quiet, MainIs
  <2>7. main.at \in {"take", "move"} => \A j \in DOMAIN list[main.list] :
          j < main.i => clientConn'[list[main.list][j]] = main.conn
    BY <1>3, <2>3 DEF Quiet, MainIs, Moving
  <2>8. main.at = "file" => \A q \in ToSet(list[main.list]) : clientConn'[q] = main.conn
    BY <1>3, <1>4, <2>2 DEF Quiet, MainIs, Moving
  <2>9. /\ Moving => \A k \in Conns : filed[k] = main.list => k = main.old /\ main.at # "file"
        /\ main.at = "move" => /\ main.i \in DOMAIN list[main.list]
                               /\ main.player = list[main.list][main.i]
    BY DEF Quiet, MainIs
  <2> QED BY <1>1, <2>4, <2>5, <2>6, <2>7, <2>8, <2>9 DEF MainIs, Moving, Serves
<1>8. LoopIs'
  <2>1. /\ loop'.at \in {"register", "look"} /\ loop'.player = p
        /\ players[e] \in {NoPlayer, p, loop'.old}
        /\ loop'.at = "register" => loop'.old = NoPlayer
        /\ loop'.empty = FALSE
    BY DEF Construct, Add, NoAdd
  <2>2. entityId'[p] = e BY <1>1 DEF Kinds, TypesOK
  <2> QED BY <1>1, <2>1, <2>2 DEF LoopIs
<1> QED BY <1>5, <1>6, <1>7, <1>8

\* The old object is off its list, and nothing else has changed.
LEMMA TakeOffTables ==
  ASSUME Kinds, Quiet, TakeOff
  PROVE  /\ loop.at = "detach" /\ loop.old # NoPlayer /\ clientConn[loop.old] \in Conns
         /\ \A l \in Lists : l # loop.list => list'[l] = list[l]
         /\ \A k \in Conns : k # clientConn[loop.old] => Contents(k)' = Contents(k)
         /\ \A k \in Conns : k = clientConn[loop.old] =>
              Contents(k)' = Contents(k) \ {loop.old}
<1> DEFINE d == clientConn[loop.old]
           r == loop.list
<1>1. /\ loop.at = "detach" /\ r \in Lists /\ r = filed[d] /\ loop.old # NoPlayer
  BY DEF TakeOff, Kinds, LoopKnown, Quiet, LoopIs
<1>2. d \in Conns /\ (main.at # "idle" => d # main.conn /\ d # main.old)
  <2>1. d \in Conns
    BY <1>1, NullAssumption DEF Kinds, LoopKnown, BuiltOrNo, Built, TablesKnown
  <2> QED BY <1>1, <2>1, Apart DEF Quiet, Overlap
<1>3. UNCHANGED <<players, filed, entityId, clientConn, main>> BY DEF TakeOff
<1>4. /\ \A l \in Lists : l # r => list'[l] = list[l]
      /\ ToSet(list'[r]) = ToSet(list[r]) \ {loop.old}
  <2>1. PICK i \in DOMAIN list[r] :
          list[r][i] = loop.old /\ list' = [list EXCEPT ![r] = RemoveAt(list[r], i)]
    BY DEF TakeOff
  <2>2. list[r] \in Seq(Players) /\ IsInjective(list[r])
    BY <1>1 DEF Kinds, TablesKnown, KnownList
  <2>3. ToSet(RemoveAt(list[r], i)) = ToSet(list[r]) \ {loop.old}
    BY <2>1, <2>2, ListRemove
  <2> DEFINE s == RemoveAt(list[r], i)
  <2>4. list' = [list EXCEPT ![r] = s] BY <2>1
  <2>5. list \in [Lists -> Seq(Players)] BY DEF Kinds, TypesOK
  <2> HIDE DEF s, r
  <2>6. list'[r] = s /\ \A l \in Lists : l # r => list'[l] = list[l]
    BY <1>1, <2>4, <2>5
  <2> QED BY <2>3, <2>6 DEF s
<1>5. /\ \A k \in Conns : k # d => Contents(k)' = Contents(k)
      /\ \A k \in Conns : k = d => Contents(k)' = Contents(k) \ {loop.old}
  <2>1. r # NoList /\ \A k \in Conns : filed[k] # NoList => filed[k] \in Lists
    BY <1>1, ListsAssumption DEF Kinds, TypesOK
  <2>2. \A k \in Conns : k # d => filed[k] # r
    BY <1>1, <1>2, <2>1 DEF Quiet, FiledOnce
  <2> QED BY <1>1, <1>3, <1>4, <2>1, <2>2 DEF Contents
<1> QED BY <1>1, <1>2, <1>4, <1>5

LEMMA TakeOffQuiet ==
  ASSUME Kinds, Quiet, TakeOff
  PROVE  FiledOnce' /\ FiledIs' /\ MainIs' /\ LoopIs'
<1> DEFINE d == clientConn[loop.old]
           r == loop.list
<1>1. /\ loop.at = "detach" /\ r \in Lists /\ r = filed[d] /\ loop.old # NoPlayer
  BY DEF TakeOff, Kinds, LoopKnown, Quiet, LoopIs
<1>2. d \in Conns /\ (main.at # "idle" => d # main.conn /\ d # main.old)
  <2>1. d \in Conns
    BY <1>1, NullAssumption DEF Kinds, LoopKnown, BuiltOrNo, Built, TablesKnown
  <2> QED BY <1>1, <2>1, Apart DEF Quiet, Overlap
<1>3. UNCHANGED <<players, filed, entityId, clientConn, main>> BY DEF TakeOff
<1>4. /\ \A l \in Lists : l # r => list'[l] = list[l]
      /\ \A k \in Conns : k # d => Contents(k)' = Contents(k)
      /\ \A k \in Conns : k = d => Contents(k)' = Contents(k) \ {loop.old}
  BY TakeOffTables
<1>6. main.list \in Lists /\ Moving => list'[main.list] = list[main.list]
  <2>1. Moving => main.list # r
    BY <1>1, <1>2 DEF Quiet, MainIs, Moving
  <2> QED BY <1>4, <2>1
<1>7. FiledOnce' BY <1>3 DEF Quiet, FiledOnce
<1>8. FiledIs'
  <2>1. \A k \in Conns : \A q \in Contents(k)' : q \in Contents(k) BY <1>2, <1>4
  <2> HIDE DEF Contents
  <2> QED BY <1>3, <2>1 DEF Quiet, FiledIs, Serves
<1>9. MainIs'
  <2>1. Moving => main.list \in Lists BY DEF Kinds, MainKnown
  <2> QED BY <1>3, <1>6, <2>1 DEF Quiet, MainIs, Moving, Serves
<1>10. LoopIs'
  <2>1. /\ loop'.at = "count" /\ loop'.player = loop.player /\ loop'.old = loop.old
        /\ loop'.list = loop.list /\ loop'.empty = loop.empty /\ loop.empty = FALSE
    BY <1>1 DEF TakeOff, Kinds, TypesOK, Loop, LoopKnown
  <2>2. PICK k \in Conns : k = d BY <1>2
  <2>3. loop.old \notin Contents(k)'
    <3> HIDE DEF Contents
    <3> QED BY <1>4, <2>2
  <2>4. clientConn'[loop'.old] = k BY <1>3, <2>1, <2>2
  <2>5. loop'.old \notin Contents(clientConn[loop.old])'
    BY <2>1, <2>3, <2>4 DEF Contents
  <2> HIDE DEF Contents
  <2> QED BY <1>1, <1>3, <2>1, <2>5 DEF Quiet, LoopIs
<1> QED BY <1>7, <1>8, <1>9, <1>10

\* The main thread has a list of the objects on the old connection, and nothing
\* else has changed.
LEMMA FindTables ==
  ASSUME Kinds, Quiet, Find
  PROVE  LET old == clientConn[main.player]
         IN  /\ main.at = "find" /\ main.player \in Players /\ old \in Conns
             /\ main'.at = "join" /\ main'.old = old
             /\ main'.player = main.player /\ main'.conn = main.conn
             /\ \A k \in Conns : filed[k] = main'.list => k = old
             /\ \A k \in Conns : Contents(k)' = Contents(k)
             /\ ToSet(list'[main'.list]) = Contents(old)
<1> DEFINE old == clientConn[main.player]
           l == IF filed[old] = NoList THEN Fresh ELSE filed[old]
           has == IF filed[old] = NoList THEN <<>> ELSE list[l]
<1>1. main.at = "find" /\ Built(main.player) /\ old \in Conns
  BY NullAssumption DEF Kinds, TypesOK, TablesKnown, MainKnown, Find, Built, BuiltOrNo
<1>2. /\ l \in Lists /\ has = IF filed[old] = NoList THEN <<>> ELSE list[filed[old]]
      /\ \A k \in Conns : filed[k] = l => k = old
  <2>1. \A k \in Conns : filed[k] \in InUse BY DEF InUse
  <2>2. \A k \in Conns : filed[k] # Fresh BY <2>1, FreshList
  <2>3. \A k \in Conns : filed[k] \in Lists \cup {NoList} BY DEF Kinds, TypesOK
  <2>4. NoList \notin Lists BY ListsAssumption
  <2> QED BY <1>1, <2>2, <2>3, <2>4, FreshList DEF Quiet, FiledOnce
<1>3. /\ main' = [main EXCEPT !.at = "join", !.old = old, !.list = l]
      /\ list' = [list EXCEPT ![l] = has]
      /\ UNCHANGED <<players, filed, entityId, clientConn, loop>>
  BY DEF Find
<1>4. ToSet(has) = Contents(old) BY <1>2, EmptyList DEF Contents
<1>5. \A k \in Conns : Contents(k)' = Contents(k)
  <2>1. \A k \in Conns : filed[k] \in Lists \cup {NoList} BY DEF Kinds, TypesOK
  <2>2. list \in [Lists -> Seq(Players)] BY DEF Kinds, TypesOK
  <2>3. filed[old] # NoList => has = list[filed[old]] BY <1>2
  <2> HIDE DEF l, has, old
  <2>4. list'[l] = has /\ \A m \in Lists : m # l => list'[m] = list[m]
    BY <1>2, <1>3, <2>2
  <2>5. \A k \in Conns : filed[k] # NoList => list'[filed[k]] = list[filed[k]]
    BY <1>2, <2>1, <2>3, <2>4
  <2> QED BY <1>3, <2>5 DEF Contents
<1>6. ToSet(list'[l]) = Contents(old)
  <2>1. list \in [Lists -> Seq(Players)] BY DEF Kinds, TypesOK
  <2> HIDE DEF l, has, old
  <2>2. list'[l] = has BY <1>2, <1>3, <2>1
  <2> QED BY <1>4, <2>2
<1>7. /\ main'.at = "join" /\ main'.old = old /\ main'.list = l
      /\ main'.player = main.player /\ main'.conn = main.conn
  BY <1>3 DEF Kinds, TypesOK, Main
<1> HIDE DEF l, has
<1>8. \A m : m = l => ToSet(list'[m]) = Contents(old) BY <1>6
<1> QED BY <1>1, <1>2, <1>5, <1>7, <1>8 DEF Built

LEMMA FindQuiet ==
  ASSUME Kinds, Quiet, Find
  PROVE  FiledOnce' /\ FiledIs' /\ MainIs' /\ LoopIs'
<1> DEFINE old == clientConn[main.player]
<1>1. /\ main.at = "find" /\ old \in Conns
      /\ main'.at = "join" /\ main'.old = old
      /\ main'.player = main.player /\ main'.conn = main.conn
      /\ \A k \in Conns : filed[k] = main'.list => k = old
      /\ \A k \in Conns : Contents(k)' = Contents(k)
      /\ ToSet(list'[main'.list]) = Contents(old)
  BY FindTables
<1>3. UNCHANGED <<players, filed, entityId, clientConn, loop>> BY DEF Find
<1>8. FiledOnce' BY <1>3 DEF Quiet, FiledOnce
<1>9. FiledIs'
  <2> HIDE DEF Contents
  <2> QED BY <1>1, <1>3 DEF Quiet, FiledIs, Serves
<1>10. MainIs'
  <2>1. \A p \in Contents(old) : clientConn[p] = old /\ Serves(p)
    BY <1>1 DEF Quiet, FiledIs
  <2>2. Serves(main.player) BY <1>1 DEF Quiet, MainIs
  <2>3. \A k \in Conns : filed'[k] = main'.list => k = old BY <1>1, <1>3
  <2>4. \A p \in ToSet(list'[main'.list]) : clientConn'[p] = old /\ Serves(p)'
    BY <1>1, <1>3, <2>1 DEF Serves
  <2>5. Serves(main.player)' BY <1>1, <1>3, <2>2 DEF Serves
  <2>6. clientConn'[main.player] = old BY <1>3
  <2> HIDE DEF old
  <2> QED BY <1>1, <2>3, <2>4, <2>5, <2>6 DEF MainIs, Moving, Serves
<1>11. LoopIs'
  <2>1. (loop.at \in {"count", "register"} /\ loop.old # NoPlayer) \/ loop.empty =>
          clientConn[loop.old] \in Conns
    BY NullAssumption DEF Kinds, LoopKnown, BuiltOrNo, Built, TablesKnown
  <2> HIDE DEF Contents
  <2>2. (loop.at \in {"count", "register"} /\ loop.old # NoPlayer) \/ loop.empty =>
          Contents(clientConn[loop.old])' = Contents(clientConn[loop.old])
    BY <1>3, <1>1, <2>1 DEF Contents
  <2> QED BY <1>3, <2>2 DEF Quiet, LoopIs
<1> QED BY <1>8, <1>9, <1>10, <1>11

\* The object is on the main thread's list.
LEMMA JoinTables ==
  ASSUME Kinds, Quiet, Join
  PROVE  /\ main'.at = "take" /\ main'.i = 1 /\ main'.list = main.list
         /\ main'.conn = main.conn /\ main'.old = main.old
         /\ ToSet(list'[main.list]) = ToSet(list[main.list]) \cup {main.player}
         /\ \A k \in Conns : k # main.old => Contents(k)' = Contents(k)
         /\ \A k \in Conns : Contents(k)' \subseteq Contents(k) \cup {main.player}
<1> DEFINE s == list[main.list]
           r == IF Contains(s, main.player) THEN s ELSE Append(s, main.player)
<1>1. /\ main.at = "join" /\ main.list \in Lists /\ Built(main.player)
      /\ Serves(main.player) /\ clientConn[main.player] = main.old /\ KnownList(s)
  BY NullAssumption
     DEF Join, Quiet, MainIs, Kinds, TablesKnown, MainKnown, Moving, BuiltOrNo
<1>2. ToSet(r) = ToSet(s) \cup {main.player}
  BY <1>1, ListAppend DEF KnownList, Built
<1>3. UNCHANGED <<players, filed, entityId, clientConn, loop>> BY DEF Join
<1>4. ToSet(list'[main.list]) = ToSet(s) \cup {main.player}
      /\ \A l \in Lists : l # main.list => list'[l] = list[l]
  <2>1. list' = [list EXCEPT ![main.list] = r] BY DEF Join
  <2>2. list \in [Lists -> Seq(Players)] BY DEF Kinds, TypesOK
  <2> HIDE DEF r, s
  <2> QED BY <1>1, <1>2, <2>1, <2>2
<1>5. /\ main'.at = "take" /\ main'.i = 1 /\ main'.list = main.list
      /\ main'.conn = main.conn /\ main'.old = main.old
  BY DEF Join, Kinds, TypesOK, Main
<1>6. /\ \A k \in Conns : filed[k] = main.list => k = main.old
      /\ \A k \in Conns : filed[k] # NoList => filed[k] \in Lists
  BY <1>1 DEF Quiet, MainIs, Moving, Kinds, TypesOK
<1>7. \A k \in Conns : k # main.old => Contents(k)' = Contents(k)
  BY <1>3, <1>4, <1>6 DEF Contents
<1>8. \A k \in Conns : \A q \in Contents(k)' : q \in Contents(k) \/ q = main.player
  BY <1>3, <1>4, <1>6 DEF Contents
<1> QED BY <1>4, <1>5, <1>7, <1>8

LEMMA JoinQuiet ==
  ASSUME Kinds, Quiet, Join
  PROVE  FiledOnce' /\ FiledIs' /\ MainIs' /\ LoopIs'
<1> DEFINE s == list[main.list]
<1>1. /\ main.at = "join" /\ main.list \in Lists /\ Built(main.player)
      /\ Serves(main.player) /\ clientConn[main.player] = main.old /\ KnownList(s)
  BY NullAssumption
     DEF Join, Quiet, MainIs, Kinds, TablesKnown, MainKnown, Moving, BuiltOrNo
<1>3. UNCHANGED <<players, filed, entityId, clientConn, loop>> BY DEF Join
<1>4. /\ main'.at = "take" /\ main'.i = 1 /\ main'.list = main.list
      /\ main'.conn = main.conn /\ main'.old = main.old
      /\ ToSet(list'[main.list]) = ToSet(s) \cup {main.player}
      /\ \A k \in Conns : k # main.old => Contents(k)' = Contents(k)
      /\ \A k \in Conns : Contents(k)' \subseteq Contents(k) \cup {main.player}
  BY JoinTables
<1>6. \A k \in Conns : filed[k] = main.list => k = main.old
  BY <1>1 DEF Quiet, MainIs, Moving
<1>8. FiledOnce' BY <1>3 DEF Quiet, FiledOnce
<1>9. FiledIs'
  <2> HIDE DEF Contents
  <2> QED BY <1>1, <1>3, <1>4, <1>4 DEF Quiet, FiledIs, Serves
<1>10. MainIs'
  <2>1. \A q \in ToSet(s) \cup {main.player} :
          Serves(q) /\ clientConn[q] \in {main.old, main.conn}
    BY <1>1 DEF Quiet, MainIs, Moving
  <2>2. \A q \in ToSet(list'[main.list]) :
          Serves(q)' /\ clientConn'[q] \in {main.old, main.conn}
    BY <1>3, <1>4, <2>1 DEF Serves
  <2>3. list'[main.list] \in Seq(Players)
    BY <1>1, JoinKinds DEF Kinds, TypesOK
  <2>4. \A j \in DOMAIN list'[main.list] : ~(j < 1) BY <2>3
  <2>5. \A k \in Conns : filed'[k] = main.list => k = main.old BY <1>3, <1>6
  <2> QED BY <1>4, <2>2, <2>4, <2>5 DEF MainIs, Moving, Serves
<1>11. LoopIs'
  <2>1. loop.at # "idle" /\ loop.old # NoPlayer =>
          clientConn[loop.old] \in Conns /\ clientConn[loop.old] # main.old
    BY <1>1, Apart DEF Quiet, Overlap
  <2>2. \A k \in Conns : k # main.old => Contents(k)' = Contents(k) BY <1>4
  <2>3. loop.empty => loop.at # "idle" /\ loop.old # NoPlayer BY DEF Kinds, LoopKnown
  <2>4. loop.at # "idle" /\ loop.old # NoPlayer =>
          Contents(clientConn[loop.old])' = Contents(clientConn[loop.old])
    BY <1>3, <2>1, <2>2 DEF Contents
  <2> HIDE DEF Contents
  <2> QED BY <1>3, <2>3, <2>4 DEF Quiet, LoopIs
<1> QED BY <1>8, <1>9, <1>10, <1>11

LEMMA MoveQuiet ==
  ASSUME Kinds, Quiet, Move
  PROVE  FiledOnce' /\ FiledIs' /\ MainIs' /\ LoopIs'
<1> DEFINE p == main.player
           s == list[main.list]
<1>1. /\ main.at = "move" /\ p \in Players /\ p # NoPlayer /\ main.list \in Lists
      /\ main.i \in Nat /\ main.i \in DOMAIN s /\ p = s[main.i]
  BY DEF Move, Kinds, TypesOK, Main, MainKnown, Moving, Built, BuiltOrNo, Quiet, MainIs
<1>2. /\ clientConn' = [clientConn EXCEPT ![p] = main.conn]
      /\ UNCHANGED <<players, filed, list, entityId, loop>>
  BY DEF Move
<1>3. clientConn'[p] = main.conn /\ \A q : q # p => clientConn'[q] = clientConn[q]
  BY <1>1, <1>2 DEF Kinds, TypesOK
<1>4. /\ main'.at = "take" /\ main'.i = main.i + 1 /\ main'.list = main.list
      /\ main'.conn = main.conn /\ main'.old = main.old
  BY DEF Move, Kinds, TypesOK, Main
<1>5. s \in Seq(Players) /\ p \in ToSet(s)
  BY <1>1 DEF Kinds, TypesOK, ToSet
<1>6. clientConn[p] \in {main.old, main.conn} BY <1>1, <1>5 DEF Quiet, MainIs, Moving
<1>7. \A k : Contents(k)' = Contents(k) BY <1>2 DEF Contents
<1> HIDE DEF p, s
<1>8. FiledOnce' BY <1>2 DEF Quiet, FiledOnce
<1>9. FiledIs'
  <2> HIDE DEF Contents
  <2> SUFFICES ASSUME NEW k \in Conns, NEW q \in Contents(k)
               PROVE  /\ clientConn'[q] # k =>
                           k = main.old /\ clientConn'[q] = main.conn
                      /\ Serves(q)
    BY <1>2, <1>4, <1>7 DEF FiledIs, Serves
  <2>1. Serves(q) BY <1>1 DEF Quiet, FiledIs
  <2>2. clientConn[q] # k => k = main.old /\ clientConn[q] = main.conn
    BY <1>1 DEF Quiet, FiledIs
  <2>3. CASE q = p BY <1>3, <1>6, <2>1, <2>2, <2>3
  <2>4. CASE q # p BY <1>3, <2>1, <2>2, <2>4
  <2> QED BY <2>3, <2>4
<1>10. MainIs'
  <2>1. \A q \in ToSet(s) : Serves(q)' /\ clientConn'[q] \in {main.old, main.conn}
    BY <1>1, <1>2, <1>3 DEF Quiet, MainIs, Moving, Serves, s
  <2>2. \A j \in DOMAIN s : j < main.i + 1 => clientConn'[s[j]] = main.conn
    <3> SUFFICES ASSUME NEW j \in DOMAIN s, j < main.i + 1
                 PROVE  clientConn'[s[j]] = main.conn
      OBVIOUS
    <3>1. j < main.i \/ j = main.i BY <1>1, <1>5
    <3>2. j < main.i => clientConn[s[j]] = main.conn
      BY <1>1 DEF Quiet, MainIs, s
    <3> QED BY <1>1, <1>3, <3>1, <3>2
  <2>3. \A k \in Conns : filed'[k] = main.list => k = main.old
    BY <1>1, <1>2 DEF Quiet, MainIs, Moving
  <2>4. list'[main'.list] = s BY <1>2, <1>4 DEF s
  <2> QED BY <1>2, <1>4, <2>1, <2>2, <2>3, <2>4 DEF MainIs, Moving, Serves
<1>11. LoopIs'
  <2>1. loop.at # "idle" /\ loop.old # NoPlayer => clientConn[loop.old] # clientConn[p]
    BY <1>1, Apart DEF Quiet, Overlap, p
  <2>2. loop.at # "idle" /\ loop.old # NoPlayer =>
          clientConn'[loop.old] = clientConn[loop.old]
    BY <1>3, <2>1
  <2>3. loop.at \in {"detach", "count"} \/ loop.empty =>
          loop.at # "idle" /\ loop.old # NoPlayer
    BY DEF Kinds, LoopKnown
  <2>4. loop.at # "idle" /\ loop.old # NoPlayer =>
          Contents(clientConn[loop.old])' = Contents(clientConn[loop.old])
    BY <1>2, <2>2 DEF Contents
  <2> HIDE DEF Contents
  <2> QED BY <1>2, <2>2, <2>3, <2>4 DEF Quiet, LoopIs
<1> QED BY <1>8, <1>9, <1>10, <1>11

\* What is filed under the connections whose entries a thread leaves alone.
LEMMA KeptContents ==
  ASSUME Kinds, Kinds', list' = Kept(list)
  PROVE  \A k \in Conns : filed'[k] = filed[k] => Contents(k)' = Contents(k)
<1>1. list \in [Lists -> Seq(Players)] BY DEF Kinds, TypesOK
<1>2. \A k \in Conns : filed'[k] # NoList => list'[filed'[k]] = list[filed'[k]]
  BY <1>1, KeptIs
<1> QED BY <1>2 DEF Contents

\* The main thread changes the entry of one connection k.
LEMMA FilingLoopIs ==
  ASSUME Kinds, Kinds', Quiet, list' = Kept(list),
         UNCHANGED <<players, entityId, clientConn, loop>>,
         main.at # "idle", NEW k \in {main.conn, main.old},
         \A c \in Conns : c # k => filed'[c] = filed[c]
  PROVE  LoopIs'
<1>1. loop.at # "idle" /\ loop.old # NoPlayer =>
        /\ clientConn[loop.old] \in Conns
        /\ clientConn[loop.old] # main.conn /\ clientConn[loop.old] # main.old
  BY Apart DEF Quiet, Overlap
<1>2. loop.at # "idle" /\ loop.old # NoPlayer =>
        /\ filed'[clientConn[loop.old]] = filed[clientConn[loop.old]]
        /\ Contents(clientConn[loop.old])' = Contents(clientConn[loop.old])
  <2>1. \A c \in Conns : filed'[c] = filed[c] => Contents(c)' = Contents(c)
    BY KeptContents
  <2>2. SUFFICES ASSUME loop.at # "idle", loop.old # NoPlayer
                 PROVE  /\ filed'[clientConn[loop.old]] = filed[clientConn[loop.old]]
                        /\ Contents(clientConn[loop.old])' = Contents(clientConn[loop.old])
    OBVIOUS
  <2>3. PICK c \in Conns : c = clientConn[loop.old] BY <1>1, <2>2
  <2>4. c # k BY <1>1, <2>2, <2>3
  <2>5. filed'[c] = filed[c] /\ Contents(c)' = Contents(c) BY <2>1, <2>4
  <2>6. clientConn'[loop'.old] = c BY <2>3
  <2> QED BY <2>3, <2>5, <2>6 DEF Contents
<1>3. loop.at \in {"detach", "count"} \/ loop.empty =>
        loop.at # "idle" /\ loop.old # NoPlayer
  BY DEF Kinds, LoopKnown
<1> HIDE DEF Contents
<1> QED BY <1>2, <1>3 DEF Quiet, LoopIs

\* The main thread has its list, and nothing is filed under the old connection.
LEMMA UnfileTables ==
  ASSUME Kinds, Unfile
  PROVE  /\ Kinds' /\ main'.at = "file" /\ main'.list = main.list
         /\ main'.conn = main.conn /\ main'.old = main.old
         /\ list'[main.list] = list[main.list]
         /\ \A k \in Conns : k # main.old => filed'[k] = filed[k] /\ Contents(k)' = Contents(k)
         /\ \A k \in Conns : k = main.old => filed'[k] = NoList /\ Contents(k)' = {}
<1> DEFINE s == list[main.list]
<1>1. /\ main.at = "take" /\ main.i > Len(s) /\ main.i \in Nat /\ s \in Seq(Players)
      /\ main.old \in Conns /\ main.list \in Lists /\ main.list # NoList
  BY ListsAssumption DEF Unfile, Kinds, TypesOK, Main, MainKnown, Moving
<1>2. /\ filed' = [filed EXCEPT ![main.old] = NoList] /\ list' = Kept(list)
      /\ UNCHANGED <<players, entityId, clientConn, loop>>
  BY DEF Unfile
<1>3. /\ main'.at = "file" /\ main'.list = main.list
      /\ main'.conn = main.conn /\ main'.old = main.old
  BY DEF Unfile, Kinds, TypesOK, Main
<1>4. /\ filed'[main.old] = NoList
      /\ \A k \in Conns : k # main.old => filed'[k] = filed[k]
  BY <1>1, <1>2 DEF Kinds, TypesOK
<1>5. Kinds' BY FilingKinds
<1>6. list'[main.list] = s
  <2>1. list \in [Lists -> Seq(Players)] BY DEF Kinds, TypesOK
  <2> QED BY <1>1, <1>2, <1>3, <1>5, <2>1, KeptIs
<1>7. \A k \in Conns : k # main.old => Contents(k)' = Contents(k)
  BY <1>2, <1>4, <1>5, KeptContents
<1>8. \A k \in Conns : k = main.old => Contents(k)' = {} BY <1>4 DEF Contents
<1> QED BY <1>3, <1>4, <1>5, <1>6, <1>7, <1>8

LEMMA UnfileQuiet ==
  ASSUME Kinds, Quiet, Unfile
  PROVE  FiledOnce' /\ FiledIs' /\ MainIs' /\ LoopIs'
<1> DEFINE s == list[main.list]
<1>1. /\ main.at = "take" /\ main.i > Len(s) /\ main.i \in Nat /\ s \in Seq(Players)
      /\ main.old \in Conns /\ main.list \in Lists /\ main.list # NoList
  BY ListsAssumption DEF Unfile, Kinds, TypesOK, Main, MainKnown, Moving
<1>2. /\ filed' = [filed EXCEPT ![main.old] = NoList] /\ list' = Kept(list)
      /\ UNCHANGED <<players, entityId, clientConn, loop>>
  BY DEF Unfile
<1>3. /\ Kinds' /\ main'.at = "file" /\ main'.list = main.list
      /\ main'.conn = main.conn /\ main'.old = main.old
      /\ list'[main.list] = s
      /\ \A k \in Conns : k # main.old => filed'[k] = filed[k] /\ Contents(k)' = Contents(k)
      /\ \A k \in Conns : k = main.old => filed'[k] = NoList /\ Contents(k)' = {}
  BY UnfileTables
<1>7. FiledOnce' BY <1>3 DEF Quiet, FiledOnce
<1>8. FiledIs'
  <2> HIDE DEF Contents
  <2> QED BY <1>1, <1>2, <1>3 DEF Quiet, FiledIs, Serves
<1>9. MainIs'
  <2>1. \A q \in ToSet(s) : Serves(q)' BY <1>1, <1>2 DEF Quiet, MainIs, Moving, Serves
  <2>2. \A q \in ToSet(s) : clientConn[q] = main.conn
    <3>1. \A j \in DOMAIN s : j < main.i BY <1>1
    <3>2. \A j \in DOMAIN s : clientConn[s[j]] = main.conn
      BY <1>1, <3>1 DEF Quiet, MainIs
    <3> QED BY <3>2 DEF ToSet
  <2>3. \A k \in Conns : filed'[k] # main.list
    BY <1>1, <1>3 DEF Quiet, MainIs, Moving
  <2> HIDE DEF s
  <2> QED BY <1>2, <1>3, <2>1, <2>2, <2>3 DEF MainIs, Moving, Serves
<1>10. LoopIs' BY <1>1, <1>2, <1>3, FilingLoopIs
<1> QED BY <1>7, <1>8, <1>9, <1>10

\* The main thread's list is filed under the new connection.
LEMMA FileTables ==
  ASSUME Kinds, File
  PROVE  /\ Kinds' /\ main'.at = "idle" /\ filed'[main.conn] = main.list
         /\ \A k \in Conns : k # main.conn => filed'[k] = filed[k] /\ Contents(k)' = Contents(k)
         /\ \A k \in Conns : k = main.conn => Contents(k)' = ToSet(list[main.list])
<1> DEFINE s == list[main.list]
<1>1. /\ main.conn \in Conns /\ main.old \in Conns
      /\ main.list \in Lists /\ main.list # NoList /\ Moving /\ s \in Seq(Players)
      /\ main.at = "file" \/ (main.at = "take" /\ main.old = main.conn)
  BY ListsAssumption DEF File, Kinds, TypesOK, MainKnown, Moving
<1>2. /\ filed' = [filed EXCEPT ![main.conn] = main.list] /\ list' = Kept(list)
      /\ UNCHANGED <<players, entityId, clientConn, loop>>
  BY DEF File
<1>3. main'.at = "idle" BY DEF File, NoCall
<1>4. /\ filed'[main.conn] = main.list
      /\ \A k \in Conns : k # main.conn => filed'[k] = filed[k]
  BY <1>1, <1>2 DEF Kinds, TypesOK
<1>5. Kinds' BY FilingKinds
<1>6. list'[main.list] = s
  <2>1. list \in [Lists -> Seq(Players)] BY DEF Kinds, TypesOK
  <2>2. list'[filed'[main.conn]] = list[filed'[main.conn]]
    BY <1>1, <1>2, <1>4, <1>5, <2>1, KeptIs
  <2> QED BY <1>4, <2>2
<1>7. \A k \in Conns : k # main.conn => Contents(k)' = Contents(k)
  BY <1>2, <1>4, <1>5, KeptContents
<1>8. \A k \in Conns : k = main.conn => Contents(k)' = ToSet(s)
  BY <1>1, <1>4, <1>6 DEF Contents
<1> QED BY <1>3, <1>4, <1>5, <1>7, <1>8

LEMMA FileQuiet ==
  ASSUME Kinds, Quiet, File
  PROVE  FiledOnce' /\ FiledIs' /\ MainIs' /\ LoopIs'
<1> DEFINE s == list[main.list]
<1>1. /\ main.conn \in Conns /\ main.old \in Conns
      /\ main.list \in Lists /\ main.list # NoList /\ Moving /\ s \in Seq(Players)
      /\ main.at = "file" \/ (main.at = "take" /\ main.old = main.conn)
  BY ListsAssumption DEF File, Kinds, TypesOK, MainKnown, Moving
<1>2. /\ filed' = [filed EXCEPT ![main.conn] = main.list] /\ list' = Kept(list)
      /\ UNCHANGED <<players, entityId, clientConn, loop>>
  BY DEF File
<1>3. /\ Kinds' /\ main'.at = "idle" /\ filed'[main.conn] = main.list
      /\ \A k \in Conns : k # main.conn => filed'[k] = filed[k] /\ Contents(k)' = Contents(k)
      /\ \A k \in Conns : k = main.conn => Contents(k)' = ToSet(s)
  BY FileTables
<1>7. \A k \in Conns : k # main.conn => filed[k] # main.list
  BY <1>1 DEF Quiet, MainIs
<1>8. FiledOnce' BY <1>1, <1>3, <1>7 DEF Quiet, FiledOnce
<1>9. FiledIs'
  <2>3. \A q \in ToSet(s) : Serves(q) /\ clientConn[q] = main.conn
    BY <1>1 DEF Quiet, MainIs
  <2>4. \A k \in Conns : k # main.conn => \A q \in Contents(k) :
          Serves(q) /\ clientConn[q] = k
    BY <1>1 DEF Quiet, FiledIs
  <2> HIDE DEF Contents, s
  <2> QED BY <1>2, <1>3, <2>3, <2>4 DEF FiledIs, Serves
<1>10. MainIs' BY <1>3 DEF MainIs, Moving
<1>11. LoopIs' BY <1>1, <1>2, <1>3, FilingLoopIs DEF Moving
<1> QED BY <1>8, <1>9, <1>10, <1>11

\* Nothing is filed under the connection whose client left.
LEMMA DelListTables ==
  ASSUME Kinds, DelList
  PROVE  /\ Kinds' /\ main'.at = "idle"
         /\ \A k \in Conns : k # main.conn => filed'[k] = filed[k] /\ Contents(k)' = Contents(k)
         /\ \A k \in Conns : k = main.conn => filed'[k] = NoList /\ Contents(k)' = {}
<1>1. main.at = "next" /\ main.conn \in Conns BY DEF DelList, Kinds, MainKnown
<1>2. /\ filed' = [filed EXCEPT ![main.conn] = NoList] /\ list' = Kept(list)
      /\ UNCHANGED <<players, entityId, clientConn, loop>>
  BY DEF DelList
<1>3. main'.at = "idle" BY DEF DelList, NoCall
<1>4. /\ filed'[main.conn] = NoList
      /\ \A k \in Conns : k # main.conn => filed'[k] = filed[k]
  BY <1>1, <1>2 DEF Kinds, TypesOK
<1>5. Kinds' BY FilingKinds
<1>6. \A k \in Conns : k # main.conn => Contents(k)' = Contents(k)
  BY <1>2, <1>4, <1>5, KeptContents
<1>7. \A k \in Conns : k = main.conn => Contents(k)' = {} BY <1>4 DEF Contents
<1> QED BY <1>3, <1>4, <1>5, <1>6, <1>7

LEMMA DelListQuiet ==
  ASSUME Kinds, Quiet, DelList
  PROVE  FiledOnce' /\ FiledIs' /\ MainIs' /\ LoopIs'
<1>1. main.at = "next" /\ main.conn \in Conns BY DEF DelList, Kinds, MainKnown
<1>2. /\ filed' = [filed EXCEPT ![main.conn] = NoList] /\ list' = Kept(list)
      /\ UNCHANGED <<players, entityId, clientConn, loop>>
  BY DEF DelList
<1>3. /\ Kinds' /\ main'.at = "idle"
      /\ \A k \in Conns : k # main.conn => filed'[k] = filed[k] /\ Contents(k)' = Contents(k)
      /\ \A k \in Conns : k = main.conn => filed'[k] = NoList /\ Contents(k)' = {}
  BY DelListTables
<1>6. FiledOnce' BY <1>3 DEF Quiet, FiledOnce
<1>7. FiledIs'
  <2> HIDE DEF Contents
  <2> QED BY <1>1, <1>2, <1>3 DEF Quiet, FiledIs, Serves
<1>8. MainIs' BY <1>3 DEF MainIs, Moving
<1>9. LoopIs' BY <1>1, <1>2, <1>3, FilingLoopIs
<1> QED BY <1>6, <1>7, <1>8, <1>9

LEMMA DelPlayerQuiet ==
  ASSUME Kinds, Quiet, DelPlayer
  PROVE  FiledOnce' /\ FiledIs' /\ MainIs' /\ LoopIs'
<1> DEFINE p == main.player
<1>1. main.at = "delete" /\ Built(p) /\ clientConn[p] = main.conn
  BY DEF DelPlayer, Kinds, MainKnown, BuiltOrNo
<1>2. /\ UNCHANGED <<filed, list, entityId, clientConn, loop>>
      /\ main'.at = "next" /\ main'.conn = main.conn
  BY DEF DelPlayer, Kinds, TypesOK, Main
<1>3. \A e \in Entities : players'[e] = players[e] \/ (players[e] = p /\ players'[e] = NoPlayer)
  BY DEF DelPlayer, Serves, Kinds, TypesOK
<1>4. \A q : Built(q) => entityId[q] \in Entities
  BY DEF Built, Kinds, TypesOK
<1>5. FiledOnce' BY <1>2 DEF Quiet, FiledOnce
<1>6. FiledIs'
  <2>1. \A k : Contents(k)' = Contents(k) BY <1>2 DEF Contents
  <2>2. \A k \in Conns : \A q \in Contents(k) : Built(q)
    BY DEF Kinds, TypesOK, TablesKnown, KnownList, Contents
  <2> HIDE DEF Contents
  <2>3. \A k \in Conns : \A q \in Contents(k) : clientConn[q] = k
    BY <1>1 DEF Quiet, FiledIs
  <2>4. \A k \in Conns : \A q \in Contents(k) : Serves(q)' \/ k = main.conn
    <3> SUFFICES ASSUME NEW k \in Conns, NEW q \in Contents(k), k # main.conn
                 PROVE  Serves(q)'
      OBVIOUS
    <3>1. Serves(q) /\ q # p BY <1>1, <2>3 DEF Quiet, FiledIs
    <3>2. entityId[q] \in Entities BY <1>4, <2>2
    <3> QED BY <1>2, <1>3, <3>1, <3>2 DEF Serves
  <2> QED BY <1>1, <1>2, <2>1, <2>3, <2>4 DEF FiledIs
<1>7. MainIs' BY <1>2 DEF MainIs, Moving
<1>8. LoopIs'
  <2>1. loop.at # "idle" => entityId[loop.player] \in Entities
    BY <1>4 DEF Kinds, LoopKnown, BuiltOrNo
  <2>2. loop.at # "idle" =>
          players'[entityId[loop.player]] \in {NoPlayer, loop.player, loop.old}
    BY <1>3, <2>1 DEF Quiet, LoopIs
  <2>3. Contents(clientConn[loop.old])' = Contents(clientConn[loop.old])
    BY <1>2 DEF Contents
  <2> HIDE DEF Contents
  <2> QED BY <1>2, <2>2, <2>3 DEF Quiet, LoopIs
<1> QED BY <1>5, <1>6, <1>7, <1>8

\* What Register does to the tables, when no call that overlaps is about the same
\* connection: p is added to what is filed under its connection.
LEMMA RegisterTables ==
  ASSUME Kinds, Quiet, Register
  PROVE  LET p == loop.player
             c == clientConn[p]
         IN  /\ p \in Players /\ Built(p) /\ c \in Conns
             /\ players' = [players EXCEPT ![entityId[p]] = p]
             /\ \A k \in Conns : k # c => Contents(k)' = Contents(k)
             /\ \A k \in Conns : k = c => Contents(k)' = Contents(k) \cup {p}
             /\ \A k \in Conns : k # c => filed'[k] \in {filed[k], NoList}
             /\ filed'[c] \notin {NoList, main.list}
             /\ \A k \in Conns : filed[k] = filed'[c] => k = c
             /\ main.list # NoList => list'[main.list] = list[main.list]
<1> DEFINE p == loop.player
           c == clientConn[p]
           l == IF Dropped[c] = NoList THEN Fresh ELSE Dropped[c]
           has == IF Dropped[c] = NoList THEN <<>> ELSE list[l]
           r == IF Contains(has, p) THEN has ELSE Append(has, p)
           lists == [list EXCEPT ![l] = r]
<1>1. /\ p \in Players /\ Built(p) /\ c \in Conns /\ l \in Lists
      /\ KnownList(r) /\ Dropped \in [Conns -> Lists \cup {NoList}]
  BY RegisterIs
<1>2. /\ loop.at = "register"
      /\ players' = [players EXCEPT ![entityId[p]] = p]
      /\ filed' = [Dropped EXCEPT ![c] = l]
      /\ list' = Kept(lists)
      /\ UNCHANGED <<entityId, clientConn, main>>
  BY DEF Register
<1>3. Kinds' BY RegisterKinds
<1>4. \A k \in Conns : Dropped[k] = filed[k] \/ (Dropped[k] = NoList /\ Contents(k) = {})
  BY DEF Dropped, Quiet, LoopIs, Kinds, TypesOK
\* The list that p is put on is that of its connection, or a new one.
<1>5. /\ \A k \in Conns : filed[k] = l => k = c
      /\ main.list # l /\ l # NoList
      /\ has = <<>> \/ (has = list[l] /\ filed[c] = l)
  <2>1. NoList \notin Lists BY ListsAssumption
  <2>2. CASE Dropped[c] = NoList
    <3>1. l = Fresh /\ has = <<>> BY <2>2
    <3>2. \A k \in Conns : filed[k] \in InUse BY DEF InUse
    <3>3. main.list \in InUse BY DEF InUse
    <3> QED BY <1>1, <2>1, <3>1, <3>2, <3>3, FreshList
  <2>3. CASE Dropped[c] # NoList
    <3>1. l = filed[c] /\ has = list[l] BY <1>1, <1>4, <2>3
    <3>2. \A k \in Conns : filed[k] = l => k = c
      BY <1>1, <2>1, <3>1 DEF Quiet, FiledOnce
    <3>3. main.list # l
      <4>1. SUFFICES ASSUME main.list = l PROVE FALSE OBVIOUS
      <4>2. Moving BY <1>1, <2>1, <4>1 DEF Kinds, MainKnown
      <4>3. c = main.old BY <1>1, <3>1, <4>1, <4>2 DEF Quiet, MainIs
      <4>4. Overlap BY <1>2, <4>2 DEF Overlap, Moving
      <4>5. p # NoPlayer BY <1>1, NullAssumption
      <4> QED BY <4>3, <4>4, <4>5, Apart DEF Quiet
    <3> QED BY <1>1, <2>1, <3>1, <3>2, <3>3
  <2> QED BY <2>2, <2>3
<1>13. \A k \in Conns : k = c => ToSet(has) = Contents(k)
  <2>1. CASE Dropped[c] = NoList
    <3>1. ToSet(has) = {} BY <2>1, EmptyList
    <3>2. Contents(c) = {} BY <1>1, <1>4, <2>1 DEF Contents
    <3> QED BY <3>1, <3>2
  <2>2. CASE Dropped[c] # NoList
    <3>1. l = filed[c] /\ has = list[filed[c]] /\ filed[c] # NoList
      BY <1>1, <1>4, <2>2
    <3> QED BY <3>1 DEF Contents
  <2> QED BY <2>1, <2>2
<1>6. /\ filed'[c] = l
      /\ \A k \in Conns : k # c => filed'[k] = Dropped[k]
  BY <1>1, <1>2
<1>7. ToSet(r) = ToSet(has) \cup {p}
  <2>1. KnownList(has)
    <3>1. KnownList(list[l]) BY <1>1 DEF Kinds, TablesKnown
    <3> QED BY <1>5, <3>1, KnownEmpty
  <2> HIDE DEF has
  <2> QED BY <1>1, <2>1, ListAppend DEF KnownList
<1> HIDE DEF l, has, r
<1>8. lists[l] = r /\ \A m \in Lists : m # l => lists[m] = list[m]
  BY <1>1 DEF Kinds, TypesOK
<1>9. /\ \A k \in Conns : filed'[k] # NoList => list'[filed'[k]] = lists[filed'[k]]
      /\ main'.list # NoList => list'[main'.list] = lists[main'.list]
  <2>1. lists \in [Lists -> Seq(Players)]
    BY <1>1, OneListSet DEF Kinds
  <2> HIDE DEF lists
  <2> QED BY <1>2, <1>3, <2>1, KeptIs
<1> HIDE DEF lists, c, p
<1>10. \A k \in Conns : filed[k] \in Lists \cup {NoList} BY DEF Kinds, TypesOK
<1>11. \A k \in Conns : k # c => Contents(k)' = Contents(k)
  <2> SUFFICES ASSUME NEW k \in Conns, k # c PROVE Contents(k)' = Contents(k)
    OBVIOUS
  <2>1. CASE filed'[k] = NoList
    <3>1. Contents(k)' = {} BY <2>1 DEF Contents
    <3>2. filed[k] = NoList \/ Contents(k) = {} BY <1>4, <1>6, <2>1
    <3> QED BY <3>1, <3>2 DEF Contents
  <2>2. CASE filed'[k] # NoList
    <3>1. filed'[k] = filed[k] BY <1>4, <1>6, <2>2
    <3>2. filed[k] \in Lists /\ filed[k] # l BY <1>5, <1>10, <2>2, <3>1
    <3>3. list'[filed'[k]] = list[filed[k]] BY <1>8, <1>9, <2>2, <3>1, <3>2
    <3> QED BY <2>2, <3>1, <3>3 DEF Contents
  <2> QED BY <2>1, <2>2
<1>12. \A k \in Conns : k = c => Contents(k)' = Contents(k) \cup {p}
  <2> SUFFICES ASSUME NEW k \in Conns, k = c
               PROVE  Contents(k)' = Contents(k) \cup {p}
    OBVIOUS
  <2>1. list'[l] = r BY <1>1, <1>5, <1>6, <1>8, <1>9
  <2>2. Contents(k)' = ToSet(has) \cup {p} BY <1>5, <1>6, <1>7, <2>1 DEF Contents
  <2>3. ToSet(has) = Contents(k) BY <1>13
  <2> QED BY <2>2, <2>3
<1>14. main.list # NoList => list'[main.list] = list[main.list]
  <2>1. main.list \in Lists \cup {NoList} BY DEF Kinds, TypesOK, Main
  <2> QED BY <1>2, <1>5, <1>8, <1>9, <2>1
<1>15. \A k \in Conns : k # c => filed'[k] \in {filed[k], NoList}
  BY <1>4, <1>6
<1> QED BY <1>1, <1>2, <1>5, <1>6, <1>11, <1>12, <1>14, <1>15 DEF p, c

LEMMA RegisterQuiet ==
  ASSUME Kinds, Quiet, Register
  PROVE  FiledOnce' /\ FiledIs' /\ MainIs' /\ LoopIs'
<1> DEFINE p == loop.player
           c == clientConn[p]
<1>1. /\ p \in Players /\ Built(p) /\ c \in Conns
      /\ \A k \in Conns : k # c => Contents(k)' = Contents(k)
      /\ \A k \in Conns : k = c => Contents(k)' = Contents(k) \cup {p}
      /\ \A k \in Conns : k # c => filed'[k] \in {filed[k], NoList}
      /\ filed'[c] \notin {NoList, main.list}
      /\ \A k \in Conns : filed[k] = filed'[c] => k = c
      /\ main.list # NoList => list'[main.list] = list[main.list]
  BY RegisterTables
<1>2. /\ loop.at = "register"
      /\ players' = [players EXCEPT ![entityId[p]] = p]
      /\ UNCHANGED <<entityId, clientConn, main>>
  BY DEF Register
<1> HIDE DEF c
\* Nobody on a list, and not the object the main thread is about, is the one that
\* p takes the place of.
<1>13. loop.old # NoPlayer =>
         /\ \A k \in Conns : loop.old \notin Contents(k)
         /\ Moving => loop.old \notin ToSet(list[main.list])
         /\ main.at \in {"find", "join"} => main.player # loop.old
  <2> SUFFICES ASSUME loop.old # NoPlayer
               PROVE  /\ \A k \in Conns : loop.old \notin Contents(k)
                      /\ Moving => loop.old \notin ToSet(list[main.list])
                      /\ main.at \in {"find", "join"} => main.player # loop.old
    OBVIOUS
  <2>1. main.at # "idle" =>
          /\ clientConn[loop.old] # main.conn /\ clientConn[loop.old] # main.old
          /\ main.player # NoPlayer => clientConn[loop.old] # clientConn[main.player]
    BY <1>2, Apart DEF Quiet, Overlap
  <2>2. \A k \in Conns : loop.old \notin Contents(k)
    BY <1>2, <2>1 DEF Quiet, FiledIs, LoopIs
  <2>3. Moving => loop.old \notin ToSet(list[main.list])
    BY <2>1 DEF Quiet, MainIs, Moving
  <2>4. main.at \in {"find", "join"} => main.player # loop.old
    BY <2>1 DEF Kinds, MainKnown
  <2> QED BY <2>2, <2>3, <2>4
<1>14. ASSUME NEW q, Built(q), Serves(q), q # loop.old \/ loop.old = NoPlayer
       PROVE  Serves(q)'
  <2>1. entityId[q] \in Entities /\ q \in Players BY <1>14 DEF Built, Kinds, TypesOK
  <2>2. CASE entityId[q] # entityId[p]
    BY <1>2, <1>14, <2>1, <2>2 DEF Serves, Kinds, TypesOK
  <2>3. CASE entityId[q] = entityId[p]
    <3>1. q \in {NoPlayer, p, loop.old} BY <1>2, <1>14, <2>3 DEF Serves, Quiet, LoopIs
    <3>2. q = p BY <1>14, <2>1, <3>1, NullAssumption
    <3> QED BY <1>2, <2>1, <3>2 DEF Serves, Kinds, TypesOK
  <2> QED BY <2>2, <2>3
<1>15. \A q : q = p => Serves(q)' /\ clientConn'[q] = c
  <2>1. entityId[p] \in Entities BY <1>1 DEF Built, Kinds, TypesOK
  <2>2. players'[entityId[p]] = p BY <1>2, <2>1 DEF Kinds, TypesOK
  <2> HIDE DEF p
  <2> QED BY <1>2, <2>2 DEF Serves, c
<1> HIDE DEF p
<1>16. FiledOnce'
  <2> SUFFICES ASSUME NEW j \in Conns, NEW k \in Conns,
                      filed'[j] = filed'[k], filed'[k] # NoList
               PROVE  j = k
    BY DEF FiledOnce
  <2>1. \A m \in Conns : filed'[m] # NoList /\ m # c => filed'[m] = filed[m]
    BY <1>1
  <2> QED BY <1>1, <2>1 DEF Quiet, FiledOnce
<1>17. FiledIs'
  <2> SUFFICES ASSUME NEW k \in Conns, NEW q \in Contents(k)'
               PROVE  /\ clientConn[q] # k => /\ main.at \in {"take", "move"}
                                              /\ k = main.old /\ clientConn[q] = main.conn
                      /\ Serves(q)' \/ (main.at \in {"next", "delete"} /\ k = main.conn)
    BY <1>2 DEF FiledIs
  <2> HIDE DEF Contents
  <2>1. CASE q = p /\ k = c BY <1>2, <1>15, <2>1
  <2>2. CASE ~(q = p /\ k = c)
    <3>1. q \in Contents(k) BY <1>1, <2>2
    <3>2. Built(q) BY <3>1 DEF Kinds, TypesOK, TablesKnown, KnownList, Contents
    <3>3. Serves(q) => Serves(q)' BY <1>13, <1>14, <3>1, <3>2
    <3> QED BY <3>1, <3>3 DEF Quiet, FiledIs
  <2> QED BY <2>1, <2>2
<1>18. MainIs'
  <2>1. main.at \in {"find", "join"} => Serves(main.player)'
    <3>1. SUFFICES ASSUME main.at \in {"find", "join"} PROVE Serves(main.player)'
      OBVIOUS
    <3>2. PICK q : q = main.player OBVIOUS
    <3>3. Built(q) /\ Serves(q) BY <3>1, <3>2 DEF Kinds, MainKnown, BuiltOrNo, Quiet, MainIs
    <3>4. Serves(q)' BY <1>13, <1>14, <3>1, <3>2, <3>3
    <3> QED BY <1>2, <3>2, <3>4 DEF Serves
  <2>2. Moving =>
          /\ main.list \in Lists /\ list'[main.list] = list[main.list]
          /\ \A k \in Conns : filed'[k] = main.list => k = main.old /\ main.at # "file"
          /\ \A q \in ToSet(list[main.list]) :
               Serves(q)' /\ clientConn[q] \in {main.old, main.conn}
    <3> SUFFICES ASSUME Moving
                 PROVE  /\ main.list \in Lists /\ list'[main.list] = list[main.list]
                        /\ \A k \in Conns : filed'[k] = main.list =>
                             k = main.old /\ main.at # "file"
                        /\ \A q \in ToSet(list[main.list]) :
                             Serves(q)' /\ clientConn[q] \in {main.old, main.conn}
      OBVIOUS
    <3>1. main.list \in Lists /\ main.list # NoList
      BY ListsAssumption DEF Kinds, MainKnown
    <3>2. list'[main.list] = list[main.list] BY <1>1, <3>1
    <3>3. \A k \in Conns : filed'[k] = main.list => filed[k] = main.list
      BY <1>1, <3>1
    <3>4. \A q \in ToSet(list[main.list]) : Built(q)
      BY <3>1 DEF Kinds, TablesKnown, KnownList
    <3>5. \A q \in ToSet(list[main.list]) :
            Serves(q) /\ clientConn[q] \in {main.old, main.conn}
      BY DEF Quiet, MainIs
    <3>6. \A q \in ToSet(list[main.list]) : Serves(q)' BY <1>13, <1>14, <3>4, <3>5
    <3> QED BY <3>1, <3>2, <3>3, <3>5, <3>6 DEF Quiet, MainIs
  <2> QED BY <1>2, <2>1, <2>2 DEF Quiet, MainIs, Moving, Serves
<1>19. LoopIs'
  <2>1. loop'.at = "idle" /\ loop'.empty = FALSE BY DEF Register, NoAdd
  <2> QED BY <2>1 DEF LoopIs
<1> QED BY <1>16, <1>17, <1>18, <1>19

LEMMA InitCalm == ThreadsInit => Calm
<1> SUFFICES ASSUME ThreadsInit PROVE Quiet BY DEF Calm
<1>1. NoCommon BY DEF ThreadsInit, NoCommon, Overlap, NoCall
<1>2. FiledOnce BY DEF ThreadsInit, FiledOnce
<1>3. FiledIs BY DEF ThreadsInit, FiledIs, Contents
<1>4. MainIs BY DEF ThreadsInit, MainIs, Moving, NoCall
<1>5. LoopIs BY DEF ThreadsInit, LoopIs, NoAdd
<1> QED BY <1>1, <1>2, <1>3, <1>4, <1>5 DEF Quiet

LEMMA StepQuiet ==
  ASSUME Kinds, Quiet, Step
  PROVE  FiledOnce' /\ FiledIs' /\ MainIs' /\ LoopIs'
<1>1. CASE \E p \in Players, e \in Entities, c \in Conns : Construct(p, e, c)
  BY <1>1, ConstructQuiet
<1>2. CASE AddMade \/ Look \/ TakeOff \/ Count \/ Register \/ RegisterFails
  BY <1>2, AddMadeQuiet, LookQuiet, TakeOffQuiet, CountQuiet, RegisterQuiet,
     RegisterFailsQuiet
<1>3. CASE \E e \in Entities, c \in Conns : Transfer(e, c) BY <1>3, TransferQuiet
<1>4. CASE Find \/ Join \/ Take \/ Move
  BY <1>4, FindQuiet, JoinQuiet, TakeQuiet, MoveQuiet
<1>5. CASE Unfile \/ File \/ DelList BY <1>5, UnfileQuiet, FileQuiet, DelListQuiet
<1>6. CASE NextPlayer \/ \E c \in Conns : Offline(c) BY <1>6, EndingQuiet
<1>7. CASE DelPlayer BY <1>7, DelPlayerQuiet
<1> QED BY <1>1, <1>2, <1>3, <1>4, <1>5, <1>6, <1>7 DEF Step

LEMMA StepCalm == Kinds /\ Calm /\ [ThreadsNext]_threadVars => Calm'
<1> SUFFICES ASSUME Kinds, Calm, [ThreadsNext]_threadVars, ~clash' PROVE Quiet'
  BY DEF Calm
<1>1. CASE ThreadsNext
  <2>1. ~clash /\ ~Common' BY <1>1 DEF ThreadsNext
  <2>2. Quiet BY <2>1 DEF Calm
  <2>3. NoCommon' BY <2>1 DEF NoCommon, Common
  <2> QED BY <1>1, <2>2, <2>3, StepQuiet DEF ThreadsNext, Quiet
<1>2. CASE UNCHANGED threadVars
  <2>1. Quiet /\ UNCHANGED <<tables, main, loop>> BY <1>2 DEF Calm, threadVars
  <2>2. NoCommon'
    BY <2>1 DEF Quiet, NoCommon, Overlap, MainConns, LoopConns, ConnOf, tables
  <2>3. FiledOnce' BY <2>1 DEF Quiet, FiledOnce, tables
  <2>4. FiledIs' BY <2>1 DEF Quiet, FiledIs, Contents, Serves, tables
  <2>5. MainIs' BY <2>1 DEF Quiet, MainIs, Moving, Serves, tables
  <2>6. LoopIs' BY <2>1 DEF Quiet, LoopIs, Contents, tables
  <2> QED BY <2>2, <2>3, <2>4, <2>5, <2>6 DEF Quiet
<1> QED BY <1>1, <1>2

\* Nothing locks the tables, and nothing has to while the calls of the two threads
\* are about different connections: however their steps interleave, when both are
\* done, what is filed under a connection is on it and serves its entity.
THEOREM CalmTablesCorrect == ThreadsSpec => []CalmTables
<1>1. ThreadsSpec => []Calm
  BY KindsCorrect, InitCalm, StepCalm, PTL DEF ThreadsSpec
<1>2. Calm => CalmTables
  BY DEF Calm, Quiet, FiledIs, CalmTables, Idle, Contents
<1> QED BY <1>1, <1>2, PTL

-----------------------------------------------------------------------------
(* One call at a time. What a call that nothing overlaps has done so far   *)
(* to the tables as they were before it.                                   *)

Saved == [players : [Entities -> Players \cup {NoPlayer}],
          onConn : [Conns -> SUBSET Players],
          entityId : [Players -> Entities \cup {NoEntity}],
          clientConn : [Players -> Conns \cup {NoConn}]]

\* add_player: the constructor has set the fields of a new object, and the old
\* object is off its list from count on.
AddSoFar ==
  LET p == loop.player
      e == entityId[p]
  IN  /\ players = before.players
      /\ IF before.entityId[p] = NoEntity
         THEN /\ players[e] # p
              /\ entityId = [before.entityId EXCEPT ![p] = e]
              /\ clientConn = [before.clientConn EXCEPT ![p] = clientConn[p]]
         ELSE entityId = before.entityId /\ clientConn = before.clientConn
      /\ IF loop.old = NoPlayer THEN loop.at = "register" /\ players[e] \in {NoPlayer, p}
         ELSE players[e] = loop.old /\ loop.old # p
      /\ \A k \in Conns : Contents(k) =
           IF /\ loop.at \in {"count", "register"} /\ loop.old # NoPlayer
              /\ k = clientConn[loop.old]
           THEN before.onConn[k] \ {loop.old} ELSE before.onConn[k]

\* update_player_conn for entity e: its object is put on the list of the old
\* connection, and the objects on it are moved.
Mover(e) == before.players[e]
OldConn(e) == before.clientConn[Mover(e)]
Moved(e) == before.onConn[OldConn(e)] \cup {Mover(e)}
TransferSoFar(e) ==
  /\ Mover(e) # NoPlayer
  /\ players = before.players /\ entityId = before.entityId
  /\ \A k \in Conns : k # OldConn(e) => Contents(k) = before.onConn[k]
  /\ main.at \in {"find", "join"} =>
       /\ main.player = Mover(e) /\ clientConn = before.clientConn
       /\ Contents(OldConn(e)) = before.onConn[OldConn(e)]
  /\ main.at # "find" => main.old = OldConn(e)
  /\ main.at = "join" => ToSet(list[main.list]) = before.onConn[OldConn(e)]
  /\ main.at \in {"take", "move", "file"} =>
       /\ ToSet(list[main.list]) = Moved(e)
       /\ \A p \in Players \ Moved(e) : clientConn[p] = before.clientConn[p]
  /\ main.at = "file" => main.old # main.conn /\ Contents(OldConn(e)) = {}

\* player_offline: the objects that must end and are not pending have ended.
Ends(p) == /\ p \in before.onConn[main.conn]
           /\ before.clientConn[p] = main.conn
           /\ before.entityId[p] # NoEntity
           /\ before.players[before.entityId[p]] = p
Pending == ToSet(main.rest) \cup (IF main.at = "delete" THEN {main.player} ELSE {})
OfflineSoFar ==
  /\ entityId = before.entityId /\ clientConn = before.clientConn
  /\ \A k \in Conns : Contents(k) = before.onConn[k]
  /\ IsInjective(main.rest) /\ Pending \subseteq before.onConn[main.conn]
  /\ main.at = "delete" => main.player \notin ToSet(main.rest) /\ Ends(main.player)
  /\ players = [e \in Entities |->
       IF Ends(before.players[e]) /\ before.players[e] \notin Pending THEN NoPlayer
       ELSE before.players[e]]

Solo ==
  /\ before \in Saved /\ ~Overlap /\ ~clash
  /\ Idle => before = Tables
  /\ loop.at # "idle" => AddSoFar
  /\ main.at = "find" \/ Moving => \E e \in Entities : TransferSoFar(e)
  /\ main.at \in {"next", "delete"} => OfflineSoFar

\* The steps of add_player.
LEMMA ConstructSoFar ==
  ASSUME Kinds, Solo, Idle, before' = before,
         NEW p \in Players, NEW e \in Entities, NEW c \in Conns, Construct(p, e, c)
  PROVE  AddSoFar'
<1>1. /\ entityId[p] = NoEntity
      /\ entityId' = [entityId EXCEPT ![p] = e]
      /\ clientConn' = [clientConn EXCEPT ![p] = c]
      /\ UNCHANGED <<players, filed, list, main>>
  BY DEF Construct
<1>2. /\ before.players = players /\ before.entityId = entityId
      /\ before.clientConn = clientConn
      /\ \A k \in Conns : before.onConn[k] = Contents(k)
  BY DEF Solo, Tables
<1>3. /\ loop'.player = p
      /\ IF players[e] \in {NoPlayer, p} THEN loop'.at = "register" /\ loop'.old = NoPlayer
         ELSE loop'.at = "look" /\ loop'.old = players[e]
  BY DEF Construct, Add, NoAdd
<1>4. entityId'[p] = e /\ clientConn'[p] = c BY <1>1 DEF Kinds, TypesOK
<1>5. players[e] # NoPlayer => players[e] \in Players /\ players[e] # p
  BY <1>1, NullAssumption DEF Kinds, TypesOK, TablesKnown
<1>6. \A k \in Conns : Contents(k)' = before.onConn[k] BY <1>1, <1>2 DEF Contents
<1> HIDE DEF Contents
<1> QED BY <1>1, <1>2, <1>3, <1>4, <1>5, <1>6, NullAssumption DEF AddSoFar

LEMMA AddMadeSoFar ==
  ASSUME Kinds, Solo, Idle, before' = before, AddMade
  PROVE  AddSoFar'
<1> DEFINE p == loop.made
           e == entityId[p]
<1>1. UNCHANGED <<players, entityId, clientConn, filed, list>> BY DEF AddMade, tables
<1>2. /\ before.players = players /\ before.entityId = entityId
      /\ before.clientConn = clientConn
      /\ \A k \in Conns : before.onConn[k] = Contents(k)
  BY DEF Solo, Tables
<1>3. /\ loop'.player = p
      /\ IF players[e] \in {NoPlayer, p} THEN loop'.at = "register" /\ loop'.old = NoPlayer
         ELSE loop'.at = "look" /\ loop'.old = players[e]
  BY DEF AddMade, Add, NoAdd
<1>4. entityId[p] # NoEntity BY DEF AddMade, Kinds, LoopKnown, BuiltOrNo, Built
<1>6. \A k \in Conns : Contents(k)' = before.onConn[k] BY <1>1, <1>2 DEF Contents
<1> HIDE DEF Contents
<1> QED BY <1>1, <1>2, <1>3, <1>4, <1>6 DEF AddSoFar

LEMMA LookSoFar ==
  ASSUME Kinds, AddSoFar, before' = before, Look
  PROVE  AddSoFar'
<1>1. UNCHANGED <<players, entityId, clientConn, filed, list>> /\ loop.at = "look"
  BY DEF Look, tables
<1>2. /\ loop'.player = loop.player /\ loop'.old = loop.old
      /\ \/ loop'.at = "register" /\ filed[clientConn[loop.old]] = NoList
         \/ loop'.at = "detach"
  BY DEF Look, Registering, Kinds, TypesOK, Loop
<1>3. \A k \in Conns : Contents(k)' = Contents(k) BY <1>1 DEF Contents
<1>4. \A k \in Conns : Contents(k) = before.onConn[k] BY <1>1 DEF AddSoFar
<1>5. \A k \in Conns : k = clientConn[loop.old] /\ loop'.at = "register" =>
        Contents(k) = {}
  BY <1>2 DEF Contents
<1>6. loop.old # NoPlayer BY <1>1 DEF Kinds, LoopKnown
<1> HIDE DEF Contents
<1> QED BY <1>1, <1>2, <1>3, <1>4, <1>5, <1>6 DEF AddSoFar

LEMMA TakeOffSoFar ==
  ASSUME Kinds, Quiet, AddSoFar, before' = before, TakeOff
  PROVE  AddSoFar'
<1>1. /\ loop.at = "detach" /\ loop.old # NoPlayer /\ clientConn[loop.old] \in Conns
      /\ \A k \in Conns : k # clientConn[loop.old] => Contents(k)' = Contents(k)
      /\ \A k \in Conns : k = clientConn[loop.old] =>
           Contents(k)' = Contents(k) \ {loop.old}
  BY TakeOffTables
<1>2. UNCHANGED <<players, entityId, clientConn>> BY DEF TakeOff
<1>3. loop'.at = "count" /\ loop'.player = loop.player /\ loop'.old = loop.old
  BY DEF TakeOff, Kinds, TypesOK, Loop
<1>4. \A k \in Conns : Contents(k) = before.onConn[k] BY <1>1 DEF AddSoFar
<1> HIDE DEF Contents
<1> QED BY <1>1, <1>2, <1>3, <1>4 DEF AddSoFar

LEMMA CountSoFar ==
  ASSUME Kinds, Quiet, AddSoFar, before' = before, Count
  PROVE  AddSoFar'
<1>1. UNCHANGED <<players, entityId, clientConn, filed, list>>
      /\ loop.at \in {"detach", "count"}
  BY DEF Count, tables
<1>2. /\ loop'.player = loop.player /\ loop'.old = loop.old /\ loop'.at = "register"
      /\ loop.old # NoPlayer
  BY <1>1 DEF Count, Registering, Kinds, TypesOK, Loop, LoopKnown
<1>3. \A k \in Conns : Contents(k)' = Contents(k) BY <1>1 DEF Contents
<1>4. \A k \in Conns : k = clientConn[loop.old] => loop.old \notin Contents(k)
  <2>1. loop'.old \notin Contents(clientConn[loop.old])'
    BY <1>2, CountQuiet DEF LoopIs
  <2> QED BY <1>1, <1>2, <2>1 DEF Contents
<1> HIDE DEF Contents
<1>5. \A k \in Conns : Contents(k) =
        IF k = clientConn[loop.old] THEN before.onConn[k] \ {loop.old} ELSE before.onConn[k]
  BY <1>1, <1>2, <1>4 DEF AddSoFar
<1> QED BY <1>1, <1>2, <1>3, <1>5 DEF AddSoFar

LEMMA RegisterIsCall ==
  ASSUME Kinds, Quiet, Solo, AddSoFar, before' = Tables', Register
  PROVE  Manager!Next
<1> DEFINE p == loop.player
           e == entityId[p]
           c == clientConn[p]
<1> USE NullAssumption
<1>1. /\ p \in Players /\ Built(p) /\ c \in Conns
      /\ players' = [players EXCEPT ![e] = p]
      /\ \A k \in Conns : k # c => Contents(k)' = Contents(k)
      /\ \A k \in Conns : k = c => Contents(k)' = Contents(k) \cup {p}
  BY RegisterTables
<1>2. UNCHANGED <<entityId, clientConn>> /\ loop.at = "register" BY DEF Register
<1>3. e \in Entities BY <1>1 DEF Built, Kinds, TypesOK
<1>4. /\ before'.players = players' /\ before'.entityId = entityId
      /\ before'.clientConn = clientConn
      /\ before'.onConn = [k \in Conns |-> Contents(k)']
  BY <1>2 DEF Tables
<1>5. players = before.players /\ before \in Saved BY DEF AddSoFar, Solo
<1>6. \A k \in Conns : Contents(k) =
        IF loop.old # NoPlayer /\ k = clientConn[loop.old]
        THEN before.onConn[k] \ {loop.old} ELSE before.onConn[k]
  BY <1>2 DEF AddSoFar
<1>7. loop.old # p BY <1>1, <1>2 DEF AddSoFar
\* Whoever served the entity is taken off.
<1>8. Manager!Detach(e) = [k \in Conns |->
        IF before.players[e] # NoPlayer /\ before.clientConn[before.players[e]] = k
        THEN before.onConn[k] \ {before.players[e]} ELSE before.onConn[k]]
  BY DEF Manager!Detach
<1>9. before'.onConn = [Manager!Detach(e) EXCEPT ![c] = @ \cup {p}]
  <2>1. before.players[e] = NoPlayer \/ before.players[e] = p \/ before.players[e] = loop.old
    BY <1>5 DEF AddSoFar
  <2>2. before.players[e] = loop.old /\ loop.old # NoPlayer =>
          before.clientConn[loop.old] = clientConn[loop.old]
    <3>1. loop.old # NoPlayer => loop.old \in Players
      BY DEF Kinds, LoopKnown, BuiltOrNo, Built
    <3>2. before.clientConn \in [Players -> Conns \cup {NoConn}] BY <1>5 DEF Saved
    <3> QED BY <1>1, <1>7, <3>1, <3>2 DEF AddSoFar
  <2>3. before.players[e] = p => before.clientConn[p] = c
    BY <1>5 DEF AddSoFar
  <2>4. loop.old # NoPlayer => before.players[e] = loop.old
    BY <1>5 DEF AddSoFar
  <2>5. ASSUME NEW k \in Conns
        PROVE  before'.onConn[k] = IF k = c THEN Manager!Detach(e)[k] \cup {p}
                                   ELSE Manager!Detach(e)[k]
    <3>1. before'.onConn[k] = IF k = c THEN Contents(k) \cup {p} ELSE Contents(k)
      BY <1>1, <1>4
    <3>2. Manager!Detach(e)[k] =
            IF before.players[e] # NoPlayer /\ before.clientConn[before.players[e]] = k
            THEN before.onConn[k] \ {before.players[e]} ELSE before.onConn[k]
      BY <1>8
    <3> HIDE DEF p, e, c, Contents
    <3>3. CASE before.players[e] = NoPlayer
      BY <1>6, <2>4, <3>1, <3>2, <3>3
    <3>4. CASE before.players[e] = p /\ p # NoPlayer
      BY <1>6, <1>7, <2>3, <2>4, <3>1, <3>2, <3>4
    <3>5. CASE before.players[e] = loop.old /\ loop.old # NoPlayer
      BY <1>6, <2>2, <3>1, <3>2, <3>5
    <3> QED BY <1>1, <2>1, <3>3, <3>4, <3>5
  <2>6. /\ before'.onConn = [k \in Conns |-> before'.onConn[k]]
        /\ Manager!Detach(e) = [k \in Conns |-> Manager!Detach(e)[k]]
    BY <1>4, <1>8
  <2> DEFINE d == Manager!Detach(e)
             o == before'.onConn
  <2> HIDE DEF d, o, p, c
  <2>7. o = [k \in Conns |-> o[k]] /\ d = [k \in Conns |-> d[k]] BY <2>6 DEF d, o
  <2>8. \A k \in Conns : o[k] = IF k = c THEN d[k] \cup {p} ELSE d[k]
    BY <2>5 DEF d, o
  <2>9. o = [d EXCEPT ![c] = d[c] \cup {p}] BY <2>7, <2>8
  <2> QED BY <2>9 DEF d, o
<1>10. before'.players = [before.players EXCEPT ![e] = p] BY <1>1, <1>4, <1>5
<1>11. CASE before.entityId[p] = NoEntity
  <2>1. /\ before'.entityId = [before.entityId EXCEPT ![p] = e]
        /\ before'.clientConn = [before.clientConn EXCEPT ![p] = c]
    BY <1>4, <1>11 DEF AddSoFar
  <2>2. Manager!NewPlayer(p, e, c) BY <1>9, <1>10, <1>11, <2>1 DEF Manager!NewPlayer
  <2> QED BY <1>1, <1>3, <2>2 DEF Manager!Next
<1>12. CASE before.entityId[p] # NoEntity
  <2>1. entityId = before.entityId /\ clientConn = before.clientConn
    BY <1>12 DEF AddSoFar
  <2>2. Manager!AddAgain(p)
    BY <1>4, <1>9, <1>10, <1>12, <2>1 DEF Manager!AddAgain
  <2> QED BY <1>1, <2>2 DEF Manager!Next
<1> QED BY <1>11, <1>12

\* The steps of update_player_conn.
LEMMA TransferBegins ==
  ASSUME Kinds, Solo, Idle, before' = before,
         NEW e \in Entities, NEW c \in Conns, Transfer(e, c)
  PROVE  TransferSoFar(e)'
<1>1. /\ main'.at = "find" /\ main'.player = players[e] /\ players[e] # NoPlayer
      /\ UNCHANGED tables
  BY DEF Transfer, NoCall
<1>2. /\ before.players = players /\ before.entityId = entityId
      /\ before.clientConn = clientConn
      /\ \A k \in Conns : before.onConn[k] = Contents(k)
  BY DEF Solo, Tables
<1>3. \A k \in Conns : Contents(k)' = before.onConn[k] BY <1>1, <1>2 DEF Contents, tables
<1>4. OldConn(e) \in Conns
  BY <1>1, <1>2, NullAssumption DEF Kinds, TypesOK, TablesKnown, Built, OldConn, Mover
<1>5. Mover(e)' = Mover(e) /\ OldConn(e)' = OldConn(e) BY DEF Mover, OldConn
<1>6. Contents(OldConn(e))' = before.onConn[OldConn(e)]
  <2>1. PICK k \in Conns : k = OldConn(e) BY <1>4
  <2> QED BY <1>3, <1>5, <2>1 DEF Contents
<1>7. Mover(e) = players[e] BY <1>2 DEF Mover
<1> HIDE DEF Contents
<1> QED BY <1>1, <1>2, <1>3, <1>5, <1>6, <1>7 DEF TransferSoFar, Moving, tables

LEMMA FindSoFar ==
  ASSUME Kinds, Quiet, NEW e \in Entities, TransferSoFar(e), before' = before, Find
  PROVE  TransferSoFar(e)'
<1>1. /\ main.at = "find" /\ clientConn[main.player] \in Conns
      /\ main'.at = "join" /\ main'.old = clientConn[main.player]
      /\ main'.player = main.player /\ main'.conn = main.conn
      /\ \A k \in Conns : Contents(k)' = Contents(k)
      /\ ToSet(list'[main'.list]) = Contents(clientConn[main.player])
  BY FindTables
<1>2. UNCHANGED <<players, filed, entityId, clientConn, loop>> BY DEF Find
<1>3. /\ main.player = Mover(e) /\ clientConn = before.clientConn
      /\ Contents(OldConn(e)) = before.onConn[OldConn(e)]
  BY <1>1 DEF TransferSoFar
<1>4. OldConn(e) = clientConn[main.player] BY <1>3 DEF OldConn
<1>5. Mover(e)' = Mover(e) /\ OldConn(e)' = OldConn(e) BY DEF Mover, OldConn
<1>6. \A k \in Conns : k = OldConn(e) => Contents(k)' = before.onConn[k]
  BY <1>1, <1>3
<1>7. Contents(OldConn(e))' = before.onConn[OldConn(e)]
  <2>1. PICK k \in Conns : k = OldConn(e) BY <1>1, <1>4
  <2> QED BY <1>5, <1>6, <2>1 DEF Contents
<1> HIDE DEF Contents
<1> QED BY <1>1, <1>2, <1>3, <1>4, <1>5, <1>7 DEF TransferSoFar

LEMMA JoinSoFar ==
  ASSUME Kinds, Quiet, NEW e \in Entities, TransferSoFar(e), before' = before, Join
  PROVE  TransferSoFar(e)'
<1>1. /\ main'.at = "take" /\ main'.list = main.list /\ main'.old = main.old
      /\ ToSet(list'[main.list]) = ToSet(list[main.list]) \cup {main.player}
      /\ \A k \in Conns : k # main.old => Contents(k)' = Contents(k)
  BY JoinTables
<1>2. UNCHANGED <<players, filed, entityId, clientConn, loop>> /\ main.at = "join"
  BY DEF Join
<1>3. /\ main.player = Mover(e) /\ clientConn = before.clientConn
      /\ main.old = OldConn(e) /\ ToSet(list[main.list]) = before.onConn[OldConn(e)]
  BY <1>2 DEF TransferSoFar
<1>4. Mover(e)' = Mover(e) /\ OldConn(e)' = OldConn(e) /\ Moved(e)' = Moved(e)
  BY DEF Mover, OldConn, Moved
<1>5. ToSet(list'[main.list]) = Moved(e) BY <1>1, <1>3 DEF Moved
<1> HIDE DEF Contents
<1> QED BY <1>1, <1>2, <1>3, <1>4, <1>5 DEF TransferSoFar

LEMMA TakeSoFar ==
  ASSUME Kinds, NEW e \in Entities, TransferSoFar(e), before' = before, Take
  PROVE  TransferSoFar(e)'
<1>1. UNCHANGED <<players, filed, list, entityId, clientConn, loop>> /\ main.at = "take"
  BY DEF Take, tables
<1>2. main'.at = "move" /\ main'.list = main.list /\ main'.old = main.old
  BY DEF Take, Kinds, TypesOK, Main
<1>3. Mover(e)' = Mover(e) /\ OldConn(e)' = OldConn(e) /\ Moved(e)' = Moved(e)
  BY DEF Mover, OldConn, Moved
<1>4. \A k : Contents(k)' = Contents(k) BY <1>1 DEF Contents
<1> HIDE DEF Contents
<1> QED BY <1>1, <1>2, <1>3, <1>4 DEF TransferSoFar

LEMMA MoveSoFar ==
  ASSUME Kinds, Quiet, NEW e \in Entities, TransferSoFar(e), before' = before, Move
  PROVE  TransferSoFar(e)'
<1>1. /\ UNCHANGED <<players, filed, list, entityId, loop>> /\ main.at = "move"
      /\ clientConn' = [clientConn EXCEPT ![main.player] = main.conn]
  BY DEF Move
<1>2. main'.at = "take" /\ main'.list = main.list /\ main'.old = main.old
  BY DEF Move, Kinds, TypesOK, Main
<1>3. Mover(e)' = Mover(e) /\ OldConn(e)' = OldConn(e) /\ Moved(e)' = Moved(e)
  BY DEF Mover, OldConn, Moved
<1>4. \A k : Contents(k)' = Contents(k) BY <1>1 DEF Contents
<1>5. main.player \in Moved(e)
  <2>1. ToSet(list[main.list]) = Moved(e) BY <1>1 DEF TransferSoFar
  <2>2. main.player \in ToSet(list[main.list]) BY <1>1 DEF Quiet, MainIs, ToSet
  <2> QED BY <2>1, <2>2
<1>6. \A p \in Players \ Moved(e) : clientConn'[p] = clientConn[p]
  BY <1>1, <1>5 DEF Kinds, TypesOK
<1> HIDE DEF Contents
<1> QED BY <1>1, <1>2, <1>3, <1>4, <1>6 DEF TransferSoFar

LEMMA UnfileSoFar ==
  ASSUME Kinds, NEW e \in Entities, TransferSoFar(e), before' = before, Unfile
  PROVE  TransferSoFar(e)'
<1>1. /\ main'.at = "file" /\ main'.list = main.list
      /\ main'.conn = main.conn /\ main'.old = main.old
      /\ list'[main.list] = list[main.list]
      /\ \A k \in Conns : k # main.old => Contents(k)' = Contents(k)
      /\ \A k \in Conns : k = main.old => Contents(k)' = {}
  BY UnfileTables
<1>2. /\ UNCHANGED <<players, entityId, clientConn, loop>> /\ main.at = "take"
      /\ main.old # main.conn /\ main.old \in Conns
  BY DEF Unfile, Kinds, MainKnown, Moving
<1>3. Mover(e)' = Mover(e) /\ OldConn(e)' = OldConn(e) /\ Moved(e)' = Moved(e)
  BY DEF Mover, OldConn, Moved
<1>4. main.old = OldConn(e) BY <1>2 DEF TransferSoFar
<1>5. Contents(OldConn(e))' = {}
  <2>1. PICK k \in Conns : k = main.old BY <1>2
  <2> QED BY <1>1, <1>3, <1>4, <2>1 DEF Contents
<1> HIDE DEF Contents
<1> QED BY <1>1, <1>2, <1>3, <1>4, <1>5 DEF TransferSoFar

LEMMA FileIsCall ==
  ASSUME Kinds, Quiet, Solo, NEW e \in Entities, TransferSoFar(e), before' = Tables', File
  PROVE  Manager!Next
<1> DEFINE s == ToSet(list[main.list])
           c == main.conn
           old == OldConn(e)
<1>1. /\ \A k \in Conns : k # c => Contents(k)' = Contents(k)
      /\ \A k \in Conns : k = c => Contents(k)' = s
  BY FileTables
<1>2. /\ UNCHANGED <<players, entityId, clientConn, loop>>
      /\ main.at = "file" \/ (main.at = "take" /\ main.old = c)
      /\ main.at = "take" => main.i > Len(list[main.list])
      /\ c \in Conns /\ main.list \in Lists /\ main.i \in Nat
  BY DEF File, Kinds, TypesOK, Main, MainKnown, Moving
<1>3. /\ main.old = old /\ s = Moved(e) /\ Mover(e) # NoPlayer
      /\ players = before.players /\ entityId = before.entityId
      /\ \A p \in Players \ Moved(e) : clientConn[p] = before.clientConn[p]
      /\ \A k \in Conns : k # old => Contents(k) = before.onConn[k]
      /\ main.at = "file" => Contents(old) = {}
  BY <1>2 DEF TransferSoFar
<1>4. \A p \in s : clientConn[p] = c
  <2>1. CASE main.at = "file" BY <2>1 DEF Quiet, MainIs
  <2>2. CASE main.at = "take"
    BY <1>2, <2>2 DEF Quiet, FiledIs, MainIs, Moving
  <2> QED BY <1>2, <2>1, <2>2
<1>5. /\ before'.players = players /\ before'.entityId = entityId
      /\ before'.clientConn = clientConn
      /\ before'.onConn = [k \in Conns |-> Contents(k)']
  BY <1>2 DEF Tables
<1>6. before'.clientConn =
        [p \in Players |-> IF p \in Moved(e) THEN c ELSE before.clientConn[p]]
  <2>1. clientConn = [p \in Players |-> clientConn[p]] BY DEF Kinds, TypesOK
  <2>2. \A p \in Players :
          clientConn[p] = IF p \in Moved(e) THEN c ELSE before.clientConn[p]
    BY <1>3, <1>4
  <2> QED BY <1>5, <2>1, <2>2
<1>7. before'.onConn = Manager!Refile(old, c, Moved(e))
  <2> HIDE DEF Contents, s, c, old
  <2>1. \A k \in Conns : Contents(k)' =
          IF k = c THEN Moved(e) ELSE IF k = old THEN {} ELSE before.onConn[k]
    BY <1>1, <1>2, <1>3
  <2>2. Manager!Refile(old, c, Moved(e)) = [k \in Conns |->
          IF k = c THEN Moved(e) ELSE IF k = old THEN {} ELSE before.onConn[k]]
    BY DEF Manager!Refile
  <2> QED BY <1>5, <2>1, <2>2
<1>8. Manager!UpdateConn(e, c)
  BY <1>3, <1>5, <1>6, <1>7 DEF Manager!UpdateConn, Moved, OldConn, Mover
<1> QED BY <1>2, <1>8 DEF Manager!Next

\* The steps of player_offline.
LEMMA TailIs ==
  ASSUME NEW T, NEW s \in Seq(T), s # <<>>, IsInjective(s)
  PROVE  /\ IsInjective(Tail(s)) /\ Head(s) \notin ToSet(Tail(s))
         /\ ToSet(s) = ToSet(Tail(s)) \cup {Head(s)}
<1>1. /\ Len(s) \in Nat \ {0} /\ DOMAIN s = 1 .. Len(s) /\ Head(s) = s[1]
      /\ DOMAIN Tail(s) = 1 .. Len(s) - 1
      /\ \A i \in DOMAIN Tail(s) : i + 1 \in DOMAIN s /\ Tail(s)[i] = s[i + 1]
  OBVIOUS
<1>2. \A i, j \in DOMAIN s : s[i] = s[j] => i = j BY DEF IsInjective
<1>3. IsInjective(Tail(s))
  <2> SUFFICES ASSUME NEW i \in DOMAIN Tail(s), NEW j \in DOMAIN Tail(s),
                      Tail(s)[i] = Tail(s)[j]
               PROVE  i = j
    BY DEF IsInjective
  <2>1. i + 1 = j + 1 BY <1>1, <1>2
  <2> QED BY <1>1, <2>1
<1>4. Head(s) \notin ToSet(Tail(s))
  <2> SUFFICES ASSUME NEW i \in DOMAIN Tail(s), Tail(s)[i] = s[1] PROVE FALSE
    BY <1>1 DEF ToSet
  <2>1. i + 1 = 1 BY <1>1, <1>2
  <2> QED BY <1>1, <2>1
<1>5. \A x \in ToSet(s) : x \in ToSet(Tail(s)) \cup {Head(s)}
  <2> SUFFICES ASSUME NEW i \in DOMAIN s, i # 1 PROVE s[i] \in ToSet(Tail(s))
    BY <1>1 DEF ToSet
  <2>1. i - 1 \in DOMAIN Tail(s) /\ (i - 1) + 1 = i BY <1>1
  <2>2. Tail(s)[i - 1] = s[i] BY <1>1, <2>1
  <2> QED BY <2>1, <2>2 DEF ToSet
<1>6. \A x \in ToSet(Tail(s)) \cup {Head(s)} : x \in ToSet(s)
  BY <1>1 DEF ToSet
<1> QED BY <1>3, <1>4, <1>5, <1>6

LEMMA OfflineBegins ==
  ASSUME Kinds, Solo, Idle, before' = before, NEW c \in Conns, Offline(c)
  PROVE  OfflineSoFar'
<1> DEFINE has == IF filed[c] = NoList THEN <<>> ELSE list[filed[c]]
<1>1. /\ main'.at = "next" /\ main'.conn = c /\ main'.rest = has /\ UNCHANGED tables
  BY DEF Offline, NoCall
<1>2. /\ before.players = players /\ before.entityId = entityId
      /\ before.clientConn = clientConn
      /\ \A k \in Conns : before.onConn[k] = Contents(k)
  BY DEF Solo, Tables
<1>3. ToSet(has) = Contents(c) BY EmptyList DEF Contents
<1>4. IsInjective(has)
  <2>1. filed[c] # NoList => KnownList(list[filed[c]])
    BY DEF Kinds, TypesOK, TablesKnown
  <2> QED BY <2>1, EmptyList DEF KnownList
<1>5. \A k \in Conns : Contents(k)' = before.onConn[k]
  BY <1>1, <1>2 DEF Contents, tables
<1> HIDE DEF has, Contents
<1>6. Pending' = before.onConn[c] BY <1>1, <1>2, <1>3 DEF Pending
<1>7. \A p : Ends(p)' => p \in before.onConn[c] BY <1>1 DEF Ends
<1>8. players' = [x \in Entities |->
        IF Ends(before.players[x])' /\ before.players[x] \notin Pending' THEN NoPlayer
        ELSE before.players[x]]
  <2>1. players = [x \in Entities |-> players[x]] BY DEF Kinds, TypesOK
  <2>2. \A x \in Entities : ~(Ends(before.players[x])' /\ before.players[x] \notin Pending')
    <3> SUFFICES ASSUME NEW x \in Entities, NEW p, p = before.players[x],
                        Ends(before.players[x])', p \notin Pending'
                 PROVE  FALSE
      OBVIOUS
    <3>1. Ends(p)' BY DEF Ends
    <3> QED BY <1>6, <1>7, <3>1
  <2>3. players' = [x \in Entities |-> before.players[x]] BY <1>1, <1>2, <2>1 DEF tables
  <2> HIDE DEF Ends, Pending
  <2> QED BY <2>2, <2>3
<1> QED BY <1>1, <1>2, <1>4, <1>5, <1>6, <1>8 DEF OfflineSoFar, tables

LEMMA NextPlayerSoFar ==
  ASSUME Kinds, Solo, OfflineSoFar, before' = before, NextPlayer
  PROVE  OfflineSoFar'
<1> DEFINE p == Head(main.rest)
<1>1. /\ main.at = "next" /\ main.rest # <<>> /\ main.conn \in Conns
      /\ main.rest \in Seq(Players) /\ UNCHANGED tables
  BY DEF NextPlayer, Kinds, TypesOK, Main, MainKnown
<1>2. /\ main'.rest = Tail(main.rest) /\ main'.conn = main.conn
      /\ IF clientConn[p] = main.conn /\ Serves(p)
         THEN main'.at = "delete" /\ main'.player = p ELSE main'.at = "next"
  BY DEF NextPlayer, Kinds, TypesOK, Main
<1>3. /\ IsInjective(Tail(main.rest)) /\ p \notin ToSet(Tail(main.rest))
      /\ ToSet(main.rest) = ToSet(Tail(main.rest)) \cup {p}
  BY <1>1, TailIs DEF OfflineSoFar
<1>4. Built(p)
  BY <1>3 DEF Kinds, MainKnown
<1> HIDE DEF p
<1>5. p \in before.onConn[main.conn] BY <1>3 DEF OfflineSoFar, Pending
\* The object is left alone exactly if its session must not end.
<1>6. clientConn[p] = main.conn /\ Serves(p) <=> Ends(p)
  <2>1. entityId[p] \in Entities BY <1>4 DEF Built, Kinds, TypesOK
  <2>2. p # NoPlayer BY <1>4, NullAssumption DEF Built
  <2>3. p \in Pending BY <1>3 DEF Pending
  <2>4. players[entityId[p]] = p <=> before.players[entityId[p]] = p
    BY <2>1, <2>2, <2>3 DEF OfflineSoFar
  <2>5. entityId = before.entityId /\ clientConn = before.clientConn
    BY DEF OfflineSoFar
  <2> QED BY <1>4, <1>5, <2>4, <2>5 DEF Ends, Serves, Built
<1>7. \A q : Ends(q)' <=> Ends(q) BY <1>2 DEF Ends
<1>8. Pending' = IF Ends(p) THEN Pending ELSE Pending \ {p}
  BY <1>1, <1>2, <1>3, <1>6 DEF Pending
<1>9. \A q : Ends(q) /\ q \notin Pending' <=> Ends(q) /\ q \notin Pending
  BY <1>8
<1>10. \A x \in Entities : Ends(before.players[x])' <=> Ends(before.players[x])
  BY <1>2 DEF Ends
<1>11. players' = [x \in Entities |->
        IF Ends(before.players[x])' /\ before.players[x] \notin Pending' THEN NoPlayer
        ELSE before.players[x]]
  <2>1. players' = [x \in Entities |->
          IF Ends(before.players[x]) /\ before.players[x] \notin Pending THEN NoPlayer
          ELSE before.players[x]]
    BY <1>1 DEF OfflineSoFar, tables
  <2> HIDE DEF Ends, Pending
  <2> QED BY <1>9, <1>10, <2>1
<1>12. Pending' \subseteq before.onConn[main.conn] BY <1>8 DEF OfflineSoFar
<1>13. \A k \in Conns : Contents(k)' = before.onConn[k]
  BY <1>1 DEF OfflineSoFar, Contents, tables
<1>14. main'.at = "delete" =>
         main'.player \notin ToSet(main'.rest) /\ Ends(main.player)'
  BY <1>2, <1>3, <1>6 DEF Ends
<1> HIDE DEF Contents
<1> QED BY <1>1, <1>2, <1>3, <1>11, <1>12, <1>13, <1>14 DEF OfflineSoFar, tables

LEMMA DelPlayerSoFar ==
  ASSUME Kinds, Solo, OfflineSoFar, before' = before, DelPlayer
  PROVE  OfflineSoFar'
<1> DEFINE p == main.player
<1>1. main.at = "delete" /\ UNCHANGED <<filed, list, entityId, clientConn>>
  BY DEF DelPlayer
<1>2. main'.at = "next" /\ main'.rest = main.rest /\ main'.conn = main.conn
  BY DEF DelPlayer, Kinds, TypesOK, Main
<1>3. Built(p) /\ Ends(p) /\ p \notin ToSet(main.rest)
  BY <1>1 DEF Kinds, MainKnown, BuiltOrNo, OfflineSoFar
<1> HIDE DEF p
<1>4. Pending = ToSet(main.rest) \cup {p} /\ Pending' = ToSet(main.rest)
  BY <1>1, <1>2 DEF Pending, p
<1>5. \A q : Ends(q)' <=> Ends(q) BY <1>2 DEF Ends
<1>6. \A x \in Entities : Ends(before.players[x])' <=> Ends(before.players[x])
  BY <1>2 DEF Ends
<1>7. entityId[p] \in Entities /\ p \in Players /\ p # NoPlayer
  BY <1>3, NullAssumption DEF Built, Kinds, TypesOK
<1>8. before.players[entityId[p]] = p /\ entityId = before.entityId
  BY <1>3 DEF Ends, OfflineSoFar
<1>9. \A x \in Entities : before.players[x] = p => x = entityId[p]
  <2>1. \A x \in Entities : before.players[x] = p => players[x] = p
    BY <1>4 DEF OfflineSoFar
  <2> QED BY <1>7, <2>1 DEF Kinds, TablesKnown
<1>10. players[entityId[p]] = p
  BY <1>4, <1>7, <1>8 DEF OfflineSoFar
<1>11. players' = [players EXCEPT ![entityId[p]] = NoPlayer]
  BY <1>10 DEF DelPlayer, Serves, p
<1>12. players' = [x \in Entities |->
        IF Ends(before.players[x])' /\ before.players[x] \notin Pending' THEN NoPlayer
        ELSE before.players[x]]
  <2>1. players = [x \in Entities |->
          IF Ends(before.players[x]) /\ before.players[x] \notin Pending THEN NoPlayer
          ELSE before.players[x]]
    BY DEF OfflineSoFar
  <2> HIDE DEF Ends, Pending
  <2>2. \A x \in Entities : players'[x] =
          IF Ends(before.players[x])' /\ before.players[x] \notin Pending' THEN NoPlayer
          ELSE before.players[x]
    <3> SUFFICES ASSUME NEW x \in Entities
                 PROVE  players'[x] =
                   IF Ends(before.players[x])' /\ before.players[x] \notin Pending' THEN NoPlayer
                   ELSE before.players[x]
      OBVIOUS
    <3>1. CASE x = entityId[p]
      <4>1. before.players[x] = p BY <1>8, <3>1
      <4>2. Ends(before.players[x])' BY <1>3, <1>6, <3>1, <4>1
      <4>3. p \notin Pending' BY <1>3, <1>4
      <4>4. players'[x] = NoPlayer BY <1>7, <1>11, <3>1 DEF Kinds, TypesOK
      <4> QED BY <4>1, <4>2, <4>3, <4>4
    <3>2. CASE x # entityId[p]
      <4>1. players'[x] = players[x] BY <1>7, <1>11, <3>2 DEF Kinds, TypesOK
      <4>2. before.players[x] # p BY <1>9, <3>2
      <4>3. before.players[x] \in Pending <=> before.players[x] \in Pending'
        BY <1>4, <4>2
      <4> QED BY <1>6, <2>1, <4>1, <4>3
    <3> QED BY <3>1, <3>2
  <2>3. players' = [x \in Entities |-> players'[x]]
    BY <1>11 DEF Kinds, TypesOK
  <2> QED BY <2>2, <2>3
<1>13. \A k \in Conns : Contents(k)' = before.onConn[k]
  BY <1>1 DEF OfflineSoFar, Contents
<1>14. Pending' \subseteq before.onConn[main.conn] BY <1>4 DEF OfflineSoFar
<1> HIDE DEF Contents
<1> QED BY <1>1, <1>2, <1>12, <1>13, <1>14 DEF OfflineSoFar

LEMMA DelListIsCall ==
  ASSUME Kinds, Solo, OfflineSoFar, before' = Tables', DelList
  PROVE  Manager!Next
<1> DEFINE c == main.conn
<1>1. /\ main.at = "next" /\ main.rest = <<>> /\ c \in Conns
      /\ UNCHANGED <<players, entityId, clientConn>>
  BY DEF DelList, Kinds, MainKnown
<1>2. /\ \A k \in Conns : k # c => Contents(k)' = Contents(k)
      /\ \A k \in Conns : k = c => Contents(k)' = {}
  BY DelListTables
<1>3. Pending = {} BY <1>1, EmptyList DEF Pending
<1>4. /\ before'.players = players /\ before'.entityId = entityId
      /\ before'.clientConn = clientConn
      /\ before'.onConn = [k \in Conns |-> Contents(k)']
  BY <1>1 DEF Tables
<1>5. \A q : q \in Manager!Ending(c) <=> Ends(q)
  BY DEF Manager!Ending, Manager!Registered, Ends
<1>6. before'.players = [x \in Entities |->
        IF before.players[x] \in Manager!Ending(c) THEN NoPlayer ELSE before.players[x]]
  <2>1. players = [x \in Entities |->
          IF Ends(before.players[x]) THEN NoPlayer ELSE before.players[x]]
    BY <1>3 DEF OfflineSoFar
  <2> HIDE DEF Ends
  <2> QED BY <1>4, <1>5, <2>1
<1>7. before'.onConn = [before.onConn EXCEPT ![c] = {}]
  <2>1. before.onConn \in [Conns -> SUBSET Players] BY DEF Solo, Saved
  <2>2. \A k \in Conns : Contents(k)' = IF k = c THEN {} ELSE before.onConn[k]
    BY <1>2 DEF OfflineSoFar
  <2> HIDE DEF Contents, c
  <2> QED BY <1>4, <2>1, <2>2
<1>8. Manager!PlayerOffline(c)
  BY <1>4, <1>6, <1>7 DEF Manager!PlayerOffline, OfflineSoFar
<1> QED BY <1>1, <1>8 DEF Manager!Next

LEMMA TablesSaved == Kinds => Tables \in Saved
<1> SUFFICES ASSUME Kinds PROVE Tables \in Saved OBVIOUS
<1>1. \A k \in Conns : Contents(k) \subseteq Players
  BY DEF Kinds, TypesOK, TablesKnown, KnownList, Built, Contents
<1> HIDE DEF Contents
<1> QED BY <1>1 DEF Tables, Saved, Kinds, TypesOK

LEMMA TablesSavedNext == Kinds' => (Tables \in Saved)'
BY TablesSaved, PTL

LEMMA InitSolo == ThreadsInit => Solo /\ Manager!Init
<1> SUFFICES ASSUME ThreadsInit PROVE Solo /\ Manager!Init OBVIOUS
<1>1. Kinds BY InitKinds
<1>2. before = Tables /\ main.at = "idle" /\ loop.at = "idle" /\ clash = FALSE
  BY DEF ThreadsInit, NoCall, NoAdd
<1>3. Solo BY <1>1, <1>2, TablesSaved DEF Solo, Overlap, Moving
<1>4. \A c \in Conns : Contents(c) = {} BY DEF ThreadsInit, Contents
<1>5. before.onConn = [c \in Conns |-> {}] BY <1>2, <1>4 DEF Tables
<1>6. /\ before.players = players /\ before.entityId = entityId
      /\ before.clientConn = clientConn
  BY <1>2 DEF Tables
<1>7. Manager!Init BY <1>5, <1>6 DEF ThreadsInit, Manager!Init
<1> QED BY <1>3, <1>7

\* A step that no overlap precedes or follows goes on with its call, or ends it.
LEMMA StepSolo ==
  ASSUME Kinds, Kinds', Quiet, Solo, ThreadsNext, ~met'
  PROVE  Solo' /\ (Manager!Next \/ UNCHANGED before)
<1>1. /\ Step /\ ~Overlap' /\ clash' = FALSE
      /\ before' = IF Idle' THEN Tables' ELSE before
  BY DEF ThreadsNext, Solo, Common
<1>2. CASE /\ Idle' /\ Manager!Next
  <2>1. before' = Tables' BY <1>1, <1>2
  <2>2. (Tables \in Saved)' BY TablesSavedNext
  <2>3. (before \in Saved)' BY <2>1, <2>2
  <2> HIDE DEF Tables
  <2>4. Solo' BY <1>1, <1>2, <2>1, <2>3 DEF Solo, Idle, Moving
  <2> QED BY <1>2, <2>4
<1>3. CASE /\ before' = before /\ loop'.at # "idle" /\ main'.at = "idle" /\ AddSoFar'
  <2>1. Solo' BY <1>1, <1>3 DEF Solo, Idle, Moving
  <2> QED BY <1>3, <2>1
<1>4. CASE /\ before' = before /\ loop'.at = "idle" /\ main'.at \notin {"idle", "next", "delete"}
           /\ \E e \in Entities : TransferSoFar(e)'
  <2>1. Solo' BY <1>1, <1>4 DEF Solo, Idle, Moving
  <2> QED BY <1>4, <2>1
<1>5. CASE /\ before' = before /\ loop'.at = "idle" /\ main'.at \in {"next", "delete"}
           /\ OfflineSoFar'
  <2>1. Solo' BY <1>1, <1>5 DEF Solo, Idle, Moving
  <2> QED BY <1>5, <2>1
\* add_player
<1>6. CASE \E p \in Players, e \in Entities, c \in Conns : Construct(p, e, c)
  <2>1. loop'.at # "idle" /\ loop.at = "idle" /\ main' = main
    BY <1>6 DEF Construct, Add, NoAdd
  <2>2. main.at = "idle" /\ before' = before BY <1>1, <2>1 DEF Overlap, Idle
  <2> QED BY <1>3, <1>6, <2>1, <2>2, ConstructSoFar DEF Idle
<1>7. CASE AddMade
  <2>1. loop'.at # "idle" /\ loop.at = "idle" /\ main' = main
    BY <1>7 DEF AddMade, Add, NoAdd
  <2>2. main.at = "idle" /\ before' = before BY <1>1, <2>1 DEF Overlap, Idle
  <2> QED BY <1>3, <1>7, <2>1, <2>2, AddMadeSoFar DEF Idle
<1>8. CASE Look \/ TakeOff \/ Count
  <2>1. loop'.at # "idle" /\ loop.at # "idle" /\ main' = main
    BY <1>8 DEF Look, TakeOff, Count, Registering, Kinds, TypesOK, Loop
  <2>2. main.at = "idle" /\ before' = before /\ AddSoFar
    BY <1>1, <2>1 DEF Overlap, Idle, Solo
  <2> QED BY <1>3, <1>8, <2>1, <2>2, LookSoFar, TakeOffSoFar, CountSoFar
<1>9. CASE Register \/ RegisterFails
  <2>1. Register BY <1>9, RegisterFailsQuiet
  <2>2. loop'.at = "idle" /\ loop.at # "idle" /\ main' = main
    BY <2>1 DEF Register, NoAdd
  <2>3. Idle' /\ before' = Tables' /\ AddSoFar
    BY <1>1, <2>2 DEF Overlap, Idle, Solo
  <2> QED BY <1>2, <2>1, <2>3, RegisterIsCall
\* update_player_conn
<1>10. CASE \E e \in Entities, c \in Conns : Transfer(e, c)
  <2>1. main'.at = "find" /\ main.at = "idle" /\ loop' = loop
    BY <1>10 DEF Transfer, NoCall
  <2>2. loop.at = "idle" /\ before' = before BY <1>1, <2>1 DEF Overlap, Idle
  <2> QED BY <1>4, <1>10, <2>1, <2>2, TransferBegins DEF Idle
<1>11. CASE Find \/ Join \/ Take \/ Move \/ Unfile
  <2>1. /\ main.at \in {"find", "join", "take", "move"} /\ loop' = loop
        /\ main'.at \in {"join", "take", "move", "file"}
    BY <1>11 DEF Find, Join, Take, Move, Unfile, Kinds, TypesOK, Main
  <2>2. loop.at = "idle" /\ before' = before BY <1>1, <2>1 DEF Overlap, Idle, Solo
  <2>3. PICK e \in Entities : TransferSoFar(e) BY <2>1 DEF Solo, Moving
  <2>4. TransferSoFar(e)'
    BY <1>11, <2>2, <2>3, FindSoFar, JoinSoFar, TakeSoFar, MoveSoFar, UnfileSoFar
  <2> QED BY <1>4, <2>1, <2>2, <2>4
<1>12. CASE File
  <2>1. /\ main.at \in {"take", "file"} /\ loop' = loop /\ main'.at = "idle"
    BY <1>12 DEF File, NoCall
  <2>2. Idle' /\ before' = Tables' BY <1>1, <2>1 DEF Overlap, Idle, Solo
  <2>3. PICK e \in Entities : TransferSoFar(e) BY <2>1 DEF Solo, Moving
  <2> QED BY <1>2, <1>12, <2>2, <2>3, FileIsCall
\* player_offline
<1>13. CASE \E c \in Conns : Offline(c)
  <2>1. main'.at = "next" /\ main.at = "idle" /\ loop' = loop
    BY <1>13 DEF Offline, NoCall
  <2>2. loop.at = "idle" /\ before' = before BY <1>1, <2>1 DEF Overlap, Idle
  <2> QED BY <1>5, <1>13, <2>1, <2>2, OfflineBegins DEF Idle
<1>14. CASE NextPlayer \/ DelPlayer
  <2>1. /\ main.at \in {"next", "delete"} /\ main'.at \in {"next", "delete"}
        /\ loop' = loop
    BY <1>14 DEF NextPlayer, DelPlayer, Kinds, TypesOK, Main
  <2>2. loop.at = "idle" /\ before' = before /\ OfflineSoFar
    BY <1>1, <2>1 DEF Overlap, Idle, Solo
  <2> QED BY <1>5, <1>14, <2>1, <2>2, NextPlayerSoFar, DelPlayerSoFar
<1>15. CASE DelList
  <2>1. main.at = "next" /\ main'.at = "idle" /\ loop' = loop
    BY <1>15 DEF DelList, NoCall
  <2>2. Idle' /\ before' = Tables' /\ OfflineSoFar
    BY <1>1, <2>1 DEF Overlap, Idle, Solo
  <2> QED BY <1>2, <1>15, <2>2, DelListIsCall
<1> QED BY <1>1, <1>6, <1>7, <1>8, <1>9, <1>10, <1>11, <1>12, <1>13, <1>14, <1>15 DEF Step

\* The tables that the history keeps do not change without a call.
LEMMA StutterSolo ==
  ASSUME Kinds, Solo, UNCHANGED threadVars
  PROVE  Solo'
<1>1. /\ UNCHANGED <<players, filed, list, entityId, clientConn, main, loop, clash, before>>
  BY DEF threadVars, tables
<1>2. Tables' = Tables BY <1>1 DEF Tables, Contents
<1>3. AddSoFar => AddSoFar' BY <1>1 DEF AddSoFar, Contents
<1>4. \A e \in Entities : TransferSoFar(e) => TransferSoFar(e)'
  BY <1>1 DEF TransferSoFar, Contents, Mover, OldConn, Moved
<1>5. OfflineSoFar => OfflineSoFar'
  BY <1>1 DEF OfflineSoFar, Contents, Ends, Pending
<1> HIDE DEF AddSoFar, TransferSoFar, OfflineSoFar, Tables
<1> QED BY <1>1, <1>2, <1>3, <1>4, <1>5 DEF Solo, Overlap, Idle, Moving

\* As long as no call begins while the other thread is in one, each call of the
\* two threads changes the tables as the one step does that PlayerManager makes of
\* it, for any number of objects, entities, connections and lists: what is proved
\* of that module holds of the code that runs in steps.
THEOREM OneCallAtATimeCorrect == ThreadsSpec => OneCallAtATime
<1> DEFINE Alone == ~met => Solo
<1>1. ThreadsInit => Alone /\ Manager!Init BY InitSolo
<1>2. Kinds /\ Kinds' /\ Calm /\ Alone /\ [ThreadsNext]_threadVars => Alone'
  <2> SUFFICES ASSUME Kinds, Kinds', Calm, Alone, [ThreadsNext]_threadVars, ~met'
               PROVE  Solo'
    OBVIOUS
  <2>1. CASE ThreadsNext
    <3>1. ~met BY <2>1 DEF ThreadsNext
    <3>2. Solo /\ Quiet BY <3>1 DEF Solo, Calm
    <3> QED BY <2>1, <3>2, StepSolo
  <2>2. CASE UNCHANGED threadVars
    <3>1. ~met BY <2>2 DEF threadVars
    <3> QED BY <2>2, <3>1, StutterSolo
  <2> QED BY <2>1, <2>2
<1>3. Kinds /\ Kinds' /\ Calm /\ Alone /\ [ThreadsNext]_threadVars =>
        [met' \/ Manager!Next \/ UNCHANGED before]_threadVars
  <2> SUFFICES ASSUME Kinds, Kinds', Calm, Alone, ThreadsNext, ~met'
               PROVE  Manager!Next \/ UNCHANGED before
    OBVIOUS
  <2>1. ~met BY DEF ThreadsNext
  <2>2. Solo /\ Quiet BY <2>1 DEF Solo, Calm
  <2> QED BY <2>2, StepSolo
<1>4. ThreadsSpec => []Calm
  BY KindsCorrect, InitCalm, StepCalm, PTL DEF ThreadsSpec
<1> HIDE DEF Alone
<1> QED BY <1>1, <1>2, <1>3, <1>4, KindsCorrect, PTL DEF ThreadsSpec, OneCallAtATime
=============================================================================
