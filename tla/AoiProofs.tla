------------------------------ MODULE AoiProofs ------------------------------
(***************************************************************************)
(* Theorems about the area of interest. The grid comes first: an operation *)
(* leaves those it does not recompute with a view that is still right,     *)
(* because the object it moved or removed was not in it. Then the manager: *)
(* a name and its number point at each other, and the two caches are       *)
(* changed together.                                                       *)
(***************************************************************************)
EXTENDS Aoi, TLAPS

LEMMA Facts == /\ NoCell \notin Cells /\ NoId \notin Ids /\ NoName \notin Names
               /\ Ids = 1..MaxAdds /\ MaxAdds \in Nat
               /\ NoReach \in Reaches
BY CellsAssumption, IdsAssumption, NamesAssumption, ReachesAssumption DEF NoReach

-----------------------------------------------------------------------------
\* The grid.

LEMMA VisibleType == ASSUME NEW i \in Ids, NEW at, NEW far
                     PROVE  Visible(i, at, far) \in SUBSET Ids
BY DEF Visible

\* The view of o of an object t lasts while neither of them moves.
LEMMA ViewLasts ==
  ASSUME NEW o \in Ids, NEW t, NEW at, NEW far, NEW at2, NEW far2,
         t \in Visible(o, at, far), at2[o] = at[o], at2[t] = at[t], far2[o] = far[o]
  PROVE  t \in Visible(o, at2, far2)
BY DEF Visible

LEMMA NoteType ==
  ASSUME pending \in Seq(SUBSET Event), NEW events \in SUBSET Event, Note(events)
  PROVE  pending' \in Seq(SUBSET Event)
BY DEF Note

LEMMA PendingType ==
  ASSUME GridTypeOK, seen' \in [Ids -> SUBSET Ids], Note(Differences(seen'))
  PROVE  pending' \in Seq(SUBSET Event)
<1>1. Differences(seen') \in SUBSET Event
  BY DEF Differences, Event, GridTypeOK
<1> QED BY <1>1, NoteType DEF GridTypeOK

\* What an operation on object i leaves of the invariants of the grid: types,
\* and views that are right. Nothing else than i moves.
GridStep(i) ==
  /\ GridTypeOK'
  /\ SeesOnlyNear'
  /\ \A o \in Ids \ {i} : cell'[o] = cell[o]

LEMMA InsertNewGrid ==
  ASSUME GridTypeOK, SeesOnlyNear, NEW i \in Ids, NEW c \in Cells, NEW r \in Reaches,
         InsertNew(i, c, r)
  PROVE  GridStep(i) /\ cell'[i] # NoCell
<1> DEFINE group == {i} \cup {n \in Ids : cell[n] = c}
<1>1. /\ cell[i] = NoCell
      /\ cell' = [cell EXCEPT ![i] = c]
      /\ reach' = [reach EXCEPT ![i] = r]
      /\ Recompute(group, cell', reach')
  BY DEF InsertNew
<1>0. group \in SUBSET Ids
  OBVIOUS
<1> HIDE DEF group
<1>2. /\ seen' = [o \in Ids |-> IF o \in group THEN Visible(o, cell', reach') ELSE seen[o]]
      /\ Note(Differences(seen'))
  BY <1>1 DEF Recompute
<1>3. GridTypeOK'
  <2>1. seen' \in [Ids -> SUBSET Ids]
    BY <1>0, <1>2, VisibleType DEF GridTypeOK
  <2> QED BY <2>1, <1>1, <1>2, PendingType DEF GridTypeOK
<1>4. ASSUME NEW o \in Ids, NEW t \in seen'[o]
      PROVE  t \in Visible(o, cell', reach')
  <2>1. CASE o \in group
    BY <2>1, <1>2, <1>4
  <2>2. CASE o \notin group
    <3>1. t \in Visible(o, cell, reach) /\ t \in Ids /\ o # i
      BY <2>2, <1>2, <1>4 DEF SeesOnlyNear, GridTypeOK, group
    <3>2. t # i
      BY <3>1, <1>1 DEF Visible
    <3>3. cell'[o] = cell[o] /\ cell'[t] = cell[t] /\ reach'[o] = reach[o]
      BY <3>1, <3>2, <1>1 DEF GridTypeOK
    <3> QED BY <3>1, <3>3, ViewLasts
  <2> QED BY <2>1, <2>2
<1>5. \A o \in Ids \ {i} : cell'[o] = cell[o]
  BY <1>1 DEF GridTypeOK
<1>6. cell'[i] # NoCell
  BY <1>1, Facts DEF GridTypeOK
<1> QED BY <1>3, <1>4, <1>5, <1>6 DEF GridStep, SeesOnlyNear

\* Who sees the object that moves is recomputed, so the others did not see it.
\* And who comes into each other's reach by the move is recomputed on both
\* sides.
LEMMA UpdateGrid ==
  ASSUME GridTypeOK, SeesOnlyNear, NEW i \in Ids, NEW c \in Cells, Update(i, c)
  PROVE  /\ GridStep(i) /\ cell[i] # NoCell /\ cell'[i] # NoCell
         /\ \A o \in Visible(i, cell', reach') :
              /\ o \in seen'[i]
              /\ i \in Visible(o, cell', reach') => i \in seen'[o]
<1> DEFINE group == Affected(i, cell')
<1>1. /\ cell[i] # NoCell
      /\ cell' = [cell EXCEPT ![i] = c]
      /\ reach' = reach
      /\ Recompute(group, cell', reach)
  BY DEF Update
<1>2. group \in SUBSET Ids
  BY VisibleType DEF Affected, Observers, GridTypeOK
<1>3. /\ seen' = [o \in Ids |-> IF o \in group THEN Visible(o, cell', reach) ELSE seen[o]]
      /\ Note(Differences(seen'))
  BY <1>1 DEF Recompute
<1>4. GridTypeOK'
  <2>1. seen' \in [Ids -> SUBSET Ids]
    BY <1>2, <1>3, VisibleType DEF GridTypeOK
  <2> QED BY <2>1, <1>1, <1>3, PendingType DEF GridTypeOK
<1>5. ASSUME NEW o \in Ids, NEW t \in seen'[o]
      PROVE  t \in Visible(o, cell', reach')
  <2>1. CASE o \in group
    BY <2>1, <1>1, <1>3, <1>5
  <2>2. CASE o \notin group
    <3>1. t \in Visible(o, cell, reach) /\ t \in Ids /\ t \in seen[o] /\ o # i
      BY <2>2, <1>3, <1>5 DEF SeesOnlyNear, GridTypeOK, Affected
    <3>2. t # i
      BY <3>1, <2>2 DEF Affected, Observers
    <3>3. cell'[o] = cell[o] /\ cell'[t] = cell[t] /\ reach'[o] = reach[o]
      BY <3>1, <3>2, <1>1 DEF GridTypeOK
    <3> QED BY <3>1, <3>3, ViewLasts
  <2> QED BY <2>1, <2>2
<1>6. ASSUME NEW o \in Visible(i, cell', reach')
      PROVE  o \in seen'[i] /\ (i \in Visible(o, cell', reach') => i \in seen'[o])
  <2>1. o \in group /\ i \in group /\ o \in Ids
    BY <1>1, <1>2 DEF Affected
  <2> QED BY <2>1, <1>1, <1>3
<1>7. \A o \in Ids \ {i} : cell'[o] = cell[o]
  BY <1>1 DEF GridTypeOK
<1>8. cell'[i] # NoCell
  BY <1>1, Facts DEF GridTypeOK
<1> QED BY <1>1, <1>4, <1>5, <1>6, <1>7, <1>8 DEF GridStep, SeesOnlyNear

LEMMA RemoveGrid ==
  ASSUME GridTypeOK, SeesOnlyNear, NEW i \in Ids, Remove(i)
  PROVE  GridStep(i) /\ cell'[i] = NoCell
<1>1. /\ cell' = [cell EXCEPT ![i] = NoCell]
      /\ seen' = [o \in Ids |-> IF o = i THEN {} ELSE seen[o] \ {i}]
      /\ reach' = [reach EXCEPT ![i] = NoReach]
      /\ Note([kind : {"leave"}, observer : Observers(i), target : {i}])
  BY DEF Remove
<1>2. [kind : {"leave"}, observer : Observers(i), target : {i}] \in SUBSET Event
  BY DEF Event, Observers
<1>3. GridTypeOK'
  BY <1>1, <1>2, NoteType, Facts DEF GridTypeOK
<1>4. ASSUME NEW o \in Ids, NEW t \in seen'[o]
      PROVE  t \in Visible(o, cell', reach')
  <2>1. t \in seen[o] /\ t # i /\ o # i /\ t \in Ids
    BY <1>1, <1>4 DEF GridTypeOK
  <2>2. cell'[o] = cell[o] /\ cell'[t] = cell[t] /\ reach'[o] = reach[o]
    BY <1>1, <2>1 DEF GridTypeOK
  <2> QED BY <2>1, <2>2, ViewLasts DEF SeesOnlyNear
<1>5. cell'[i] = NoCell /\ \A o \in Ids \ {i} : cell'[o] = cell[o]
  BY <1>1 DEF GridTypeOK
<1> QED BY <1>3, <1>4, <1>5 DEF GridStep, SeesOnlyNear

-----------------------------------------------------------------------------
\* The manager.

\* Names and numbers point at each other, the objects with a name are those of
\* the grid, and the numbers from nextId on are not in use.
NamesOK ==
  /\ idOf \in [Names -> Ids \cup {NoId}]
  /\ nameOf \in [Ids -> Names \cup {NoName}]
  /\ nextId \in 1..MaxAdds + 1
  /\ \A n \in Names, i \in Ids : idOf[n] = i <=> nameOf[i] = n
  /\ \A i \in Ids : cell[i] # NoCell <=> nameOf[i] # NoName
  /\ \A i \in Ids : i >= nextId => nameOf[i] = NoName

CachesOK ==
  /\ visible \in [Names -> SUBSET Names]
  /\ observers \in [Names -> SUBSET Names]
  /\ CachesMirror

RestOK ==
  /\ registered \subseteq Names
  /\ taken \in Seq(SUBSET Event)
  /\ inGroup \subseteq Names
  /\ clients \subseteq Players
  /\ raised \in BOOLEAN

GridOK == GridTypeOK /\ SeesOnlyNear

Inv == GridOK /\ NamesOK /\ CachesOK /\ RestOK

LEMMA InitInv == Init => Inv
<1> SUFFICES ASSUME Init PROVE Inv
  OBVIOUS
<1> USE Facts
<1>1. GridOK
  <2>1. GridTypeOK
    BY DEF Init, GridInit, GridTypeOK
  <2>2. \A o \in Ids : seen[o] = {}
    BY DEF Init, GridInit
  <2> QED BY <2>1, <2>2 DEF GridOK, SeesOnlyNear
<1>2. NamesOK
  BY DEF Init, GridInit, NamesOK
<1>3. CachesOK
  BY DEF Init, CachesOK, CachesMirror
<1>4. RestOK
  <2>1. raised \in BOOLEAN
    BY Zenon DEF Init
  <2>2. registered = {} /\ taken = <<>> /\ inGroup = {} /\ clients = {}
    BY Zenon DEF Init
  <2> QED BY <2>1, <2>2 DEF RestOK
<1> QED BY <1>1, <1>2, <1>3, <1>4 DEF Inv

\* A name that is new gets a number that nobody has, so the object is new to
\* the grid; otherwise the object of its number moves.
LEMMA DoInsertInv ==
  ASSUME Inv, NEW n \in Names, NEW c \in Cells, NEW r \in Reaches, DoInsert(n, c, r)
  PROVE  GridOK' /\ NamesOK' /\ CachesOK'
<1> USE Facts
<1>1. CachesOK'
  BY DEF DoInsert, Inv, CachesOK, CachesMirror
<1>2. CASE idOf[n] = NoId /\ Number(n)
  <2> DEFINE i == nextId
  <2>1. /\ i \in Ids /\ nextId' = i + 1
        /\ idOf' = [idOf EXCEPT ![n] = i]
        /\ nameOf' = [nameOf EXCEPT ![i] = n]
    BY <1>2 DEF Number
  <2>2. idOf'[n] = i /\ nameOf[i] = NoName /\ cell[i] = NoCell
    BY <2>1 DEF Inv, NamesOK
  <2>3. InsertNew(i, c, r)
    BY <2>2 DEF DoInsert, Insert, Update
  <2>4. GridStep(i) /\ cell'[i] # NoCell
    BY <2>1, <2>3, InsertNewGrid DEF Inv, GridOK
  <2>5. idOf' \in [Names -> Ids \cup {NoId}] /\ nameOf' \in [Ids -> Names \cup {NoName}]
    BY <2>1 DEF Inv, NamesOK
  <2>6. \A m \in Names, j \in Ids : idOf'[m] = j <=> nameOf'[j] = m
    BY <2>1, <2>2, <1>2 DEF Inv, NamesOK
  <2>7. \A j \in Ids : cell'[j] # NoCell <=> nameOf'[j] # NoName
    BY <2>1, <2>4 DEF Inv, NamesOK, GridStep
  <2>8. nextId' \in 1..MaxAdds + 1 /\ \A j \in Ids : j >= nextId' => nameOf'[j] = NoName
    BY <2>1 DEF Inv, NamesOK
  <2> QED BY <1>1, <2>4, <2>5, <2>6, <2>7, <2>8 DEF GridStep, GridOK, NamesOK
<1>3. CASE idOf[n] # NoId /\ UNCHANGED <<idOf, nameOf, nextId>>
  <2> DEFINE i == idOf[n]
  <2>1. i \in Ids /\ cell[i] # NoCell /\ idOf'[n] = i
    BY <1>3 DEF Inv, NamesOK
  <2>2. Update(i, c)
    BY <2>1 DEF DoInsert, Insert, InsertNew
  <2>3. GridStep(i) /\ cell'[i] # NoCell
    BY <2>1, <2>2, UpdateGrid DEF Inv, GridOK
  <2>4. NamesOK'
    BY <1>3, <2>1, <2>3 DEF Inv, NamesOK, GridStep
  <2> QED BY <1>1, <2>3, <2>4 DEF GridStep, GridOK
<1> QED BY <1>2, <1>3 DEF DoInsert

LEMMA UpdatePositionInv ==
  ASSUME Inv, NEW n \in Names, NEW c \in Cells, UpdatePosition(n, c)
  PROVE  Inv'
<1> DEFINE i == idOf[n]
<1> USE Facts
<1>1. i \in Ids /\ Update(i, c)
  BY DEF UpdatePosition, Inv, NamesOK
<1>2. GridStep(i) /\ cell[i] # NoCell /\ cell'[i] # NoCell
  BY <1>1, UpdateGrid DEF Inv, GridOK
<1>3. NamesOK'
  BY <1>1, <1>2 DEF UpdatePosition, managerVars, Inv, NamesOK, GridStep
<1>4. CachesOK'
  BY DEF UpdatePosition, managerVars, Inv, CachesOK, CachesMirror
<1>5. RestOK'
  BY DEF UpdatePosition, groupVars, Inv, RestOK
<1> QED BY <1>2, <1>3, <1>4, <1>5 DEF Inv, GridOK, GridStep

\* A name that goes leaves both caches, wherever the other one lists it.
LEMMA DoRemoveInv ==
  ASSUME Inv, NEW n \in Names, DoRemove(n)
  PROVE  GridOK' /\ NamesOK' /\ CachesOK'
<1> DEFINE i == idOf[n]
<1> USE Facts
<1>1. /\ i \in Ids /\ Remove(i)
      /\ idOf' = [idOf EXCEPT ![n] = NoId]
      /\ nameOf' = [nameOf EXCEPT ![i] = NoName]
      /\ nextId' = nextId
  BY DEF DoRemove, Inv, NamesOK
<1>2. GridStep(i) /\ cell'[i] = NoCell
  BY <1>1, RemoveGrid DEF Inv, GridOK
<1>3. \A m \in Names, j \in Ids : idOf'[m] = j <=> nameOf'[j] = m
  BY <1>1 DEF Inv, NamesOK
<1>4. \A j \in Ids : cell'[j] # NoCell <=> nameOf'[j] # NoName
  BY <1>1, <1>2 DEF Inv, NamesOK, GridStep
<1>5. NamesOK'
  BY <1>1, <1>3, <1>4 DEF Inv, NamesOK
<1>6. CachesOK'
  <2>1. visible' \in [Names -> SUBSET Names] /\ observers' \in [Names -> SUBSET Names]
    BY DEF DoRemove, ForgetCaches, Inv, CachesOK
  <2>2. ASSUME NEW a \in Names, NEW b \in Names
        PROVE  b \in visible'[a] <=> a \in observers'[b]
    <3>1. b \in visible'[a] <=> b \in visible[a] /\ a # n /\ b # n
      BY DEF DoRemove, ForgetCaches, Inv, CachesOK, CachesMirror
    <3>2. a \in observers'[b] <=> a \in observers[b] /\ a # n /\ b # n
      BY DEF DoRemove, ForgetCaches, Inv, CachesOK, CachesMirror
    <3> QED BY <3>1, <3>2 DEF Inv, CachesOK, CachesMirror
  <2> QED BY <2>1, <2>2 DEF CachesOK, CachesMirror
<1> QED BY <1>2, <1>5, <1>6 DEF GridStep, GridOK

LEMMA GroupCallInv ==
  ASSUME Inv, \/ \E n \in Names : Enroll(n)
              \/ \E p \in Players : Join(p) \/ Leave(p)
  PROVE  Inv'
<1> USE DEF Enroll, Join, Leave, gridVars, managerVars, Inv
<1>1. GridOK'
  BY DEF GridOK, GridTypeOK, SeesOnlyNear, Visible
<1>2. NamesOK'
  BY DEF NamesOK
<1>3. CachesOK'
  BY DEF CachesOK, CachesMirror
<1>4. RestOK'
  BY DEF RestOK
<1> QED BY <1>1, <1>2, <1>3, <1>4

LEMMA TakeInv == ASSUME Inv, Take PROVE Inv'
<1> USE DEF Take, managerVars, groupVars, Inv
<1>1. GridOK'
  BY DEF GridOK, GridTypeOK, SeesOnlyNear, Visible
<1>2. NamesOK'
  BY DEF NamesOK
<1>3. CachesOK'
  BY DEF CachesOK, CachesMirror
<1>4. RestOK'
  BY DEF RestOK, GridOK, GridTypeOK
<1> QED BY <1>1, <1>2, <1>3, <1>4

LEMMA AfterType ==
  ASSUME taken \in Seq(SUBSET Event), taken # <<>>, NEW e \in Head(taken)
  PROVE  e \in Event /\ After(e) \in Seq(SUBSET Event)
<1>1. Head(taken) \in SUBSET Event /\ Tail(taken) \in Seq(SUBSET Event)
  OBVIOUS
<1>2. ASSUME NEW rest \in SUBSET Event
      PROVE  <<rest>> \o Tail(taken) \in Seq(SUBSET Event)
  BY <1>1
<1>3. Head(taken) \ {e} \in SUBSET Event
  BY <1>1
<1> QED BY <1>1, <1>2, <1>3, Zenon DEF After

\* The steps of a tick leave the grid and the names alone.
LEMMA EventFrame ==
  ASSUME GridOK, NamesOK, UNCHANGED <<gridVars, idOf, nameOf, nextId>>
  PROVE  GridOK' /\ NamesOK'
<1>1. GridOK'
  BY DEF gridVars, GridOK, GridTypeOK, SeesOnlyNear, Visible
<1>2. NamesOK'
  BY DEF gridVars, NamesOK
<1> QED BY <1>1, <1>2

LEMMA EventInv ==
  ASSUME Inv, taken # <<>>, NEW e \in Head(taken),
         SkipEvent(e) \/ EnterEvent(e) \/ LeaveEvent(e)
  PROVE  Inv'
<1> DEFINE o == nameOf[e.observer]
           t == nameOf[e.target]
<1> USE Facts
<1>1. e \in Event /\ After(e) \in Seq(SUBSET Event)
  BY AfterType DEF Inv, RestOK
<1>2. GridOK' /\ NamesOK'
  BY EventFrame DEF Inv, SkipEvent, EnterEvent, LeaveEvent, managerVars
<1>3. Named(e) => o \in Names /\ t \in Names
  BY <1>1 DEF Named, Event, Inv, NamesOK
<1>4. CachesOK'
  <2>1. CASE SkipEvent(e)
    BY <2>1 DEF SkipEvent, managerVars, Inv, CachesOK, CachesMirror
  <2>2. CASE EnterEvent(e)
    <3>1. /\ visible' = [visible EXCEPT ![o] = @ \cup {t}]
          /\ observers' = [observers EXCEPT ![t] = @ \cup {o}]
          /\ o \in Names /\ t \in Names
      BY <2>2, <1>3 DEF EnterEvent
    <3> QED BY <3>1 DEF Inv, CachesOK, CachesMirror
  <2>3. CASE LeaveEvent(e)
    <3>1. /\ visible' = [visible EXCEPT ![o] = @ \ {t}]
          /\ observers' = [observers EXCEPT ![t] = @ \ {o}]
          /\ o \in Names /\ t \in Names
      BY <2>3, <1>3 DEF LeaveEvent
    <3> QED BY <3>1 DEF Inv, CachesOK, CachesMirror
  <2> QED BY <2>1, <2>2, <2>3
<1>5. RestOK'
  <2>1. CASE SkipEvent(e) \/ EnterEvent(e)
    BY <2>1, <1>1 DEF SkipEvent, EnterEvent, groupVars, Inv, RestOK
  <2>2. CASE LeaveEvent(e)
    <3>1. taken' \in Seq(SUBSET Event)
      <4>1. taken' = <<>> \/ taken' = After(e)
        BY <2>2, Zenon DEF LeaveEvent
      <4>2. <<>> \in Seq(SUBSET Event)
        OBVIOUS
      <4> QED BY <4>1, <4>2, <1>1, Zenon
    <3>2. registered' \subseteq Names /\ inGroup' \subseteq Names /\ clients' \subseteq Players
      BY <2>2 DEF LeaveEvent, Evict, groupVars, Inv, RestOK
    <3>3. raised' \in BOOLEAN
      BY <2>2 DEF LeaveEvent, groupVars, Inv, RestOK
    <3> QED BY <3>1, <3>2, <3>3 DEF RestOK
  <2> QED BY <2>1, <2>2
<1> QED BY <1>2, <1>4, <1>5 DEF Inv

LEMMA NextInv == Inv /\ [Next]_vars => Inv'
<1> SUFFICES ASSUME Inv, [Next]_vars PROVE Inv'
  OBVIOUS
<1>1. ASSUME NEW n \in Names, NEW c \in Cells, NEW r \in Reaches,
             Add(n, c, r) \/ AoiRegister(n, c, r)
      PROVE  Inv'
  <2>1. RestOK'
    BY <1>1 DEF Add, AoiRegister, groupVars, Inv, RestOK
  <2> QED BY <2>1, <1>1, DoInsertInv DEF Add, AoiRegister, Inv
<1>2. ASSUME NEW n \in Names, NEW c \in Cells, UpdatePosition(n, c)
      PROVE  Inv'
  BY <1>2, UpdatePositionInv
<1>3. ASSUME NEW n \in Names, RemoveObject(n) \/ AoiUnregister(n)
      PROVE  Inv'
  <2>1. RestOK'
    BY <1>3 DEF RemoveObject, AoiUnregister, groupVars, Inv, RestOK
  <2> QED BY <2>1, <1>3, DoRemoveInv DEF RemoveObject, AoiUnregister, Inv
<1>4. CASE Tick
  BY <1>4, TakeInv, EventInv DEF Tick
<1>5. CASE UNCHANGED vars
  <2>1. GridOK' /\ NamesOK'
    BY <1>5, EventFrame DEF vars, managerVars, Inv
  <2>2. CachesOK' /\ RestOK'
    BY <1>5 DEF vars, managerVars, groupVars, Inv, CachesOK, CachesMirror, RestOK
  <2> QED BY <2>1, <2>2 DEF Inv
<1> QED BY <1>1, <1>2, <1>3, <1>4, <1>5, GroupCallInv DEF Next

-----------------------------------------------------------------------------
\* Types: a name and its number point at each other, and the objects of the
\* grid are those with a name.
THEOREM TypeCorrect == Spec => []TypeOK
<1>1. Inv => TypeOK
  BY DEF Inv, GridOK, NamesOK, CachesOK, RestOK, TypeOK
<1> QED BY <1>1, InitInv, NextInv, PTL DEF Spec

\* Nobody is kept in the view of an object that cannot see it: GridAoi
\* recomputes enough objects after each operation.
THEOREM NearCorrect == Spec => []SeesOnlyNear
<1>1. Inv => SeesOnlyNear
  BY DEF Inv, GridOK
<1> QED BY <1>1, InitInv, NextInv, PTL DEF Spec

\* The two caches of AoiManager say the same at every moment.
THEOREM MirrorCorrect == Spec => []CachesMirror
<1>1. Inv => CachesMirror
  BY DEF Inv, CachesOK
<1> QED BY <1>1, InitInv, NextInv, PTL DEF Spec

-----------------------------------------------------------------------------
\* The step formula of MoversMeet.
Meet ==
  \A i, o \in Ids :
    /\ cell[i] # NoCell /\ cell'[i] \notin {NoCell, cell[i]}
    /\ i \in Visible(o, cell', reach') /\ o \in Visible(i, cell', reach')
    => i \in seen'[o] /\ o \in seen'[i]

LEMMA OperationMeets ==
  ASSUME GridOK, NEW i \in Ids,
         \/ \E c \in Cells, r \in Reaches : Insert(i, c, r)
         \/ \E c \in Cells : Update(i, c)
         \/ Remove(i)
  PROVE  Meet
<1>1. CASE \E c \in Cells, r \in Reaches : InsertNew(i, c, r)
  <2>1. cell[i] = NoCell
    BY <1>1 DEF InsertNew
  <2>2. \A o \in Ids \ {i} : cell'[o] = cell[o]
    BY <1>1, InsertNewGrid DEF GridOK, GridStep
  <2> QED BY <2>1, <2>2 DEF Meet
<1>2. CASE \E c \in Cells : Update(i, c)
  <2>1. /\ \A o \in Ids \ {i} : cell'[o] = cell[o]
        /\ \A o \in Visible(i, cell', reach') :
             /\ o \in seen'[i]
             /\ i \in Visible(o, cell', reach') => i \in seen'[o]
    BY <1>2, UpdateGrid DEF GridOK, GridStep
  <2> QED BY <2>1 DEF Meet
<1>3. CASE Remove(i)
  <2>1. cell'[i] = NoCell /\ \A o \in Ids \ {i} : cell'[o] = cell[o]
    BY <1>3, RemoveGrid DEF GridOK, GridStep
  <2> QED BY <2>1 DEF Meet
<1> QED BY <1>1, <1>2, <1>3 DEF Insert

LEMMA NextMeets == Inv /\ [Next]_vars => Meet
<1> SUFFICES ASSUME Inv, [Next]_vars PROVE Meet
  OBVIOUS
<1>1. GridOK /\ \A n \in Names : idOf[n] # NoId => idOf[n] \in Ids
  BY DEF Inv, NamesOK
<1>2. ASSUME NEW n \in Names, NEW c \in Cells, NEW r \in Reaches,
             Add(n, c, r) \/ AoiRegister(n, c, r)
      PROVE  Meet
  <2>1. DoInsert(n, c, r)
    BY <1>2 DEF Add, AoiRegister
  <2>2. idOf'[n] \in Ids
    BY <2>1, <1>1, Facts DEF DoInsert, Number, Inv, NamesOK
  <2>3. Insert(idOf'[n], c, r)
    BY <2>1 DEF DoInsert
  <2> DEFINE i == idOf'[n]
  <2> HIDE DEF i
  <2>4. i \in Ids /\ Insert(i, c, r)
    BY <2>2, <2>3 DEF i
  <2> QED BY <2>4, <1>1, OperationMeets
<1>3. ASSUME NEW n \in Names, NEW c \in Cells, UpdatePosition(n, c)
      PROVE  Meet
  BY <1>1, <1>3, OperationMeets DEF UpdatePosition
<1>4. ASSUME NEW n \in Names, RemoveObject(n) \/ AoiUnregister(n)
      PROVE  Meet
  BY <1>1, <1>4, OperationMeets DEF RemoveObject, AoiUnregister, DoRemove
<1>5. CASE cell' = cell
  BY <1>5 DEF Meet
<1>6. ASSUME \/ Tick
             \/ \E n \in Names : Enroll(n)
             \/ \E p \in Players : Join(p) \/ Leave(p)
             \/ UNCHANGED vars
      PROVE  cell' = cell
  BY <1>6 DEF Tick, Take, SkipEvent, EnterEvent, LeaveEvent, Enroll, Join, Leave, vars, gridVars
<1> QED BY <1>2, <1>3, <1>4, <1>5, <1>6 DEF Next

\* An object that moves and one within mutual reach of its new place see each
\* other at once.
THEOREM MoversCorrect == Spec => MoversMeet
<1>1. Inv /\ [Next]_vars => [Meet]_vars
  BY NextMeets
<1>2. Spec => [][Meet]_vars
  BY <1>1, InitInv, NextInv, PTL DEF Spec
<1> QED BY <1>2 DEF Meet, MoversMeet

-----------------------------------------------------------------------------
\* The caches and the events on their way. A queue of events agrees with what
\* o sees (sn) and what the cache says of it (vs), as far as target t of name
\* b is concerned, when the last of its events about o and t says what o sees,
\* or the cache does and there is no such event.
Is(e, o, t) == e.observer = o /\ e.target = t
Silent(batch, o, t) == \A e \in batch : ~Is(e, o, t)

Agree(q, o, t, sn, b, vs) ==
  \/ /\ \A k \in 1..Len(q) : Silent(q[k], o, t)
     /\ t \in sn <=> b \in vs
  \/ \E k \in 1..Len(q) :
       /\ ~Silent(q[k], o, t)
       /\ \A e \in q[k] : Is(e, o, t) => (e.kind = "enter" <=> t \in sn)
       /\ \A j \in 1..Len(q) : j > k => Silent(q[j], o, t)

LEMMA AppendAgree ==
  ASSUME NEW q \in Seq(SUBSET Event), NEW ev \in SUBSET Event, NEW o, NEW t,
         NEW sn, NEW sn2, NEW b, NEW vs, Agree(q, o, t, sn, b, vs),
         \A e \in ev : Is(e, o, t) => (e.kind = "enter" <=> t \in sn2),
         Silent(ev, o, t) => (t \in sn <=> t \in sn2)
  PROVE  Agree(Append(q, ev), o, t, sn2, b, vs)
<1> DEFINE q2 == Append(q, ev)
<1>1. /\ Len(q2) = Len(q) + 1 /\ Len(q) \in Nat
      /\ \A k \in 1..Len(q) : q2[k] = q[k]
      /\ q2[Len(q) + 1] = ev
  OBVIOUS
<1> HIDE DEF q2
<1>2. CASE ~Silent(ev, o, t)
  <2>1. Len(q) + 1 \in 1..Len(q2) /\ \A j \in 1..Len(q2) : ~(j > Len(q) + 1)
    BY <1>1
  <2> QED BY <1>1, <1>2, <2>1 DEF Agree, q2
<1>3. CASE Silent(ev, o, t)
  <2>1. t \in sn <=> t \in sn2
    BY <1>3
  <2>2. \A j \in 1..Len(q2) : j \in 1..Len(q) \/ q2[j] = ev
    BY <1>1
  <2>3. CASE \A k \in 1..Len(q) : Silent(q[k], o, t)
    <3>1. \A k \in 1..Len(q2) : Silent(q2[k], o, t)
      BY <1>1, <1>3, <2>2, <2>3
    <3>2. t \in sn <=> b \in vs
      BY <2>3 DEF Agree
    <3> QED BY <2>1, <3>1, <3>2 DEF Agree, q2
  <2>4. CASE ~\A k \in 1..Len(q) : Silent(q[k], o, t)
    <3>1. PICK k \in 1..Len(q) :
            /\ ~Silent(q[k], o, t)
            /\ \A e \in q[k] : Is(e, o, t) => (e.kind = "enter" <=> t \in sn)
            /\ \A j \in 1..Len(q) : j > k => Silent(q[j], o, t)
      BY <2>4 DEF Agree
    <3>2. \A j \in 1..Len(q2) : j > k => Silent(q2[j], o, t)
      BY <1>1, <1>3, <2>2, <3>1
    <3>3. k \in 1..Len(q2) /\ q2[k] = q[k]
      BY <1>1
    <3> QED BY <2>1, <3>1, <3>2, <3>3 DEF Agree, q2
  <2> QED BY <2>3, <2>4
<1> QED BY <1>2, <1>3

\* The queue without one event of its first operation.
Drop(q, e) == IF Head(q) \ {e} = {} THEN Tail(q) ELSE <<Head(q) \ {e}>> \o Tail(q)

\* d is q moved by s places, with its first batch without e.
Shifted(q, d, e, s) ==
  /\ Len(d) = Len(q) - s
  /\ \A k \in 1..Len(q) - s : d[k] = IF k + s = 1 THEN q[1] \ {e} ELSE q[k + s]
  /\ s = 1 <=> q[1] \ {e} = {}

LEMMA DropIs ==
  ASSUME NEW q \in Seq(SUBSET Event), q # <<>>, NEW e \in Head(q)
  PROVE  /\ Drop(q, e) \in Seq(SUBSET Event)
         /\ \E s \in {0, 1} : Shifted(q, Drop(q, e), e, s)
<1> DEFINE T == Tail(q)
<1>1. /\ Head(q) = q[1] /\ Len(q) \in Nat \ {0}
      /\ T \in Seq(SUBSET Event) /\ Len(T) = Len(q) - 1
      /\ \A k \in 1..Len(q) - 1 : T[k] = q[k + 1]
      /\ q[1] \ {e} \in SUBSET Event
  OBVIOUS
<1>2. CASE q[1] \ {e} = {}
  <2>1. Drop(q, e) = T
    BY <1>1, <1>2 DEF Drop
  <2> HIDE DEF T
  <2>2. \A k \in 1..Len(q) - 1 : k + 1 # 1
    BY <1>1
  <2>3. Shifted(q, T, e, 1)
    BY <1>1, <1>2, <2>2 DEF Shifted
  <2> QED BY <1>1, <2>1, <2>3
<1>3. CASE q[1] \ {e} # {}
  <2> DEFINE rest == q[1] \ {e}
             d == <<rest>> \o T
  <2>1. Drop(q, e) = d
    BY <1>1, <1>3 DEF Drop
  <2>2. rest \in SUBSET Event
    BY <1>1
  <2> HIDE DEF rest, T
  <2>3. /\ d \in Seq(SUBSET Event)
        /\ Len(d) = Len(T) + 1
        /\ d[1] = rest
        /\ \A k \in 1..Len(T) + 1 : k # 1 => d[k] = T[k - 1]
    BY <1>1, <2>2
  <2> HIDE DEF d
  <2>4. \A k \in 1..Len(q) - 0 : d[k] = IF k + 0 = 1 THEN rest ELSE q[k + 0]
    <3> TAKE k \in 1..Len(q) - 0
    <3>1. CASE k = 1
      BY <1>1, <2>3, <3>1
    <3>2. CASE k # 1
      <4>1. k - 1 \in 1..Len(q) - 1 /\ k \in 1..Len(T) + 1 /\ (k - 1) + 1 = k
        BY <1>1, <3>2
      <4> QED BY <1>1, <2>3, <3>2, <4>1
    <3> QED BY <3>1, <3>2
  <2>5. Shifted(q, d, e, 0)
    <3>1. Len(d) = Len(q) - 0 /\ (0 = 1 <=> q[1] \ {e} = {})
      BY <1>1, <1>3, <2>3
    <3> QED BY <2>4, <3>1, Zenon DEF Shifted, rest
  <2> QED BY <2>1, <2>3, <2>5
<1> QED BY <1>2, <1>3

\* Applying an event to the cache keeps the agreement about its objects, and
\* about any others.
LEMMA DropAgree ==
  ASSUME NEW q \in Seq(SUBSET Event), q # <<>>, NEW e \in Head(q), NEW o, NEW t,
         NEW sn, NEW b, NEW vs, NEW vs2, Agree(q, o, t, sn, b, vs),
         \A f \in q[1] : f.observer = e.observer /\ f.target = e.target => f = e,
         IF Is(e, o, t) THEN b \in vs2 <=> e.kind = "enter" ELSE b \in vs2 <=> b \in vs
  PROVE  Agree(Drop(q, e), o, t, sn, b, vs2)
<1> DEFINE d == Drop(q, e)
<1>0. PICK s \in {0, 1} : Shifted(q, d, e, s)
  BY DropIs
<1> HIDE DEF d
<1>1. /\ Len(q) \in Nat
      /\ Len(d) = Len(q) - s
      /\ \A k \in 1..Len(q) - s : d[k] = IF k + s = 1 THEN q[1] \ {e} ELSE q[k + s]
      /\ s = 1 <=> q[1] \ {e} = {}
  <2>1. Len(q) \in Nat
    OBVIOUS
  <2> QED BY <1>0, <2>1, Zenon DEF Shifted
<1>2. e \in q[1] /\ 1 \in 1..Len(q)
  OBVIOUS
<1>3. \A k \in 1..Len(d) : k + s \in 1..Len(q)
                        /\ (Silent(q[k + s], o, t) => Silent(d[k], o, t))
  BY <1>1 DEF Silent
<1>4. ASSUME \A k \in 1..Len(d) : Silent(d[k], o, t), t \in sn <=> b \in vs2
      PROVE  Agree(d, o, t, sn, b, vs2)
  BY <1>4 DEF Agree
<1>5. ASSUME NEW k \in 1..Len(q), k - s \in 1..Len(d), ~Silent(d[k - s], o, t),
             \A f \in q[k] : Is(f, o, t) => (f.kind = "enter" <=> t \in sn),
             \A j \in 1..Len(q) : j > k => Silent(q[j], o, t)
      PROVE  Agree(d, o, t, sn, b, vs2)
  <2>0. k - s \in 1..Len(q) - s /\ (k - s) + s = k
    BY <1>1, <1>5
  <2>1. d[k - s] \subseteq q[k]
    BY <1>1, <2>0
  <2>2. \A j \in 1..Len(d) : j > k - s => Silent(d[j], o, t)
    BY <1>1, <1>3, <1>5
  <2>3. \A f \in d[k - s] : Is(f, o, t) => (f.kind = "enter" <=> t \in sn)
    BY <1>5, <2>1
  <2> QED BY <1>5, <2>2, <2>3 DEF Agree
<1>6. CASE \A k \in 1..Len(q) : Silent(q[k], o, t)
  <2>1. ~Is(e, o, t) /\ (t \in sn <=> b \in vs)
    BY <1>2, <1>6 DEF Silent, Agree
  <2> QED BY <1>3, <1>4, <1>6, <2>1 DEF d
<1>7. CASE ~\A k \in 1..Len(q) : Silent(q[k], o, t)
  <2>1. PICK k \in 1..Len(q) :
          /\ ~Silent(q[k], o, t)
          /\ \A f \in q[k] : Is(f, o, t) => (f.kind = "enter" <=> t \in sn)
          /\ \A j \in 1..Len(q) : j > k => Silent(q[j], o, t)
    BY <1>7 DEF Agree
  <2>2. CASE k # 1
    <3>0. k - s \in 1..Len(q) - s /\ (k - s) + s = k
      BY <1>1, <2>2
    <3>1. k - s \in 1..Len(d) /\ d[k - s] = q[k]
      BY <1>1, <2>2, <3>0
    <3> QED BY <1>5, <2>1, <3>1 DEF d
  <2>3. CASE k = 1 /\ Is(e, o, t)
    <3>1. \A f \in q[1] : Is(f, o, t) => f = e
      BY <2>3 DEF Is
    <3>2. Silent(q[1] \ {e}, o, t)
      BY <3>1 DEF Silent
    <3>3. \A j \in 1..Len(d) : Silent(d[j], o, t)
      BY <1>1, <2>1, <2>3, <3>2
    <3>4. t \in sn <=> b \in vs2
      BY <1>2, <2>1, <2>3
    <3> QED BY <1>4, <3>3, <3>4 DEF d
  <2>4. CASE k = 1 /\ ~Is(e, o, t)
    <3>1. ~Silent(q[1] \ {e}, o, t)
      BY <2>1, <2>4 DEF Silent
    <3>2. s = 0
      BY <1>1, <3>1 DEF Silent
    <3>3. k - s \in 1..Len(d) /\ d[k - s] = q[1] \ {e}
      BY <1>1, <1>2, <2>4, <3>2
    <3> QED BY <1>5, <2>1, <3>1, <3>3 DEF d
  <2> QED BY <2>2, <2>3, <2>4
<1> QED BY <1>6, <1>7

LEMMA SameAgree ==
  ASSUME NEW q, NEW o, NEW t, NEW sn, NEW sn2, NEW b, NEW vs, NEW vs2,
         Agree(q, o, t, sn, b, vs), t \in sn <=> t \in sn2, b \in vs <=> b \in vs2
  PROVE  Agree(q, o, t, sn2, b, vs2)
BY DEF Agree

-----------------------------------------------------------------------------
\* The events of one operation: one at most for an observer and a target,
\* about numbers below top.
Batch(B, top) ==
  /\ \A e, f \in B : e.observer = f.observer /\ e.target = f.target => e = f
  /\ \A e \in B : e.observer < top /\ e.target < top

Told == \A k \in 1..Len(Waiting) : Batch(Waiting[k], nextId)

\* The caches list names that have a number.
Known == \A a, b \in Names : b \in visible[a] => idOf[a] # NoId /\ idOf[b] # NoId

CatchUp ==
  ~raised => \A a, b \in Names : idOf[a] # NoId /\ idOf[b] # NoId =>
               Agree(Waiting, idOf[a], idOf[b], seen[idOf[a]], b, visible[a])

\* What an operation of the grid puts into the queue: ev tells every change of
\* what the objects that are there after it see.
Tells(ev) ==
  /\ \A e \in ev : e.kind = "enter" <=> e.target \in seen'[e.observer]
  /\ \A e, f \in ev : e.observer = f.observer /\ e.target = f.target => e = f
  /\ \A e \in ev : /\ cell[e.observer] # NoCell \/ cell'[e.observer] # NoCell
                   /\ cell[e.target] # NoCell \/ cell'[e.target] # NoCell
  /\ \A o, t \in Ids : cell'[o] # NoCell /\ Silent(ev, o, t) =>
                         (t \in seen[o] <=> t \in seen'[o])
  /\ pending' = IF ev = {} THEN pending ELSE Append(pending, ev)

LEMMA SeenArePresent ==
  ASSUME GridOK, NEW o \in Ids, NEW t \in seen[o]
  PROVE  cell[o] # NoCell /\ cell[t] # NoCell
BY DEF GridOK, SeesOnlyNear, Visible

LEMMA RecomputeTells ==
  ASSUME GridOK, GridOK', Note(Differences(seen'))
  PROVE  Differences(seen') \in SUBSET Event /\ Tells(Differences(seen'))
<1> DEFINE ev == Differences(seen')
<1>0. seen \in [Ids -> SUBSET Ids] /\ seen' \in [Ids -> SUBSET Ids]
  BY DEF GridOK, GridTypeOK
<1>1. ev \in SUBSET Event
  BY <1>0 DEF Differences, Event
<1>2. ASSUME NEW e \in ev
      PROVE  \/ e.kind = "enter" /\ e.target \in seen'[e.observer] \ seen[e.observer]
             \/ e.kind = "leave" /\ e.target \in seen[e.observer] \ seen'[e.observer]
  <2>1. PICK o \in Ids :
          \/ e \in [kind : {"enter"}, observer : {o}, target : seen'[o] \ seen[o]]
          \/ e \in [kind : {"leave"}, observer : {o}, target : seen[o] \ seen'[o]]
    BY DEF Differences
  <2> QED BY <2>1
<1>3. ASSUME NEW o \in Ids, NEW t \in Ids, Silent(ev, o, t)
      PROVE  t \in seen[o] <=> t \in seen'[o]
  <2>1. t \in seen'[o] \ seen[o] => [kind |-> "enter", observer |-> o, target |-> t] \in ev
    BY <1>0 DEF Differences
  <2>2. t \in seen[o] \ seen'[o] => [kind |-> "leave", observer |-> o, target |-> t] \in ev
    BY <1>0 DEF Differences
  <2> QED BY <1>3, <2>1, <2>2 DEF Silent, Is
<1>4. pending' = IF ev = {} THEN pending ELSE Append(pending, ev)
  BY DEF Note
<1> HIDE DEF ev
<1>5. \A e \in ev : e.kind = "enter" <=> e.target \in seen'[e.observer]
  BY <1>2
<1>6. ASSUME NEW e \in ev, NEW f \in ev, e.observer = f.observer, e.target = f.target
      PROVE  e = f
  <2>1. e \in Event /\ f \in Event /\ e.kind = f.kind
    BY <1>1, <1>2, <1>6
  <2> QED BY <2>1, <1>6 DEF Event
<1>7. ASSUME NEW e \in ev
      PROVE  /\ cell[e.observer] # NoCell \/ cell'[e.observer] # NoCell
             /\ cell[e.target] # NoCell \/ cell'[e.target] # NoCell
  <2>1. e.observer \in Ids
    BY <1>1 DEF Event
  <2>2. \A t \in seen'[e.observer] : cell'[e.observer] # NoCell /\ cell'[t] # NoCell
    BY <2>1 DEF GridOK, SeesOnlyNear, Visible
  <2> QED BY <2>1, <2>2, <1>2, SeenArePresent
<1> QED BY <1>1, <1>3, <1>4, <1>5, <1>6, <1>7 DEF Tells, ev

LEMMA OperationTells ==
  ASSUME GridOK, NEW i \in Ids,
         \/ \E c \in Cells, r \in Reaches : Insert(i, c, r)
         \/ \E c \in Cells : Update(i, c)
         \/ Remove(i)
  PROVE  \E ev \in SUBSET Event : Tells(ev)
<1>1. CASE \E c \in Cells, r \in Reaches : InsertNew(i, c, r)
  <2>1. GridOK'
    BY <1>1, InsertNewGrid DEF GridOK, GridStep
  <2>2. Note(Differences(seen'))
    BY <1>1 DEF InsertNew, Recompute
  <2> QED BY <2>1, <2>2, RecomputeTells
<1>2. CASE \E c \in Cells : Update(i, c)
  <2>1. GridOK'
    BY <1>2, UpdateGrid DEF GridOK, GridStep
  <2>2. Note(Differences(seen'))
    BY <1>2 DEF Update, Recompute
  <2> QED BY <2>1, <2>2, RecomputeTells
<1>3. CASE Remove(i)
  <2> DEFINE ev == [kind : {"leave"}, observer : Observers(i), target : {i}]
  <2>1. /\ cell' = [cell EXCEPT ![i] = NoCell]
        /\ seen' = [o \in Ids |-> IF o = i THEN {} ELSE seen[o] \ {i}]
        /\ pending' = IF ev = {} THEN pending ELSE Append(pending, ev)
        /\ cell \in [Ids -> Cells \cup {NoCell}] /\ seen \in [Ids -> SUBSET Ids]
    BY <1>3 DEF Remove, Note, GridOK, GridTypeOK
  <2>2. \A e \in ev : /\ e \in Event /\ e.kind = "leave" /\ e.target = i
                      /\ e.observer \in Ids /\ i \in seen[e.observer]
    BY DEF Observers, Event
  <2>3. \A o \in Ids : i \in seen[o] =>
          [kind |-> "leave", observer |-> o, target |-> i] \in ev
    BY DEF Observers
  <2> HIDE DEF ev
  <2>4. \A e \in ev : e.kind = "enter" <=> e.target \in seen'[e.observer]
    BY <2>1, <2>2
  <2>5. \A e, f \in ev : e.observer = f.observer /\ e.target = f.target => e = f
    BY <2>2 DEF Event
  <2>6. \A e \in ev : cell[e.observer] # NoCell /\ cell[e.target] # NoCell
    BY <2>2, SeenArePresent
  <2>7. ASSUME NEW o \in Ids, NEW t \in Ids, cell'[o] # NoCell, Silent(ev, o, t)
        PROVE  t \in seen[o] <=> t \in seen'[o]
    <3>1. o # i
      BY <2>1, <2>7
    <3>2. ~(t = i /\ i \in seen[o])
      BY <2>3, <2>7 DEF Silent, Is
    <3> QED BY <2>1, <3>1, <3>2
  <2>8. Tells(ev)
    BY <2>1, <2>4, <2>5, <2>6, <2>7 DEF Tells
  <2>9. ev \in SUBSET Event
    BY <2>2
  <2> QED BY <2>8, <2>9
<1> QED BY <1>1, <1>2, <1>3 DEF Insert

\* The queue after an operation of the grid.
LEMMA OperationWaiting ==
  ASSUME taken \in Seq(SUBSET Event), pending \in Seq(SUBSET Event), taken' = taken,
         NEW ev \in SUBSET Event, Tells(ev)
  PROVE  /\ Waiting \in Seq(SUBSET Event)
         /\ Waiting' = IF ev = {} THEN Waiting ELSE Append(Waiting, ev)
<1>1. taken \o Append(pending, ev) = Append(taken \o pending, ev)
  OBVIOUS
<1>2. taken \o pending \in Seq(SUBSET Event)
  OBVIOUS
<1> QED BY <1>1, <1>2 DEF Waiting, Tells

\* An operation of the grid keeps what the queue says of two numbers that are
\* in use after it.
LEMMA OperationAgrees ==
  ASSUME taken \in Seq(SUBSET Event), pending \in Seq(SUBSET Event), taken' = taken,
         NEW ev \in SUBSET Event, Tells(ev),
         NEW o \in Ids, NEW t \in Ids, NEW b, NEW vs, cell'[o] # NoCell,
         Agree(Waiting, o, t, seen[o], b, vs)
  PROVE  Agree(Waiting', o, t, seen'[o], b, vs)
<1>1. /\ Waiting \in Seq(SUBSET Event)
      /\ Waiting' = IF ev = {} THEN Waiting ELSE Append(Waiting, ev)
  BY OperationWaiting
<1>2. \A e \in ev : Is(e, o, t) => (e.kind = "enter" <=> t \in seen'[o])
  BY DEF Tells, Is
<1>3. Silent(ev, o, t) => (t \in seen[o] <=> t \in seen'[o])
  BY DEF Tells
<1>4. CASE ev = {}
  BY <1>1, <1>3, <1>4, SameAgree DEF Silent
<1>5. CASE ev # {}
  <2>1. Agree(Append(Waiting, ev), o, t, seen'[o], b, vs)
    BY <1>1, <1>2, <1>3, AppendAgree
  <2> QED BY <1>1, <1>5, <2>1
<1> QED BY <1>4, <1>5

\* The numbers of the new events are in use before or after the operation.
LEMMA OperationTold ==
  ASSUME Inv, Told, taken' = taken, nextId' \in Nat, nextId' >= nextId, NamesOK',
         NEW ev \in SUBSET Event, Tells(ev)
  PROVE  Told'
<1>1. taken \in Seq(SUBSET Event) /\ pending \in Seq(SUBSET Event)
  BY DEF Inv, GridOK, GridTypeOK, RestOK
<1>2. /\ Waiting \in Seq(SUBSET Event)
      /\ Waiting' = IF ev = {} THEN Waiting ELSE Append(Waiting, ev)
  BY <1>1, OperationWaiting
<1>3. \A i \in Ids : cell[i] # NoCell \/ cell'[i] # NoCell => i < nextId'
  <2>1. Ids \subseteq Nat /\ nextId \in Nat
    BY Facts DEF Inv, NamesOK
  <2>2. \A i \in Ids : cell[i] # NoCell => i < nextId
    BY <2>1 DEF Inv, NamesOK
  <2>3. \A i \in Ids : cell'[i] # NoCell => i < nextId'
    BY <2>1 DEF NamesOK
  <2> QED BY <2>1, <2>2, <2>3
<1>0. \A e \in Event : e.observer \in Ids /\ e.target \in Ids
  BY DEF Event
<1>4. Batch(ev, nextId')
  <2>1. ASSUME NEW e \in ev PROVE e.observer < nextId' /\ e.target < nextId'
    <3>1. e.observer \in Ids /\ e.target \in Ids
      BY <1>0
    <3>2. /\ cell[e.observer] # NoCell \/ cell'[e.observer] # NoCell
          /\ cell[e.target] # NoCell \/ cell'[e.target] # NoCell
      BY DEF Tells
    <3> QED BY <1>3, <3>1, <3>2
  <2>2. \A e, f \in ev : e.observer = f.observer /\ e.target = f.target => e = f
    BY DEF Tells
  <2> QED BY <2>1, <2>2 DEF Batch
<1>5. ASSUME NEW B \in SUBSET Event, Batch(B, nextId)
      PROVE  Batch(B, nextId')
  <2>1. Ids \subseteq Nat /\ nextId \in Nat
    BY Facts DEF Inv, NamesOK
  <2>2. ASSUME NEW e \in B PROVE e.observer < nextId' /\ e.target < nextId'
    <3>1. e.observer \in Nat /\ e.target \in Nat
      BY <1>0, <2>1
    <3>2. e.observer < nextId /\ e.target < nextId
      BY <1>5 DEF Batch
    <3> QED BY <2>1, <3>1, <3>2
  <2> QED BY <2>2, <1>5 DEF Batch
<1> DEFINE q == Waiting
           q2 == Waiting'
<1>6. \A k \in 1..Len(q) : Batch(q[k], nextId')
  BY <1>2, <1>5 DEF Told
<1>7. q2 = q \/ q2 = Append(q, ev)
  BY <1>2
<1> HIDE DEF q, q2
<1>8. \A k \in 1..Len(q2) : (k \in 1..Len(q) /\ q2[k] = q[k]) \/ q2[k] = ev
  BY <1>2, <1>7 DEF q
<1>9. \A k \in 1..Len(q2) : Batch(q2[k], nextId')
  BY <1>4, <1>6, <1>8
<1> QED BY <1>9 DEF Told, q2

Inv2 == Inv /\ Told /\ Known /\ CatchUp

\* A number that has just been given away: no event is about it, nobody sees
\* it, and no cache lists its name.
LEMMA FreshAgrees ==
  ASSUME Inv2, NEW o \in Ids, NEW t \in Ids, NEW a \in Names, NEW b \in Names,
         o >= nextId \/ t >= nextId, idOf[a] = NoId \/ idOf[b] = NoId
  PROVE  Agree(Waiting, o, t, seen[o], b, visible[a])
<1>1. Ids \subseteq Nat /\ nextId \in Nat
  BY Facts DEF Inv2, Inv, NamesOK
<1>2. \A k \in 1..Len(Waiting) : Silent(Waiting[k], o, t)
  BY <1>1 DEF Inv2, Told, Batch, Silent, Is
<1>3. b \notin visible[a]
  BY DEF Inv2, Known
<1>4. t \notin seen[o]
  <2>1. cell[o] = NoCell \/ cell[t] = NoCell
    BY <1>1 DEF Inv2, Inv, NamesOK
  <2> QED BY <2>1, SeenArePresent DEF Inv2, Inv
<1> QED BY <1>2, <1>3, <1>4 DEF Agree

LEMMA DoInsertCatchUp ==
  ASSUME Inv2, NEW n \in Names, NEW c \in Cells, NEW r \in Reaches, DoInsert(n, c, r),
         UNCHANGED <<taken, raised>>
  PROVE  Told' /\ Known' /\ CatchUp'
<1> USE Facts
<1>1. GridOK' /\ NamesOK'
  BY DoInsertInv DEF Inv2
<1>2. idOf'[n] \in Ids /\ nextId' \in Nat /\ nextId' >= nextId
  BY DEF DoInsert, Number, Inv2, Inv, NamesOK
<1>3. \E ev \in SUBSET Event : Tells(ev)
  <2> DEFINE i == idOf'[n]
  <2> HIDE DEF i
  <2>1. i \in Ids /\ Insert(i, c, r)
    BY <1>2 DEF DoInsert, i
  <2> QED BY <2>1, OperationTells DEF Inv2, Inv
<1>4. PICK ev \in SUBSET Event : Tells(ev)
  BY <1>3
<1>5. Told'
  BY <1>1, <1>2, <1>4, OperationTold DEF Inv2
<1>6. visible' = visible /\ \A m \in Names : idOf[m] # NoId => idOf'[m] = idOf[m]
  BY DEF DoInsert, Number, Inv2, Inv, NamesOK
<1>7. Known'
  BY <1>6 DEF Inv2, Known
<1>8. ASSUME ~raised', NEW a \in Names, NEW b \in Names, idOf'[a] # NoId, idOf'[b] # NoId
      PROVE  Agree(Waiting', idOf'[a], idOf'[b], seen'[idOf'[a]], b, visible'[a])
  <2> DEFINE o == idOf'[a]
             t == idOf'[b]
  <2>1. o \in Ids /\ t \in Ids /\ cell'[o] # NoCell
    BY <1>1, <1>8 DEF NamesOK
  <2>2. Agree(Waiting, o, t, seen[o], b, visible[a])
    <3>1. CASE idOf[a] # NoId /\ idOf[b] # NoId
      BY <3>1, <1>6, <1>8 DEF Inv2, CatchUp
    <3>2. CASE idOf[a] = NoId \/ idOf[b] = NoId
      <4>1. \A m \in Names : idOf[m] = NoId /\ idOf'[m] # NoId => idOf'[m] = nextId
        BY DEF DoInsert, Number, Inv2, Inv, NamesOK
      <4>2. o >= nextId \/ t >= nextId
        BY <1>8, <2>1, <3>2, <4>1
      <4> QED BY <2>1, <3>2, <4>2, FreshAgrees
    <3> QED BY <3>1, <3>2
  <2>3. taken \in Seq(SUBSET Event) /\ pending \in Seq(SUBSET Event)
    BY DEF Inv2, Inv, GridOK, GridTypeOK, RestOK
  <2> HIDE DEF o, t
  <2>4. Agree(Waiting', o, t, seen'[o], b, visible[a])
    BY <1>4, <2>1, <2>2, <2>3, OperationAgrees
  <2> QED BY <1>6, <2>4 DEF o, t
<1> QED BY <1>5, <1>7, <1>8 DEF CatchUp

LEMMA UpdatePositionCatchUp ==
  ASSUME Inv2, NEW n \in Names, NEW c \in Cells, UpdatePosition(n, c)
  PROVE  Told' /\ Known' /\ CatchUp'
<1> USE Facts
<1>1. Inv'
  BY UpdatePositionInv DEF Inv2
<1>2. /\ idOf' = idOf /\ nextId' = nextId /\ visible' = visible
      /\ taken' = taken /\ raised' = raised
      /\ idOf[n] \in Ids /\ Update(idOf[n], c)
      /\ nextId' \in Nat /\ nextId' >= nextId
  BY DEF UpdatePosition, managerVars, Inv2, Inv, NamesOK
<1>3. PICK ev \in SUBSET Event : Tells(ev)
  BY <1>2, OperationTells DEF Inv2, Inv
<1>4. Told'
  BY <1>1, <1>2, <1>3, OperationTold DEF Inv2, Inv
<1>5. Known'
  BY <1>2 DEF Inv2, Known
<1>6. ASSUME ~raised', NEW a \in Names, NEW b \in Names, idOf'[a] # NoId, idOf'[b] # NoId
      PROVE  Agree(Waiting', idOf'[a], idOf'[b], seen'[idOf'[a]], b, visible'[a])
  <2> DEFINE o == idOf[a]
             t == idOf[b]
  <2>1. o \in Ids /\ t \in Ids /\ cell'[o] # NoCell
    BY <1>1, <1>2, <1>6 DEF Inv, NamesOK
  <2>2. Agree(Waiting, o, t, seen[o], b, visible[a])
    BY <1>2, <1>6 DEF Inv2, CatchUp
  <2>3. taken \in Seq(SUBSET Event) /\ pending \in Seq(SUBSET Event)
    BY DEF Inv2, Inv, GridOK, GridTypeOK, RestOK
  <2> HIDE DEF o, t
  <2>4. Agree(Waiting', o, t, seen'[o], b, visible[a])
    BY <1>2, <1>3, <2>1, <2>2, <2>3, OperationAgrees
  <2> QED BY <1>2, <2>4 DEF o, t
<1> QED BY <1>4, <1>5, <1>6 DEF CatchUp

\* The events about a name that goes are left in the queue; they are about a
\* number that is not in use any more.
LEMMA DoRemoveCatchUp ==
  ASSUME Inv2, NEW n \in Names, DoRemove(n), UNCHANGED <<taken, raised>>
  PROVE  Told' /\ Known' /\ CatchUp'
<1> USE Facts
<1>1. GridOK' /\ NamesOK' /\ CachesOK'
  BY DoRemoveInv DEF Inv2
<1>2. /\ idOf[n] \in Ids /\ Remove(idOf[n])
      /\ idOf' = [idOf EXCEPT ![n] = NoId]
      /\ nextId' = nextId /\ nextId' \in Nat /\ nextId' >= nextId
  BY DEF DoRemove, Inv2, Inv, NamesOK
<1>3. PICK ev \in SUBSET Event : Tells(ev)
  BY <1>2, OperationTells DEF Inv2, Inv
<1>4. Told'
  BY <1>1, <1>2, <1>3, OperationTold DEF Inv2
<1>5. ASSUME NEW a \in Names, NEW b \in Names
      PROVE  b \in visible'[a] <=> b \in visible[a] /\ a # n /\ b # n
  BY DEF DoRemove, ForgetCaches, Inv2, Inv, CachesOK, CachesMirror
<1>6. Known'
  BY <1>2, <1>5 DEF Inv2, Inv, NamesOK, Known
<1>7. ASSUME ~raised', NEW a \in Names, NEW b \in Names, idOf'[a] # NoId, idOf'[b] # NoId
      PROVE  Agree(Waiting', idOf'[a], idOf'[b], seen'[idOf'[a]], b, visible'[a])
  <2> DEFINE o == idOf[a]
             t == idOf[b]
  <2>0. a # n /\ b # n /\ idOf'[a] = o /\ idOf'[b] = t
    BY <1>2, <1>7 DEF Inv2, Inv, NamesOK
  <2>1. o \in Ids /\ t \in Ids /\ cell'[o] # NoCell
    BY <1>1, <1>7, <2>0 DEF NamesOK
  <2>2. Agree(Waiting, o, t, seen[o], b, visible[a])
    BY <1>7, <2>0 DEF Inv2, CatchUp
  <2>3. taken \in Seq(SUBSET Event) /\ pending \in Seq(SUBSET Event)
    BY DEF Inv2, Inv, GridOK, GridTypeOK, RestOK
  <2> HIDE DEF o, t
  <2>4. Agree(Waiting', o, t, seen'[o], b, visible[a])
    BY <1>3, <2>1, <2>2, <2>3, OperationAgrees
  <2>5. b \in visible'[a] <=> b \in visible[a]
    BY <1>5, <2>0
  <2>6. Agree(Waiting', o, t, seen'[o], b, visible'[a])
    BY <2>4, <2>5, SameAgree
  <2> QED BY <2>0, <2>6 DEF o, t
<1> QED BY <1>4, <1>6, <1>7 DEF CatchUp

-----------------------------------------------------------------------------
\* The steps of a tick.

\* Without an event of its first operation, the queue is what the tick has
\* left followed by what the grid has added.
LEMMA AfterWaiting ==
  ASSUME taken \in Seq(SUBSET Event), pending \in Seq(SUBSET Event), taken # <<>>,
         NEW e \in Head(taken)
  PROVE  /\ Waiting \in Seq(SUBSET Event) /\ Waiting # <<>>
         /\ Head(Waiting) = Head(taken)
         /\ After(e) \o pending = Drop(Waiting, e)
<1> DEFINE q == taken \o pending
<1>1. /\ q \in Seq(SUBSET Event) /\ q # <<>> /\ Head(q) = Head(taken)
      /\ Tail(q) = Tail(taken) \o pending
      /\ Tail(taken) \in Seq(SUBSET Event)
      /\ Head(taken) \in SUBSET Event
  OBVIOUS
<1>2. ASSUME NEW rest \in SUBSET Event, NEW T \in Seq(SUBSET Event)
      PROVE  (<<rest>> \o T) \o pending = <<rest>> \o (T \o pending)
  OBVIOUS
<1>3. After(e) \o pending = Drop(q, e)
  <2>1. CASE Head(taken) \ {e} = {}
    BY <1>1, <2>1 DEF After, Drop
  <2>2. CASE Head(taken) \ {e} # {}
    <3> DEFINE rest == Head(taken) \ {e}
               T == Tail(taken)
    <3>1. rest \in SUBSET Event /\ T \in Seq(SUBSET Event)
      BY <1>1
    <3>2. After(e) = <<rest>> \o T /\ Drop(q, e) = <<rest>> \o (T \o pending)
      BY <1>1, <2>2 DEF After, Drop
    <3> HIDE DEF rest, T
    <3> QED BY <1>2, <3>1, <3>2
  <2> QED BY <2>1, <2>2
<1> QED BY <1>1, <1>3 DEF Waiting

\* What an event that is dealt with does to the queue and to the cache.
LEMMA EventQueue ==
  ASSUME Inv2, taken # <<>>, NEW e \in Head(taken),
         SkipEvent(e) \/ EnterEvent(e) \/ LeaveEvent(e), ~raised'
  PROVE  /\ e \in Event /\ ~raised
         /\ Waiting \in Seq(SUBSET Event) /\ Waiting # <<>> /\ e \in Head(Waiting)
         /\ Waiting' = Drop(Waiting, e)
<1>1. taken \in Seq(SUBSET Event) /\ pending \in Seq(SUBSET Event) /\ raised \in BOOLEAN
  BY DEF Inv2, Inv, GridOK, GridTypeOK, RestOK
<1>2. taken' = After(e) /\ pending' = pending
  BY DEF SkipEvent, EnterEvent, LeaveEvent, gridVars
<1>3. ~raised
  BY Zenon DEF SkipEvent, EnterEvent, LeaveEvent
<1>4. e \in Event
  BY <1>1, AfterType
<1>5. /\ Waiting \in Seq(SUBSET Event) /\ Waiting # <<>> /\ Head(Waiting) = Head(taken)
      /\ After(e) \o pending = Drop(Waiting, e)
  BY <1>1, AfterWaiting
<1>6. Waiting' = Drop(Waiting, e)
  BY <1>2, <1>5 DEF Waiting
<1> QED BY <1>3, <1>4, <1>5, <1>6

LEMMA EventTold ==
  ASSUME Inv2, taken # <<>>, NEW e \in Head(taken),
         SkipEvent(e) \/ EnterEvent(e) \/ LeaveEvent(e)
  PROVE  Told'
<1>0. nextId' = nextId
  BY DEF SkipEvent, EnterEvent, LeaveEvent, managerVars
<1>1. taken \in Seq(SUBSET Event) /\ pending \in Seq(SUBSET Event) /\ pending' = pending
  BY DEF Inv2, Inv, GridOK, GridTypeOK, RestOK, SkipEvent, EnterEvent, LeaveEvent, gridVars
<1>2. taken' = After(e) \/ taken' = <<>>
  BY Zenon DEF SkipEvent, EnterEvent, LeaveEvent
<1>3. CASE taken' = After(e)
  <2> DEFINE q == Waiting
             d == Drop(q, e)
  <2>1. q \in Seq(SUBSET Event) /\ q # <<>> /\ e \in Head(q) /\ Waiting' = d
    BY <1>1, <1>3, AfterWaiting DEF Waiting
  <2>2. PICK s \in {0, 1} : Shifted(q, d, e, s)
    BY <2>1, DropIs
  <2>3. \A k \in 1..Len(q) : Batch(q[k], nextId)
    BY DEF Inv2, Told
  <2> HIDE DEF q, d
  <2>4. /\ Len(q) \in Nat
        /\ Len(d) = Len(q) - s
        /\ \A k \in 1..Len(q) - s : d[k] = IF k + s = 1 THEN q[1] \ {e} ELSE q[k + s]
    <3>1. Len(q) \in Nat
      BY <2>1
    <3> QED BY <3>1, <2>2, Zenon DEF Shifted
  <2>5. ASSUME NEW k \in 1..Len(d) PROVE Batch(d[k], nextId)
    <3>1. k + s \in 1..Len(q) /\ d[k] \subseteq q[k + s]
      BY <2>4
    <3> QED BY <2>3, <3>1 DEF Batch
  <2>6. Waiting' = d
    BY <2>1
  <2> QED BY <1>0, <2>5, <2>6 DEF Told
<1>4. CASE taken' = <<>>
  <2>1. Waiting' = pending
    BY <1>1, <1>4 DEF Waiting
  <2>2. ASSUME NEW k \in 1..Len(pending) PROVE Batch(pending[k], nextId)
    <3>1. Len(taken) + k \in 1..Len(Waiting) /\ Waiting[Len(taken) + k] = pending[k]
      BY <1>1 DEF Waiting
    <3> QED BY <3>1 DEF Inv2, Told
  <2> QED BY <1>0, <2>1, <2>2 DEF Told
<1> QED BY <1>2, <1>3, <1>4

LEMMA EventCatchUp ==
  ASSUME Inv2, taken # <<>>, NEW e \in Head(taken),
         SkipEvent(e) \/ EnterEvent(e) \/ LeaveEvent(e)
  PROVE  Told' /\ Known' /\ CatchUp'
<1> USE Facts
<1>1. /\ idOf' = idOf /\ nameOf' = nameOf /\ seen' = seen
  BY DEF SkipEvent, EnterEvent, LeaveEvent, managerVars, gridVars
<1>0. e \in Event /\ e.observer \in Ids /\ e.target \in Ids
  BY AfterType DEF Inv2, Inv, RestOK, Event
<1>2. ASSUME NEW a \in Names, NEW b \in Names, idOf[a] # NoId, idOf[b] # NoId
      PROVE  IF Is(e, idOf[a], idOf[b]) THEN b \in visible'[a] <=> e.kind = "enter"
                                        ELSE b \in visible'[a] <=> b \in visible[a]
  <2>1. /\ nameOf[idOf[a]] = a /\ nameOf[idOf[b]] = b
        /\ idOf[a] \in Ids /\ idOf[b] \in Ids
        /\ a # NoName /\ b # NoName
        /\ visible \in [Names -> SUBSET Names]
        /\ \A i \in Ids : nameOf[i] = a => idOf[a] = i
        /\ \A i \in Ids : nameOf[i] = b => idOf[b] = i
    BY <1>2 DEF Inv2, Inv, NamesOK, CachesOK
  <2>2. CASE SkipEvent(e)
    BY <2>1, <2>2 DEF SkipEvent, managerVars, Is
  <2>3. CASE EnterEvent(e)
    <3>1. /\ visible' = [visible EXCEPT ![nameOf[e.observer]] = @ \cup {nameOf[e.target]}]
          /\ e.kind = "enter"
      BY <2>3 DEF EnterEvent
    <3> QED BY <1>0, <2>1, <3>1 DEF Is
  <2>4. CASE LeaveEvent(e)
    <3>1. /\ visible' = [visible EXCEPT ![nameOf[e.observer]] = @ \ {nameOf[e.target]}]
          /\ e.kind = "leave"
      BY <2>4 DEF LeaveEvent
    <3> QED BY <1>0, <2>1, <3>1 DEF Is
  <2> QED BY <2>2, <2>3, <2>4
<1>3. Known'
  <2>1. CASE SkipEvent(e)
    BY <2>1, <1>1 DEF SkipEvent, managerVars, Inv2, Known
  <2>2. CASE EnterEvent(e)
    <3> DEFINE o == nameOf[e.observer]
               t == nameOf[e.target]
    <3>1. /\ visible' = [visible EXCEPT ![o] = @ \cup {t}]
          /\ o # NoName /\ t # NoName
      BY <2>2 DEF EnterEvent, Named
    <3>2. /\ o \in Names /\ t \in Names /\ idOf[o] # NoId /\ idOf[t] # NoId
          /\ visible \in [Names -> SUBSET Names]
      BY <1>0, <3>1 DEF Inv2, Inv, NamesOK, CachesOK
    <3> QED BY <1>1, <3>1, <3>2 DEF Inv2, Known
  <2>3. CASE LeaveEvent(e)
    <3>1. visible' = [visible EXCEPT ![nameOf[e.observer]] = @ \ {nameOf[e.target]}]
      BY <2>3 DEF LeaveEvent
    <3> QED BY <1>1, <3>1 DEF Inv2, Inv, CachesOK, Known
  <2> QED BY <2>1, <2>2, <2>3
<1>4. ASSUME ~raised', NEW a \in Names, NEW b \in Names, idOf'[a] # NoId, idOf'[b] # NoId
      PROVE  Agree(Waiting', idOf'[a], idOf'[b], seen'[idOf'[a]], b, visible'[a])
  <2> DEFINE o == idOf[a]
             t == idOf[b]
             q == Waiting
  <2>1. /\ ~raised /\ q \in Seq(SUBSET Event) /\ q # <<>> /\ e \in Head(q)
        /\ Waiting' = Drop(q, e)
    BY <1>4, EventQueue
  <2>2. \A f \in q[1] : f.observer = e.observer /\ f.target = e.target => f = e
    <3>1. 1 \in 1..Len(q) /\ e \in q[1]
      BY <2>1
    <3> QED BY <3>1 DEF Inv2, Told, Batch
  <2>3. Agree(q, o, t, seen[o], b, visible[a])
    BY <1>1, <1>4, <2>1 DEF Inv2, CatchUp
  <2>4. IF Is(e, o, t) THEN b \in visible'[a] <=> e.kind = "enter"
                       ELSE b \in visible'[a] <=> b \in visible[a]
    BY <1>1, <1>2, <1>4
  <2>5. Waiting' = Drop(q, e)
    BY <2>1
  <2> HIDE DEF o, t, q
  <2>6. Agree(Drop(q, e), o, t, seen[o], b, visible'[a])
    BY <2>1, <2>2, <2>3, <2>4, DropAgree
  <2> QED BY <1>1, <2>5, <2>6 DEF o, t
<1> QED BY <1>3, <1>4, EventTold DEF CatchUp

LEMMA TakeCatchUp == ASSUME Inv2, Take PROVE Told' /\ Known' /\ CatchUp'
<1>1. /\ idOf' = idOf /\ nextId' = nextId /\ visible' = visible /\ seen' = seen
      /\ raised' = raised
  BY DEF Take, managerVars
<1>2. Waiting' = Waiting
  BY DEF Take, Waiting, Inv2, Inv, GridOK, GridTypeOK
<1> QED BY <1>1, <1>2 DEF Inv2, Told, Known, CatchUp

LEMMA FrameCatchUp ==
  ASSUME Inv2, UNCHANGED <<gridVars, managerVars, taken, raised>>
  PROVE  Told' /\ Known' /\ CatchUp'
<1>1. Waiting' = Waiting
  BY DEF gridVars, Waiting
<1> QED BY <1>1 DEF gridVars, managerVars, Inv2, Told, Known, CatchUp

LEMMA InitInv2 == Init => Inv2
<1> SUFFICES ASSUME Init PROVE Inv2
  OBVIOUS
<1>1. Inv
  BY InitInv
<1>2. /\ Waiting = <<>> /\ \A n \in Names : idOf[n] = NoId /\ visible[n] = {}
  BY DEF Init, GridInit, Waiting
<1>3. Told
  BY <1>2 DEF Told
<1>4. Known /\ CatchUp
  BY <1>2 DEF Known, CatchUp
<1> QED BY <1>1, <1>3, <1>4 DEF Inv2

LEMMA NextInv2 == Inv2 /\ [Next]_vars => Inv2'
<1> SUFFICES ASSUME Inv2, [Next]_vars PROVE Told' /\ Known' /\ CatchUp'
  BY NextInv DEF Inv2
<1>1. ASSUME NEW n \in Names, NEW c \in Cells, NEW r \in Reaches,
             Add(n, c, r) \/ AoiRegister(n, c, r)
      PROVE  Told' /\ Known' /\ CatchUp'
  BY <1>1, DoInsertCatchUp DEF Add, AoiRegister
<1>2. ASSUME NEW n \in Names, NEW c \in Cells, UpdatePosition(n, c)
      PROVE  Told' /\ Known' /\ CatchUp'
  BY <1>2, UpdatePositionCatchUp
<1>3. ASSUME NEW n \in Names, RemoveObject(n) \/ AoiUnregister(n)
      PROVE  Told' /\ Known' /\ CatchUp'
  BY <1>3, DoRemoveCatchUp DEF RemoveObject, AoiUnregister
<1>4. CASE Tick
  BY <1>4, TakeCatchUp, EventCatchUp DEF Tick
<1>5. ASSUME \/ \E n \in Names : Enroll(n)
             \/ \E p \in Players : Join(p) \/ Leave(p)
             \/ UNCHANGED vars
      PROVE  Told' /\ Known' /\ CatchUp'
  <2>1. UNCHANGED <<gridVars, managerVars, taken, raised>>
    BY <1>5 DEF Enroll, Join, Leave, vars
  <2> QED BY <2>1, FrameCatchUp
<1> QED BY <1>1, <1>2, <1>3, <1>4, <1>5 DEF Next

\* The last event about two numbers, in the words of CachesCatchUp.
LEMMA AgreeMeans ==
  ASSUME Waiting \in Seq(SUBSET Event), Told, NEW o, NEW t, NEW sn, NEW b, NEW vs,
         Agree(Waiting, o, t, sn, b, vs)
  PROVE  t \in sn <=> IF About(o, t) = {} THEN b \in vs ELSE LastAbout(o, t) = "enter"
<1> DEFINE q == Waiting
<1>0. Len(q) \in Nat
  OBVIOUS
<1>1. \A k : k \in About(o, t) <=> k \in 1..Len(q) /\ ~Silent(q[k], o, t)
  BY DEF About, Silent, Is
<1> HIDE DEF q
<1>2. CASE \A k \in 1..Len(q) : Silent(q[k], o, t)
  <2>1. About(o, t) = {}
    BY <1>1, <1>2
  <2>2. t \in sn <=> b \in vs
    BY <1>2 DEF Agree, q
  <2> QED BY <2>1, <2>2
<1>3. CASE ~\A k \in 1..Len(q) : Silent(q[k], o, t)
  <2>1. PICK k \in 1..Len(q) :
          /\ ~Silent(q[k], o, t)
          /\ \A e \in q[k] : Is(e, o, t) => (e.kind = "enter" <=> t \in sn)
          /\ \A j \in 1..Len(q) : j > k => Silent(q[j], o, t)
    BY <1>3 DEF Agree, q
  <2>2. k \in About(o, t) /\ \A i \in About(o, t) : i \in Int /\ i <= k
    BY <1>0, <1>1, <2>1
  <2> DEFINE L == CHOOSE j \in About(o, t) : \A i \in About(o, t) : i <= j
  <2>3. L \in About(o, t) /\ \A i \in About(o, t) : i <= L
    BY <2>2
  <2>4. L = k
    <3> HIDE DEF L
    <3> QED BY <2>2, <2>3
  <2> DEFINE E == CHOOSE e \in q[k] : e.observer = o /\ e.target = t
  <2>5. E \in q[k] /\ Is(E, o, t)
    BY <2>1 DEF Silent, Is
  <2>6. E.kind = "enter" <=> t \in sn
    <3> HIDE DEF E
    <3> QED BY <2>1, <2>5
  <2>7. LastAbout(o, t) = E.kind
    BY <2>4 DEF LastAbout, q
  <2>8. About(o, t) # {}
    BY <2>2
  <2> QED BY <2>6, <2>7, <2>8, Zenon
<1> QED BY <1>2, <1>3

\* The caches of AoiManager and the events on their way make up what the grid
\* sees, as long as no tick raised: for any number of objects, cells and
\* reaches, and for any order of additions, moves and removals between the
\* events of a tick.
THEOREM CatchUpCorrect == Spec => []CachesCatchUp
<1>1. Inv2 => CachesCatchUp
  <2> SUFFICES ASSUME Inv2, ~raised, NEW a \in Names, NEW b \in Names,
                      idOf[a] # NoId, idOf[b] # NoId
               PROVE  LET o == idOf[a]
                          t == idOf[b]
                      IN  t \in seen[o] <=> IF About(o, t) = {} THEN b \in visible[a]
                                            ELSE LastAbout(o, t) = "enter"
    BY DEF CachesCatchUp
  <2>1. Waiting \in Seq(SUBSET Event)
    BY DEF Waiting, Inv2, Inv, RestOK, GridOK, GridTypeOK
  <2>2. Agree(Waiting, idOf[a], idOf[b], seen[idOf[a]], b, visible[a])
    BY DEF Inv2, CatchUp
  <2> QED BY <2>1, <2>2, AgreeMeans DEF Inv2
<1> QED BY <1>1, InitInv2, NextInv2, PTL DEF Spec
=============================================================================
