--------------------------------- MODULE Aoi ---------------------------------
(***************************************************************************)
(* The area of interest of a scene (server/engine/aoi.py, AoiManager) over *)
(* the grid of GridAoi, and the group of objects it evicts from            *)
(* (server/engine/group.py).                                               *)
(*                                                                         *)
(* The manager gives each object a new number in the grid whenever it is   *)
(* added, and keeps two caches by name: whom each object sees, and who     *)
(* sees it. The caches trail the grid: tick takes the events of the grid   *)
(* and applies them one after the other. Events about an object that has   *)
(* gone meanwhile carry a number without a name and are skipped.           *)
(*                                                                         *)
(* A Leave also takes its target out of the group. That raises a KeyError  *)
(* when the target is an entity that is no longer there, or a player whose *)
(* client has left: the tick is over, and the rest of its events is lost   *)
(* (raised).                                                               *)
(*                                                                         *)
(* tick calls the game (on_enter, on_leave) at every event, and the game   *)
(* may add, move and remove objects from there; so every action here may   *)
(* come between two events of a tick.                                      *)
(***************************************************************************)
EXTENDS GridAoi

CONSTANTS
  Entities, Players,  \* names: entity ids of entities and of players
  NoId, NoName,
  MaxAdds             \* bound: numbers the manager gives away

ASSUME IdsAssumption == MaxAdds \in Nat /\ Ids = 1..MaxAdds /\ NoId \notin Ids

Names == Entities \cup Players

ASSUME NamesAssumption == NoName \notin Names

VARIABLES
  idOf,       \* _str_to_id
  nameOf,     \* _id_to_str
  nextId,     \* _next_id
  visible,    \* _visible: whom each object sees; an absent key is {}
  observers,  \* _observers: who sees each object
  registered, \* keys of _entity_registry and _player_registry
  taken,      \* events the tick has taken and not yet applied
  inGroup,    \* group.entities and group.players
  clients,    \* group.clients
  raised      \* a tick ended with an exception (history)

managerVars == <<idOf, nameOf, nextId, visible, observers>>
groupVars == <<inGroup, clients>>
vars == <<gridVars, managerVars, registered, taken, groupVars, raised>>

Init ==
  /\ GridInit
  /\ idOf = [n \in Names |-> NoId]
  /\ nameOf = [i \in Ids |-> NoName]
  /\ nextId = 1
  /\ visible = [n \in Names |-> {}]
  /\ observers = [n \in Names |-> {}]
  /\ registered = {}
  /\ taken = <<>>
  /\ inGroup = {}
  /\ clients = {}
  /\ raised = FALSE

-----------------------------------------------------------------------------
\* Mutant of Number: the lowest number that is free, used before or not.
NumberFree(n) ==
  LET i == CHOOSE k \in Ids : /\ nameOf[k] = NoName
                              /\ \A j \in Ids : j < k => nameOf[j] # NoName
  IN  /\ nextId \in Ids
      /\ nextId' = nextId + 1
      /\ idOf' = [idOf EXCEPT ![n] = i]
      /\ nameOf' = [nameOf EXCEPT ![i] = n]

\* A name that is new to the manager gets the next number.
Number(n) ==
  /\ nextId \in Ids
  /\ nextId' = nextId + 1
  /\ idOf' = [idOf EXCEPT ![n] = nextId]
  /\ nameOf' = [nameOf EXCEPT ![nextId] = n]

DoInsert(n, c, r) ==
  /\ \/ idOf[n] = NoId /\ Number(n)
     \/ idOf[n] # NoId /\ UNCHANGED <<idOf, nameOf, nextId>>
  /\ Insert(idOf'[n], c, r)
  /\ UNCHANGED <<visible, observers>>

\* add_entity and add_player.
Add(n, c, r) ==
  /\ DoInsert(n, c, r)
  /\ registered' = registered \cup {n}
  /\ UNCHANGED <<taken, groupVars, raised>>

\* aoi_register of an object that mixes the AOI in: it is in no registry.
AoiRegister(n, c, r) ==
  /\ DoInsert(n, c, r)
  /\ UNCHANGED <<registered, taken, groupVars, raised>>

\* update_position, aoi_update.
UpdatePosition(n, c) ==
  /\ idOf[n] # NoId
  /\ Update(idOf[n], c)
  /\ UNCHANGED <<managerVars, registered, taken, groupVars, raised>>

\* Mutant of ForgetCaches: those n saw still count it as their observer.
ForgetVisibleOnly(n) ==
  /\ visible' = [m \in Names |-> IF m = n THEN {} ELSE visible[m] \ {n}]
  /\ observers' = [observers EXCEPT ![n] = {}]

\* n leaves both caches, through the names the other cache lists.
ForgetCaches(n) ==
  /\ visible' = [m \in Names |-> IF m = n THEN {}
                   ELSE IF m \in observers[n] THEN visible[m] \ {n} ELSE visible[m]]
  /\ observers' = [m \in Names |-> IF m = n THEN {}
                   ELSE IF m \in visible[n] THEN observers[m] \ {n} ELSE observers[m]]

DoRemove(n) ==
  /\ idOf[n] # NoId
  /\ idOf' = [idOf EXCEPT ![n] = NoId]
  /\ nameOf' = [nameOf EXCEPT ![idOf[n]] = NoName]
  /\ Remove(idOf[n])
  /\ ForgetCaches(n)
  /\ UNCHANGED nextId

\* remove of the manager.
RemoveObject(n) ==
  /\ DoRemove(n)
  /\ registered' = registered \ {n}
  /\ UNCHANGED <<taken, groupVars, raised>>

\* aoi_unregister: an object that was also added stays in its registry.
AoiUnregister(n) ==
  /\ DoRemove(n)
  /\ UNCHANGED <<registered, taken, groupVars, raised>>

-----------------------------------------------------------------------------
\* The calls of the game to the group: create_remote_entity and
\* create_remote_player; join and leave of a player's client.
Enroll(n) ==
  /\ inGroup' = inGroup \cup {n}
  /\ UNCHANGED <<gridVars, managerVars, registered, taken, clients, raised>>

Join(p) ==
  /\ clients' = clients \cup {p}
  /\ UNCHANGED <<gridVars, managerVars, registered, taken, inGroup, raised>>

Leave(p) ==
  /\ p \in clients
  /\ clients' = clients \ {p}
  /\ UNCHANGED <<gridVars, managerVars, registered, taken, inGroup, raised>>

\* remove_entity deletes a key that must be there. remove_player returns when
\* the player is not there; its client's key must be there.
EvictFails(n) == \/ n \in Entities /\ n \notin inGroup
                 \/ n \in Players /\ n \in inGroup /\ n \notin clients
Evict(n) == /\ inGroup' = inGroup \ {n}
            /\ clients' = IF n \in Players /\ n \in inGroup THEN clients \ {n} ELSE clients

-----------------------------------------------------------------------------
\* tick takes the events of the grid.
Take ==
  /\ taken = <<>> /\ pending # <<>>
  /\ taken' = pending
  /\ pending' = <<>>
  /\ UNCHANGED <<cell, reach, seen, managerVars, registered, groupVars, raised>>

\* What is left once event e of the first operation is dealt with.
After(e) ==
  LET rest == Head(taken) \ {e}
  IN  IF rest = {} THEN Tail(taken) ELSE <<rest>> \o Tail(taken)

\* Its observer or its target has gone: the tick goes on.
SkipEvent(e) ==
  /\ nameOf[e.observer] = NoName \/ nameOf[e.target] = NoName
  /\ taken' = After(e)
  /\ UNCHANGED <<gridVars, managerVars, registered, groupVars, raised>>

Named(e) == nameOf[e.observer] # NoName /\ nameOf[e.target] # NoName

EnterEvent(e) ==
  /\ e.kind = "enter" /\ Named(e)
  /\ LET o == nameOf[e.observer]
         t == nameOf[e.target]
     IN  /\ visible' = [visible EXCEPT ![o] = @ \cup {t}]
         /\ observers' = [observers EXCEPT ![t] = @ \cup {o}]
  /\ taken' = After(e)
  /\ UNCHANGED <<gridVars, idOf, nameOf, nextId, registered, groupVars, raised>>

\* A Leave is cached, then its target is taken out of the group if it is in a
\* registry. When that raises, the events that are left are lost.
LeaveEvent(e) ==
  /\ e.kind = "leave" /\ Named(e)
  /\ LET o == nameOf[e.observer]
         t == nameOf[e.target]
     IN  /\ visible' = [visible EXCEPT ![o] = @ \ {t}]
         /\ observers' = [observers EXCEPT ![t] = @ \ {o}]
         /\ \/ /\ t \in registered /\ ~EvictFails(t)
               /\ Evict(t)
               /\ taken' = After(e)
               /\ UNCHANGED raised
            \/ /\ t \in registered /\ EvictFails(t)
               /\ Evict(t)
               /\ taken' = <<>>
               /\ raised' = TRUE
            \/ /\ t \notin registered
               /\ taken' = After(e)
               /\ UNCHANGED <<groupVars, raised>>
  /\ UNCHANGED <<gridVars, idOf, nameOf, nextId, registered>>

Tick ==
  \/ Take
  \/ taken # <<>> /\ \E e \in Head(taken) : SkipEvent(e) \/ EnterEvent(e) \/ LeaveEvent(e)

Next ==
  \/ \E n \in Names, c \in Cells, r \in Reaches : Add(n, c, r) \/ AoiRegister(n, c, r)
  \/ \E n \in Names, c \in Cells : UpdatePosition(n, c)
  \/ \E n \in Names : RemoveObject(n) \/ AoiUnregister(n) \/ Enroll(n)
  \/ \E p \in Players : Join(p) \/ Leave(p)
  \/ Tick

Spec == Init /\ [][Next]_vars

-----------------------------------------------------------------------------
\* Types. A name and its number point at each other, and an object with a name
\* is in the grid and no other is.
TypeOK ==
  /\ GridTypeOK
  /\ idOf \in [Names -> Ids \cup {NoId}]
  /\ nameOf \in [Ids -> Names \cup {NoName}]
  /\ nextId \in 1..MaxAdds + 1
  /\ visible \in [Names -> SUBSET Names]
  /\ observers \in [Names -> SUBSET Names]
  /\ registered \subseteq Names
  /\ taken \in Seq(SUBSET Event)
  /\ inGroup \subseteq Names
  /\ clients \subseteq Players
  /\ raised \in BOOLEAN
  /\ \A n \in Names, i \in Ids : idOf[n] = i <=> nameOf[i] = n
  /\ \A i \in Ids : cell[i] # NoCell <=> nameOf[i] # NoName

\* Nobody is kept in the view of an object it cannot see: an operation
\* recomputes enough objects for that, though it does not recompute all.
SeesOnlyNear == \A o \in Ids : seen[o] \subseteq Visible(o, cell, reach)

\* An object that moves to another cell and one within mutual reach of it see
\* each other. (An object that has just appeared is not seen from the cells
\* around its own until it or its observer moves.)
MoversMeet ==
  [][\A i, o \in Ids :
       /\ cell[i] # NoCell /\ cell'[i] \notin {NoCell, cell[i]}
       /\ i \in Visible(o, cell', reach') /\ o \in Visible(i, cell', reach')
       => i \in seen'[o] /\ o \in seen'[i]]_vars

\* The two caches say the same, also in the middle of a tick.
CachesMirror == \A a, b \in Names : b \in visible[a] <=> a \in observers[b]

\* The events on their way, oldest first, and the last of them that is about
\* numbers o and t.
Waiting == taken \o pending
About(o, t) == {k \in 1..Len(Waiting) : \E e \in Waiting[k] : e.observer = o /\ e.target = t}
LastAbout(o, t) ==
  LET k == CHOOSE j \in About(o, t) : \A i \in About(o, t) : i <= j
  IN  (CHOOSE e \in Waiting[k] : e.observer = o /\ e.target = t).kind

\* As long as no tick raised, the caches and the events on their way make up
\* what the grid sees: once the events are applied, observers_of and visible_of
\* answer what the grid would, through any order of additions, moves and
\* removals, in the middle of a tick or not, and for a name that was removed
\* and added again.
CachesCatchUp ==
  ~raised => \A a, b \in Names : idOf[a] # NoId /\ idOf[b] # NoId =>
    LET o == idOf[a]
        t == idOf[b]
    IN  t \in seen[o] <=> IF About(o, t) = {} THEN b \in visible[a]
                          ELSE LastAbout(o, t) = "enter"
=============================================================================
