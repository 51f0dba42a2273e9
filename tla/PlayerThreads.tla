---------------------------- MODULE PlayerThreads ----------------------------
(***************************************************************************)
(* The player manager of a hub as its two threads run it. The main thread  *)
(* handles transfers and disconnects; logins and reconnects are coroutines *)
(* and run on the thread of the event loop (app.py, run_coroutine_async),  *)
(* where they construct players. Nothing locks the tables. CPython (3.11   *)
(* and later) lets the other thread run where one makes a call or a loop   *)
(* goes round: each action below is the code from one such point to the    *)
(* next. conn_id_players holds list objects, which a thread may keep a     *)
(* reference to when the other moves or drops them, so lists have an       *)
(* identity here. PlayerManager has the same calls as single steps.        *)
(*                                                                         *)
(* Players that migrate to this hub are constructed on the main thread;    *)
(* this module leaves them out.                                            *)
(***************************************************************************)
EXTENDS PlayerObjects, Naturals, FiniteSets, SequencesExt

CONSTANTS Lists,  \* list objects
          NoList

\* One list per connection and one per thread can be in use, and one is made.
ASSUME ListsAssumption ==
  /\ NoList \notin Lists
  /\ IsFiniteSet(Conns) /\ IsFiniteSet(Lists)
  /\ Cardinality(Lists) >= Cardinality(Conns) + 3

VARIABLES
  filed,      \* player_manager.conn_id_players: the list of each connection
  list,       \* what each list object holds
  main,       \* the main thread in update_player_conn or player_offline
  loop,       \* the coroutine thread in add_player
  met,        \* history: two calls have overlapped
  clash,      \* history: two calls that have a connection in common have
  before      \* history: the tables before the call that is under way, until
              \* calls overlap

tables == <<players, filed, list, entityId, clientConn>>
threadVars == <<tables, main, loop, met, clash, before>>

NoCall == [at |-> "idle", player |-> NoPlayer, conn |-> NoConn, old |-> NoConn,
           list |-> NoList, i |-> 0, rest |-> <<>>]
NoAdd == [at |-> "idle", player |-> NoPlayer, old |-> NoPlayer, list |-> NoList,
          empty |-> FALSE, made |-> NoPlayer]

Idle == main.at = "idle" /\ loop.at = "idle"
InUse == {filed[c] : c \in Conns} \cup {main.list, loop.list}
Fresh == CHOOSE l \in Lists : l \notin InUse

\* The (constructed) object p serves its entity.
Serves(p) == players[entityId[p]] = p

\* Lists that nothing refers to any more are gone.
Kept(lists) == [l \in Lists |-> IF l \in InUse' THEN lists[l] ELSE <<>>]

\* What the two tables say, as PlayerManager has them.
Contents(c) == IF filed[c] = NoList THEN {} ELSE ToSet(list[filed[c]])
Tables == [players |-> players, onConn |-> [c \in Conns |-> Contents(c)],
           entityId |-> entityId, clientConn |-> clientConn]

NoTables == [players |-> [e \in Entities |-> NoPlayer],
             onConn |-> [c \in Conns |-> {}],
             entityId |-> [p \in Players |-> NoEntity],
             clientConn |-> [p \in Players |-> NoConn]]

ThreadsInit ==
  /\ players = [e \in Entities |-> NoPlayer]
  /\ filed = [c \in Conns |-> NoList]
  /\ list = [l \in Lists |-> <<>>]
  /\ entityId = [p \in Players |-> NoEntity]
  /\ clientConn = [p \in Players |-> NoConn]
  /\ main = NoCall /\ loop = NoAdd
  /\ met = FALSE /\ clash = FALSE
  /\ before = Tables

-----------------------------------------------------------------------------
(* add_player, on the thread of the coroutines.                            *)

\* add_player looks up the object that serves the entity of p. Another one will
\* be detached.
Add(p, e) ==
  IF players[e] \in {NoPlayer, p} THEN [NoAdd EXCEPT !.at = "register", !.player = p]
  ELSE [NoAdd EXCEPT !.at = "look", !.player = p, !.old = players[e]]

\* The constructor of a player sets its fields and calls add_player.
Construct(p, e, c) ==
  /\ loop.at = "idle" /\ entityId[p] = NoEntity
  /\ entityId' = [entityId EXCEPT ![p] = e]
  /\ clientConn' = [clientConn EXCEPT ![p] = c]
  /\ loop' = [Add(p, e) EXCEPT !.made = p]
  /\ UNCHANGED <<players, filed, list, main>>

\* Games call it again for the object they just constructed. The main thread may
\* have moved it or ended its session by then.
AddMade ==
  /\ loop.at = "idle" /\ loop.made # NoPlayer
  /\ loop' = Add(loop.made, entityId[loop.made])
  /\ UNCHANGED <<tables, main>>

Registering == [loop EXCEPT !.at = "register", !.list = NoList]

\* __detach_player_conn__ gets the list of the old object's connection.
Look ==
  /\ loop.at = "look"
  /\ LET l == filed[clientConn[loop.old]]
     IN  loop' = IF l = NoList THEN Registering
                 ELSE [loop EXCEPT !.at = "detach", !.list = l]
  /\ UNCHANGED <<tables, main>>

\* It takes the object off the list (remove takes the first one),
TakeOff ==
  /\ loop.at = "detach"
  /\ \E i \in DOMAIN list[loop.list] :
       /\ list[loop.list][i] = loop.old
       /\ \A j \in 1 .. i - 1 : list[loop.list][j] # loop.old
       /\ list' = [list EXCEPT ![loop.list] = RemoveAt(@, i)]
  /\ loop' = [loop EXCEPT !.at = "count"]
  /\ UNCHANGED <<players, filed, entityId, clientConn, main>>

\* and looks whether anything is left.
Count ==
  /\ \/ loop.at = "count"
     \/ loop.at = "detach" /\ ~Contains(list[loop.list], loop.old)
  /\ loop' = [Registering EXCEPT !.empty = (list[loop.list] = <<>>)]
  /\ UNCHANGED <<tables, main>>

\* The rest of add_player makes no call but the last: the empty list is dropped,
\* by the connection that the old object has now, and the player is registered
\* and filed.
Dropped == IF loop.empty THEN [filed EXCEPT ![clientConn[loop.old]] = NoList]
           ELSE filed
Register ==
  /\ loop.at = "register"
  /\ loop.empty => filed[clientConn[loop.old]] # NoList
  /\ LET p == loop.player
         c == clientConn[p]
         l == IF Dropped[c] = NoList THEN Fresh ELSE Dropped[c]
         has == IF Dropped[c] = NoList THEN <<>> ELSE list[l]
     IN  /\ players' = [players EXCEPT ![entityId[p]] = p]
         /\ filed' = [Dropped EXCEPT ![c] = l]
         /\ loop' = [NoAdd EXCEPT !.made = loop.made]
         /\ UNCHANGED <<entityId, clientConn, main>>
         /\ list' = Kept([list EXCEPT ![l] = IF Contains(has, p) THEN has
                                            ELSE Append(has, p)])

\* That connection has no list: the KeyError ends the coroutine.
RegisterFails ==
  /\ loop.at = "register"
  /\ loop.empty /\ filed[clientConn[loop.old]] = NoList
  /\ loop' = NoAdd
  /\ UNCHANGED <<players, filed, entityId, clientConn, main>>
  /\ list' = Kept(list)

-----------------------------------------------------------------------------
(* update_player_conn, on the main thread.                                 *)

\* TransferEntityControl: the object that serves e goes to connection c.
Transfer(e, c) ==
  /\ main.at = "idle" /\ players[e] # NoPlayer
  /\ main' = [NoCall EXCEPT !.at = "find", !.player = players[e], !.conn = c]
  /\ UNCHANGED <<tables, loop>>

\* Its connection's list is taken, or a new one,
Find ==
  /\ main.at = "find"
  /\ LET old == clientConn[main.player]
         l == IF filed[old] = NoList THEN Fresh ELSE filed[old]
     IN  /\ main' = [main EXCEPT !.at = "join", !.old = old, !.list = l]
         /\ list' = [list EXCEPT ![l] = IF filed[old] = NoList THEN <<>> ELSE @]
  /\ UNCHANGED <<players, filed, entityId, clientConn, loop>>

\* Mutant of Join: an object that is not on the list stays behind.
JoinNobody ==
  /\ main.at = "join"
  /\ main' = [main EXCEPT !.at = "take", !.i = 1]
  /\ UNCHANGED <<tables, loop>>

\* and the object is put on it if it is not there.
Join ==
  /\ main.at = "join"
  /\ main' = [main EXCEPT !.at = "take", !.i = 1]
  /\ list' = [list EXCEPT ![main.list] =
       IF Contains(@, main.player) THEN @ ELSE Append(@, main.player)]
  /\ UNCHANGED <<players, filed, entityId, clientConn, loop>>

\* One object after the other is taken from the list and its gates are updated;
Take ==
  /\ main.at = "take" /\ main.i <= Len(list[main.list])
  /\ main' = [main EXCEPT !.at = "move", !.player = list[main.list][main.i]]
  /\ UNCHANGED <<tables, loop>>

\* it is moved, and its on_transfer_conn called.
Move ==
  /\ main.at = "move"
  /\ clientConn' = [clientConn EXCEPT ![main.player] = main.conn]
  /\ main' = [main EXCEPT !.at = "take", !.i = @ + 1]
  /\ UNCHANGED <<players, filed, list, entityId, loop>>

\* Mutant of Unfile: the old connection's entry stays.
KeepFiled ==
  /\ main.at = "take" /\ main.i > Len(list[main.list])
  /\ main.old # main.conn
  /\ main' = [main EXCEPT !.at = "file", !.i = 0]
  /\ UNCHANGED <<tables, loop>>

\* The old connection's entry is popped,
Unfile ==
  /\ main.at = "take" /\ main.i > Len(list[main.list])
  /\ main.old # main.conn
  /\ filed' = [filed EXCEPT ![main.old] = NoList]
  /\ main' = [main EXCEPT !.at = "file", !.i = 0]
  /\ UNCHANGED <<players, entityId, clientConn, loop>>
  /\ list' = Kept(list)

\* and the list is the new connection's.
File ==
  /\ \/ main.at = "file"
     \/ /\ main.at = "take" /\ main.i > Len(list[main.list])
        /\ main.old = main.conn
  /\ filed' = [filed EXCEPT ![main.conn] = main.list]
  /\ main' = NoCall
  /\ UNCHANGED <<players, entityId, clientConn, loop>>
  /\ list' = Kept(list)

-----------------------------------------------------------------------------
(* player_offline, on the main thread.                                     *)

\* The client of c left: a copy of its list is gone through.
Offline(c) ==
  /\ main.at = "idle"
  /\ main' = [NoCall EXCEPT !.at = "next", !.conn = c,
                 !.rest = IF filed[c] = NoList THEN <<>> ELSE list[filed[c]]]
  /\ UNCHANGED <<tables, loop>>

\* An object that has moved, or no longer serves its entity, is left alone; for
\* another one the game is told.
NextPlayer ==
  /\ main.at = "next" /\ main.rest # <<>>
  /\ LET p == Head(main.rest)
         rest == [main EXCEPT !.rest = Tail(@)]
     IN  main' = IF clientConn[p] = main.conn /\ Serves(p)
                 THEN [rest EXCEPT !.at = "delete", !.player = p] ELSE rest
  /\ UNCHANGED <<tables, loop>>

\* Mutant of DelPlayer: it does not look again whether the entity has another
\* object now.
DelWhoever ==
  /\ main.at = "delete"
  /\ players' = [players EXCEPT ![entityId[main.player]] = NoPlayer]
  /\ main' = [main EXCEPT !.at = "next", !.player = NoPlayer]
  /\ UNCHANGED <<filed, list, entityId, clientConn, loop>>

\* del_player, when the game's handler has returned.
DelPlayer ==
  /\ main.at = "delete"
  /\ players' = IF Serves(main.player)
                THEN [players EXCEPT ![entityId[main.player]] = NoPlayer] ELSE players
  /\ main' = [main EXCEPT !.at = "next", !.player = NoPlayer]
  /\ UNCHANGED <<filed, list, entityId, clientConn, loop>>

\* del_player_list.
DelList ==
  /\ main.at = "next" /\ main.rest = <<>>
  /\ filed' = [filed EXCEPT ![main.conn] = NoList]
  /\ main' = NoCall
  /\ UNCHANGED <<players, entityId, clientConn, loop>>
  /\ list' = Kept(list)

-----------------------------------------------------------------------------
\* The connections that the call of a thread is about.
ConnOf(p) == IF p = NoPlayer THEN NoConn ELSE clientConn[p]
MainConns == {main.conn, main.old, ConnOf(main.player)} \ {NoConn}
LoopConns == {ConnOf(loop.player), ConnOf(loop.old)} \ {NoConn}

Overlap == main.at # "idle" /\ loop.at # "idle"
Common == Overlap /\ MainConns \cap LoopConns # {}

Step ==
  \/ \E p \in Players, e \in Entities, c \in Conns : Construct(p, e, c)
  \/ AddMade \/ Look \/ TakeOff \/ Count \/ Register \/ RegisterFails
  \/ \E e \in Entities, c \in Conns : Transfer(e, c)
  \/ Find \/ Join \/ Take \/ Move \/ Unfile \/ File
  \/ \E c \in Conns : Offline(c)
  \/ NextPlayer \/ DelPlayer \/ DelList

ThreadsNext ==
  /\ Step
  /\ met' = (met \/ Overlap')
  /\ clash' = (clash \/ Common')
  /\ before' = IF met' THEN NoTables ELSE IF Idle' THEN Tables' ELSE before

ThreadsSpec == ThreadsInit /\ [][ThreadsNext]_threadVars

-----------------------------------------------------------------------------
\* However the calls overlap, a session is ended only by the disconnect of the
\* connection it is on: a player that logged in again while the game handled the
\* end of the old session is not taken for the old one.
SparesOthers ==
  [][\A e \in Entities : players[e] # NoPlayer /\ players'[e] = NoPlayer =>
       clientConn[players[e]] = main.conn]_threadVars

\* Calls that are about different connections may overlap: when both threads
\* are done, what is filed under a connection is on it and serves its entity.
CalmTables ==
  Idle /\ ~clash =>
    \A c \in Conns : \A p \in Contents(c) : clientConn[p] = c /\ Serves(p)

\* As long as no two calls overlap, each has the effect it has in PlayerManager.
Manager == INSTANCE PlayerManager WITH
  players <- before.players, onConn <- before.onConn,
  entityId <- before.entityId, clientConn <- before.clientConn
OneCallAtATime ==
  Manager!Init /\ [][met' \/ Manager!Next \/ UNCHANGED before]_threadVars
=============================================================================
