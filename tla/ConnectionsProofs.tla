-------------------------- MODULE ConnectionsProofs --------------------------
(***************************************************************************)
(* Two things about connections. How two servers come to share one         *)
(* (Handshake): for any hubs and gates and any number of calls, two hubs   *)
(* get one connection, unless their lock expires under the handshake, and  *)
(* no server gives back a lock it did not take. And the tables a hub keeps *)
(* of the connections it has (HubConns): for any peers and links, what is  *)
(* sent to a peer goes out on a link to that peer, and what a link leaves  *)
(* behind is found again when it closes.                                   *)
(*                                                                         *)
(* The first rests on what the lock of two hubs says while it has not      *)
(* expired (OneHandshake): it is the lock of the call that holds it, then  *)
(* the one filed by the server whose RegServer is on its way; and when     *)
(* RegServer has been handled both tables have the other. The second rests *)
(* on whose values are in whose table, and on a call's value never being   *)
(* in the table while the call is under way (Locked).                      *)
(***************************************************************************)
EXTENDS Handshake, HubConns, FiniteSetTheorems, TLAPS

Task == [at : {"idle", "again", "acquire", "held"},
         peer : Servers \cup {None},
         call : {"direct", "service", None},
         value : Tokens \cup {None, Empty}]
Giver == [peer : Servers \cup {None}, value : Tokens \cup {None, Empty}]
Link == [from : Servers, to : Servers, sent : {"register", "answer", "nothing"}]

\* The pair a connection is of, and the pair a call is about.
LinkOf(i) == {links[i].from, links[i].to}
PairOf(s) == {s, task[s].peer}

\* A call is about a pair, with a value of its own; only a gate that gave up
\* has none.
Tasked ==
  \A s \in Servers : task[s].at # "idle" =>
    /\ PairOf(s) \in Pairs
    /\ task[s].value \in Tokens \cup {Empty}
    /\ task[s].value = Empty => s \in Gates /\ task[s].at = "held"
    /\ task[s].value \in Tokens => task[s].value.owner = s /\ task[s].value.n <= calls

\* A server files values of its own calls, when they are over.
Locked ==
  \A s \in Servers, p \in Pairs : locks[s][p] \in Tokens =>
    /\ locks[s][p].owner = s /\ locks[s][p].n <= calls
    /\ task[s].at # "idle" => locks[s][p] # task[s].value

\* So is the value it is about to give back, which is in its table no longer.
Given ==
  \A s \in Servers : Giving(s) =>
    /\ {s, giving[s].peer} \in Pairs
    /\ giving[s].value \in Tokens =>
         /\ giving[s].value.owner = s /\ giving[s].value.n <= calls
         /\ task[s].at # "idle" => giving[s].value # task[s].value
         /\ giving[s].value # locks[s][{s, giving[s].peer}]

Linked == \A i \in DOMAIN links : LinkOf(i) \in Pairs

Owned == Tasked /\ Locked /\ Given /\ Linked

-----------------------------------------------------------------------------
(* Pairs, values and connections.                                          *)

LEMMA PairIsTwo ==
  ASSUME NEW s, NEW t, {s, t} \in Pairs
  PROVE  s \in Servers /\ t \in Servers /\ s # t
<1>1. s \in Servers /\ t \in Servers BY DEF Pairs
<1>2. ASSUME s = t PROVE FALSE
  <2>1. {s, t} = {s} BY <1>2
  <2>2. Cardinality({s}) = 1 BY FS_Singleton
  <2> QED BY <2>1, <2>2 DEF Pairs
<1> QED BY <1>1, <1>2

LEMMA SamePair ==
  ASSUME NEW a, NEW b, NEW c, NEW d, {a, b} = {c, d}
  PROVE  (a = c /\ b = d) \/ (a = d /\ b = c)
<1>1. a \in {c, d} /\ b \in {c, d} /\ c \in {a, b} /\ d \in {a, b} OBVIOUS
<1> QED BY <1>1

LEMMA Names ==
  /\ None \notin Tokens /\ Empty \notin Tokens /\ None # Empty
  /\ None \notin Servers
  /\ \A h \in Hubs : h \in Servers /\ h \notin Gates
BY KindsAssumption, NamesAssumption DEF Servers

LEMMA ReleasedType ==
  ASSUME TypeOK, NEW p \in Pairs, NEW v
  PROVE  /\ Released(p, v) \in [Pairs -> Tokens \cup {None}]
         /\ \A q \in Pairs : Released(p, v)[q] =
              IF q = p /\ redis[p] = v THEN None ELSE redis[q]
BY DEF TypeOK, Released

LEMMA SentChanges ==
  ASSUME links \in Seq(Link), NEW i \in DOMAIN links,
         NEW x \in {"register", "answer", "nothing"},
         links' = [links EXCEPT ![i].sent = x]
  PROVE  /\ links' \in Seq(Link) /\ DOMAIN links' = DOMAIN links
         /\ \A j \in DOMAIN links :
              /\ links'[j].from = links[j].from /\ links'[j].to = links[j].to
              /\ links'[j].sent = IF j = i THEN x ELSE links[j].sent
         /\ \A j \in DOMAIN links : LinkOf(j)' = LinkOf(j)
<1>1. \A j \in DOMAIN links : links[j] \in Link OBVIOUS
<1>2. DOMAIN links' = DOMAIN links OBVIOUS
<1>3. \A j \in DOMAIN links : links'[j] =
        IF j = i THEN [links[i] EXCEPT !.sent = x] ELSE links[j]
  OBVIOUS
<1>4. [links[i] EXCEPT !.sent = x] \in Link BY <1>1 DEF Link
<1>5. links' \in Seq(Link) BY <1>1, <1>2, <1>3, <1>4
<1>6. \A j \in DOMAIN links :
        /\ links'[j].from = links[j].from /\ links'[j].to = links[j].to
        /\ links'[j].sent = IF j = i THEN x ELSE links[j].sent
  BY <1>1, <1>3 DEF Link
<1> QED BY <1>2, <1>5, <1>6 DEF LinkOf

LEMMA LinkAppended ==
  ASSUME links \in Seq(Link), NEW m \in Link, links' = Append(links, m)
  PROVE  /\ links' \in Seq(Link)
         /\ \E n : /\ n \notin DOMAIN links /\ DOMAIN links' = DOMAIN links \cup {n}
                   /\ links'[n] = m
         /\ \A j \in DOMAIN links : links'[j] = links[j] /\ LinkOf(j)' = LinkOf(j)
<1>1. Len(links') = Len(links) + 1 /\ Len(links) \in Nat /\ links' \in Seq(Link) OBVIOUS
<1>2. \A j \in DOMAIN links : links'[j] = links[j] OBVIOUS
<1>3. links'[Len(links) + 1] = m OBVIOUS
<1>4. DOMAIN links = 1 .. Len(links) /\ DOMAIN links' = 1 .. Len(links) + 1
  BY <1>1
<1>5. Len(links) + 1 \notin DOMAIN links
      /\ DOMAIN links' = DOMAIN links \cup {Len(links) + 1}
  BY <1>1, <1>4
<1> QED BY <1>1, <1>2, <1>3, <1>5 DEF LinkOf

LEMMA NotGivingIsGiver == NotGiving \in Giver /\ NotGiving.peer = None
BY DEF NotGiving, Giver

LEMMA IdleIsTask == Idle \in Task /\ Idle.at = "idle"
BY DEF Idle, Task

LEMMA Typed ==
  TypeOK <=> /\ redis \in [Pairs -> Tokens \cup {None}]
             /\ locks \in [Servers -> [Pairs -> Tokens \cup {None, Empty}]]
             /\ proxies \in [Servers -> SUBSET Servers]
             /\ links \in Seq(Link)
             /\ task \in [Servers -> Task]
             /\ adding \in [Hubs -> Gates \cup {None}]
             /\ giving \in [Servers -> Giver]
             /\ calls \in 0 .. MaxCalls
             /\ late \subseteq Pairs
BY DEF TypeOK, Task, Link, Giver

LEMMA TypedNext ==
  TypeOK' <=> /\ redis' \in [Pairs -> Tokens \cup {None}]
              /\ locks' \in [Servers -> [Pairs -> Tokens \cup {None, Empty}]]
              /\ proxies' \in [Servers -> SUBSET Servers]
              /\ links' \in Seq(Link)
              /\ task' \in [Servers -> Task]
              /\ adding' \in [Hubs -> Gates \cup {None}]
              /\ giving' \in [Servers -> Giver]
              /\ calls' \in 0 .. MaxCalls
              /\ late' \subseteq Pairs
BY DEF TypeOK, Task, Link, Giver

\* What a call that is not idle is about.
LEMMA CallIs ==
  ASSUME TypeOK, Owned, NEW s \in Servers, task[s].at # "idle"
  PROVE  /\ PairOf(s) \in Pairs /\ PairOf(s) = {s, task[s].peer}
         /\ task[s].peer \in Servers /\ task[s].peer # s
         /\ task[s] \in Task /\ task[s].value \in Tokens \cup {Empty}
         /\ task[s].at # "held" => task[s].value \in Tokens
         /\ PairOf(s) \subseteq Hubs => task[s].value \in Tokens
         /\ task[s].value \in Tokens => task[s].value.owner = s
<1>1. PairOf(s) \in Pairs /\ PairOf(s) = {s, task[s].peer} BY DEF Owned, Tasked, PairOf
<1>2. task[s].peer \in Servers /\ task[s].peer # s BY <1>1, PairIsTwo
<1>3. task[s] \in Task BY Typed
<1> QED BY <1>1, <1>2, <1>3, Names DEF Owned, Tasked

-----------------------------------------------------------------------------
(* Types and owners.                                                       *)

LEMMA InitOwned == Init => TypeOK /\ Owned
<1> SUFFICES ASSUME Init PROVE TypeOK /\ Owned OBVIOUS
<1>1. 0 \in 0 .. MaxCalls BY BoundsAssumption
<1>2. TypeOK BY <1>1, IdleIsTask, NotGivingIsGiver, Typed DEF Init
<1>3. Owned BY Names, IdleIsTask, NotGivingIsGiver
  DEF Init, Owned, Tasked, Locked, Linked, Given, Giving
<1> QED BY <1>2, <1>3

LEMMA EnterOwned ==
  ASSUME TypeOK, Owned, NEW s \in Servers, NEW t \in Servers,
         NEW call \in {"direct", "service"}, Enter(s, t, call)
  PROVE  TypeOK' /\ Owned'
<1> DEFINE v == [owner |-> s, n |-> calls']
           new == [at |-> "acquire", peer |-> t, call |-> call, value |-> v]
<1>1. calls' = calls + 1 /\ calls' \in 1 .. MaxCalls /\ calls \in Nat
  BY Typed, BoundsAssumption DEF Enter
<1>2. v \in Tokens /\ v.owner = s /\ v.n = calls + 1 BY <1>1 DEF Tokens
<1>3. \A w \in Tokens : w.n <= calls => w # v /\ w.n <= calls'
  BY <1>1, <1>2 DEF Tokens
<1>4. task' = [task EXCEPT ![s] = new] BY DEF Enter
<1>5. {s, t} \in Pairs BY DEF Enter
<1> HIDE DEF v
<1>6. /\ new \in Task /\ new.at = "acquire" /\ new.peer = t /\ new.value = v
  BY <1>2 DEF Task
<1> HIDE DEF new
<1>7. UNCHANGED <<redis, locks, proxies, links, adding, giving, late>> BY DEF Enter
<1>8. TypeOK' BY <1>1, <1>4, <1>6, <1>7, Typed, TypedNext
<1>9. \A u \in Servers : task'[u] = IF u = s THEN new ELSE task[u] BY <1>4, Typed
<1>10. Tasked'
  <2> SUFFICES ASSUME NEW u \in Servers, task'[u].at # "idle"
               PROVE  /\ {u, task'[u].peer} \in Pairs
                      /\ task'[u].value \in Tokens \cup {Empty}
                      /\ task'[u].value = Empty => u \in Gates /\ task'[u].at = "held"
                      /\ task'[u].value \in Tokens =>
                           task'[u].value.owner = u /\ task'[u].value.n <= calls'
    BY DEF Tasked, PairOf
  <2>1. CASE u = s BY <1>1, <1>2, <1>5, <1>6, <1>9, <2>1, Names
  <2>2. CASE u # s BY <1>3, <1>9, <2>2 DEF Owned, Tasked, PairOf
  <2> QED BY <2>1, <2>2
<1>11. Locked' BY <1>3, <1>6, <1>7, <1>9 DEF Owned, Locked
<1>12. Given' BY <1>1, <1>3, <1>6, <1>7, <1>9 DEF Owned, Given, Giving
<1>13. Linked' BY <1>7 DEF Owned, Linked, LinkOf
<1> QED BY <1>8, <1>10, <1>11, <1>12, <1>13 DEF Owned

\* Steps that give a call another state of its own, or end it.
LEMMA TaskOwned ==
  ASSUME TypeOK, Owned, NEW s \in Servers, NEW new \in Task,
         task' = [task EXCEPT ![s] = new],
         new.at = "idle" \/ ( /\ task[s].at # "idle" /\ new.peer = task[s].peer
                              /\ \/ new.value = task[s].value
                                    /\ (task[s].at = "held" => new.at = "held")
                                 \/ new.value = Empty /\ s \in Gates /\ new.at = "held" ),
         UNCHANGED <<locks, giving, calls>>
  PROVE  Tasked' /\ Locked' /\ Given' /\ task' \in [Servers -> Task]
<1>1. task' \in [Servers -> Task] BY Typed
<1>2. \A u \in Servers : task'[u] = IF u = s THEN new ELSE task[u] BY Typed
<1>3. Tasked'
  <2> SUFFICES ASSUME NEW u \in Servers, task'[u].at # "idle"
               PROVE  /\ {u, task'[u].peer} \in Pairs
                      /\ task'[u].value \in Tokens \cup {Empty}
                      /\ task'[u].value = Empty => u \in Gates /\ task'[u].at = "held"
                      /\ task'[u].value \in Tokens =>
                           task'[u].value.owner = u /\ task'[u].value.n <= calls'
    BY DEF Tasked, PairOf
  <2>1. CASE u = s BY <1>2, <2>1, Names DEF Owned, Tasked, PairOf
  <2>2. CASE u # s BY <1>2, <2>2 DEF Owned, Tasked, PairOf
  <2> QED BY <2>1, <2>2
<1>4. Locked' BY <1>2, Names DEF Owned, Locked
<1>5. Given'
  <2> SUFFICES ASSUME NEW u \in Servers, Giving(u)
               PROVE  /\ {u, giving[u].peer} \in Pairs
                      /\ giving[u].value \in Tokens =>
                           /\ giving[u].value.owner = u /\ giving[u].value.n <= calls
                           /\ task'[u].at # "idle" => giving[u].value # task'[u].value
                           /\ giving[u].value # locks[u][{u, giving[u].peer}]
    BY DEF Given, Giving
  <2>1. task'[u].at # "idle" => \/ task'[u].value = Empty
                              \/ (task[u].at # "idle" /\ task'[u].value = task[u].value)
    BY <1>2
  <2> QED BY <2>1, Names DEF Owned, Given
<1> QED BY <1>1, <1>3, <1>4, <1>5

LEMMA AcquireOwned ==
  ASSUME TypeOK, Owned, NEW s \in Servers, Acquire(s)
  PROVE  /\ TypeOK' /\ Owned'
         /\ redis[PairOf(s)] = None
         /\ redis' = [redis EXCEPT ![PairOf(s)] = task[s].value]
         /\ task[s].value \in Tokens
         /\ task'[s].peer = task[s].peer /\ task'[s].value = task[s].value
         /\ \A u \in Servers \ {s} : task'[u] = task[u]
<1> DEFINE new == [task[s] EXCEPT !.at = "held"]
<1>1. task[s].at = "acquire" BY DEF Acquire
<1>2. task[s] \in Task BY Typed
<1>3. /\ new \in Task /\ new.at = "held" /\ new.peer = task[s].peer
      /\ new.value = task[s].value
  BY <1>2 DEF Task
<1>4. task' = [task EXCEPT ![s] = new] BY DEF Acquire
<1> HIDE DEF new
<1>5. UNCHANGED <<locks, proxies, links, adding, giving, calls, late>> BY DEF Acquire
<1>6. Tasked' /\ Locked' /\ Given' /\ task' \in [Servers -> Task]
  BY <1>1, <1>3, <1>4, <1>5, TaskOwned
<1>7. redis[PairOf(s)] = None /\ redis' = [redis EXCEPT ![PairOf(s)] = task[s].value]
  BY DEF Acquire, PairOf
<1>8. task[s].value \in Tokens BY <1>1, CallIs
<1>9. TypeOK' BY <1>5, <1>6, <1>7, <1>8, Typed, TypedNext
<1>10. Linked' BY <1>5 DEF Owned, Linked, LinkOf
<1>11. task'[s] = new /\ \A u \in Servers \ {s} : task'[u] = task[u]
  BY <1>4, Typed
<1> QED BY <1>3, <1>6, <1>7, <1>8, <1>9, <1>10, <1>11 DEF Owned

LEMMA GiveUpOwned ==
  ASSUME TypeOK, Owned, NEW s \in Servers, GiveUp(s)
  PROVE  /\ TypeOK' /\ Owned'
         /\ s \in Hubs => task'[s].at # "held"
         /\ \A u \in Servers \ {s} : task'[u] = task[u]
<1> DEFINE new == IF s \in Gates
                  THEN [at |-> "held", peer |-> task[s].peer,
                        call |-> task[s].call, value |-> Empty]
                  ELSE IF task[s].call = "service" THEN [task[s] EXCEPT !.at = "again"]
                  ELSE Idle
<1>1. task[s].at = "acquire" BY DEF GiveUp
<1>2. task[s] \in Task BY Typed
<1>3. /\ new \in Task
      /\ s \notin Gates => new.at # "held"
      /\ new.at = "idle" \/ ( /\ new.peer = task[s].peer
                              /\ \/ new.value = task[s].value
                                 \/ new.value = Empty /\ s \in Gates /\ new.at = "held" )
  <2>1. CASE s \in Gates BY <1>2, <2>1 DEF Task
  <2>2. CASE s \notin Gates /\ task[s].call = "service" BY <1>2, <2>2 DEF Task
  <2>3. CASE s \notin Gates /\ task[s].call # "service" BY <2>3, IdleIsTask
  <2> QED BY <2>1, <2>2, <2>3
<1>4. task' = [task EXCEPT ![s] = new] BY DEF GiveUp
<1> HIDE DEF new
<1>5. UNCHANGED <<redis, locks, proxies, links, adding, giving, calls, late>> BY DEF GiveUp
<1>6. Tasked' /\ Locked' /\ Given' /\ task' \in [Servers -> Task]
  BY <1>1, <1>3, <1>4, <1>5, TaskOwned
<1>7. TypeOK' BY <1>5, <1>6, Typed, TypedNext
<1>8. Linked' BY <1>5 DEF Owned, Linked, LinkOf
<1>9. task'[s] = new /\ \A u \in Servers \ {s} : task'[u] = task[u]
  BY <1>4, Typed
<1> QED BY <1>3, <1>6, <1>7, <1>8, <1>9, Names DEF Owned

LEMMA LookAgainOwned ==
  ASSUME TypeOK, Owned, NEW s \in Servers, LookAgain(s)
  PROVE  /\ TypeOK' /\ Owned'
         /\ task'[s].at # "held"
         /\ \A u \in Servers \ {s} : task'[u] = task[u]
<1> DEFINE new == IF task[s].peer \in proxies[s] THEN Idle
                  ELSE [task[s] EXCEPT !.at = "acquire"]
<1>1. task[s].at = "again" BY DEF LookAgain
<1>2. task[s] \in Task BY Typed
<1>3. /\ new \in Task /\ new.at # "held"
      /\ new.at = "idle" \/ (new.peer = task[s].peer /\ new.value = task[s].value)
  <2>1. CASE task[s].peer \in proxies[s] BY <2>1, IdleIsTask
  <2>2. CASE task[s].peer \notin proxies[s] BY <1>2, <2>2 DEF Task
  <2> QED BY <2>1, <2>2
<1>4. task' = [task EXCEPT ![s] = new] BY DEF LookAgain
<1> HIDE DEF new
<1>5. UNCHANGED <<redis, locks, proxies, links, adding, giving, calls, late>> BY DEF LookAgain
<1>6. Tasked' /\ Locked' /\ Given' /\ task' \in [Servers -> Task]
  BY <1>1, <1>3, <1>4, <1>5, TaskOwned
<1>7. TypeOK' BY <1>5, <1>6, Typed, TypedNext
<1>8. Linked' BY <1>5 DEF Owned, Linked, LinkOf
<1>9. task'[s] = new /\ \A u \in Servers \ {s} : task'[u] = task[u]
  BY <1>4, Typed
<1> QED BY <1>3, <1>6, <1>7, <1>8, <1>9 DEF Owned

LEMMA AlreadyThereOwned ==
  ASSUME TypeOK, Owned, NEW s \in Servers, AlreadyThere(s)
  PROVE  /\ TypeOK' /\ Owned' /\ PairOf(s) \in Pairs
         /\ \A q \in Pairs : redis'[q] =
              IF q = PairOf(s) /\ redis[q] = task[s].value THEN None ELSE redis[q]
         /\ task'[s].at = "idle"
         /\ \A u \in Servers \ {s} : task'[u] = task[u]
<1>1. task[s].at = "held" BY DEF AlreadyThere, MayDial
<1>2. PairOf(s) \in Pairs BY <1>1, CallIs
<1>3. redis' = Released(PairOf(s), task[s].value) BY DEF AlreadyThere, PairOf
<1>4. task' = [task EXCEPT ![s] = Idle] BY DEF AlreadyThere
<1>5. UNCHANGED <<locks, proxies, links, adding, giving, calls, late>> BY DEF AlreadyThere
<1>6. Tasked' /\ Locked' /\ Given' /\ task' \in [Servers -> Task]
  BY <1>4, <1>5, TaskOwned, IdleIsTask
<1>7. TypeOK' BY <1>2, <1>3, <1>5, <1>6, ReleasedType, Typed, TypedNext
<1>8. Linked' BY <1>5 DEF Owned, Linked, LinkOf
<1>9. task'[s] = Idle /\ \A u \in Servers \ {s} : task'[u] = task[u]
  BY <1>4, Typed
<1> QED BY <1>2, <1>3, <1>6, <1>7, <1>8, <1>9, ReleasedType, IdleIsTask DEF Owned

\* The lock of a call is filed, and the call is over.
LEMMA FiledOwned ==
  ASSUME TypeOK, Owned, NEW s \in Servers, task[s].at = "held",
         FileLock(s), task' = [task EXCEPT ![s] = Idle], UNCHANGED <<giving, calls>>
  PROVE  /\ Tasked' /\ Locked' /\ Given' /\ PairOf(s) \in Pairs
         /\ locks' \in [Servers -> [Pairs -> Tokens \cup {None, Empty}]]
         /\ task' \in [Servers -> Task]
         /\ \A u \in Servers, q \in Pairs : locks'[u][q] =
              IF u = s /\ q = PairOf(s) THEN task[s].value ELSE locks[u][q]
         /\ task'[s].at = "idle"
         /\ \A u \in Servers \ {s} : task'[u] = task[u]
<1>1. PairOf(s) \in Pairs /\ task[s].value \in Tokens \cup {Empty} BY CallIs
<1>2. locks' = [locks EXCEPT ![s] = [locks[s] EXCEPT ![PairOf(s)] = task[s].value]]
  BY DEF FileLock, PairOf
<1>3. /\ locks' \in [Servers -> [Pairs -> Tokens \cup {None, Empty}]]
      /\ \A u \in Servers, q \in Pairs : locks'[u][q] =
           IF u = s /\ q = PairOf(s) THEN task[s].value ELSE locks[u][q]
  BY <1>1, <1>2, Typed
<1>4. /\ task' \in [Servers -> Task] /\ task'[s].at = "idle"
      /\ \A u \in Servers \ {s} : task'[u] = task[u]
  BY Typed, IdleIsTask
<1>5. Tasked' BY <1>4 DEF Owned, Tasked, PairOf
<1>6. Locked' BY <1>1, <1>3, <1>4, Names DEF Owned, Tasked, Locked
<1>7. Given'
  <2> SUFFICES ASSUME NEW u \in Servers, Giving(u)
               PROVE  /\ {u, giving[u].peer} \in Pairs
                      /\ giving[u].value \in Tokens =>
                           /\ giving[u].value.owner = u /\ giving[u].value.n <= calls
                           /\ task'[u].at # "idle" => giving[u].value # task'[u].value
                           /\ giving[u].value # locks'[u][{u, giving[u].peer}]
    BY DEF Given, Giving
  <2>1. {u, giving[u].peer} \in Pairs BY DEF Owned, Given
  <2>2. locks'[u][{u, giving[u].peer}] = locks[u][{u, giving[u].peer}]
        \/ (u = s /\ locks'[u][{u, giving[u].peer}] = task[u].value)
    BY <1>3, <2>1
  <2> QED BY <1>4, <2>2 DEF Owned, Given
<1> QED BY <1>1, <1>3, <1>4, <1>5, <1>6, <1>7

LEMMA DialOwned ==
  ASSUME TypeOK, Owned, NEW s \in Servers, Dial(s)
  PROVE  TypeOK' /\ Owned'
<1> DEFINE m == [from |-> s, to |-> task[s].peer, sent |-> "register"]
<1>1. task[s].at = "held" /\ UNCHANGED <<redis, adding, giving, calls, late>>
  BY DEF Dial, MayDial
<1>2. FileLock(s) /\ task' = [task EXCEPT ![s] = Idle] BY DEF Dial
<1>3. /\ Tasked' /\ Locked' /\ Given' /\ PairOf(s) \in Pairs
      /\ locks' \in [Servers -> [Pairs -> Tokens \cup {None, Empty}]]
      /\ task' \in [Servers -> Task]
  BY <1>1, <1>2, FiledOwned
<1>4. task[s].peer \in Servers BY <1>1, CallIs
<1>5. m \in Link /\ {m.from, m.to} = PairOf(s) BY <1>4 DEF Link, PairOf
<1>6. links' = Append(links, m) /\ links \in Seq(Link) BY Typed DEF Dial
<1> HIDE DEF m
<1>7. links' \in Seq(Link) BY <1>5, <1>6, LinkAppended
<1>8. Linked'
  <2>1. PICK n : /\ DOMAIN links' = DOMAIN links \cup {n} /\ links'[n] = m
    BY <1>5, <1>6, LinkAppended
  <2>2. \A j \in DOMAIN links : LinkOf(j)' = LinkOf(j) BY <1>5, <1>6, LinkAppended
  <2>3. LinkOf(n)' = PairOf(s) BY <1>5, <2>1 DEF LinkOf
  <2> QED BY <1>3, <2>1, <2>2, <2>3 DEF Owned, Linked
<1>9. proxies' \in [Servers -> SUBSET Servers] BY <1>4, Typed DEF Dial
<1>10. TypeOK' BY <1>1, <1>3, <1>7, <1>9, Typed, TypedNext
<1> QED BY <1>3, <1>8, <1>10 DEF Owned

LEMMA DialFailsOwned ==
  ASSUME TypeOK, Owned, NEW s \in Servers, DialFails(s)
  PROVE  TypeOK' /\ Owned'
<1>1. /\ task[s].at = "held" /\ FileLock(s) /\ task' = [task EXCEPT ![s] = Idle]
      /\ UNCHANGED <<redis, proxies, links, adding, giving, calls, late>>
  BY DEF DialFails, MayDial
<1>2. /\ Tasked' /\ Locked' /\ Given'
      /\ locks' \in [Servers -> [Pairs -> Tokens \cup {None, Empty}]]
      /\ task' \in [Servers -> Task]
  BY <1>1, FiledOwned
<1>3. TypeOK' BY <1>1, <1>2, Typed, TypedNext
<1>4. Linked' BY <1>1 DEF Owned, Linked, LinkOf
<1> QED BY <1>2, <1>3, <1>4 DEF Owned

LEMMA LinkIs ==
  ASSUME TypeOK, Owned, NEW i \in DOMAIN links
  PROVE  /\ links[i] \in Link /\ links \in Seq(Link)
         /\ LinkOf(i) \in Pairs /\ LinkOf(i) = {links[i].from, links[i].to}
         /\ links[i].from \in Servers /\ links[i].to \in Servers
         /\ links[i].from # links[i].to
<1>1. links \in Seq(Link) BY Typed
<1>2. links[i] \in Link BY <1>1
<1>3. LinkOf(i) \in Pairs /\ LinkOf(i) = {links[i].from, links[i].to}
  BY DEF Owned, Linked, LinkOf
<1> QED BY <1>1, <1>2, <1>3, PairIsTwo

LEMMA RegisterOwned ==
  ASSUME TypeOK, Owned, NEW i \in DOMAIN links, Register(i)
  PROVE  /\ TypeOK' /\ Owned'
         /\ links[i].sent = "register"
         /\ links' = [links EXCEPT ![i].sent = "answer"]
         /\ \A u \in Servers : proxies[u] \subseteq proxies'[u]
         /\ links[i].from \in Hubs => links[i].from \in proxies'[links[i].to]
<1> DEFINE s == links[i].from
           t == links[i].to
<1>1. /\ links[i].sent = "register"
      /\ links' = [links EXCEPT ![i].sent = "answer"]
      /\ UNCHANGED <<redis, locks, task, giving, calls, late>>
  BY DEF Register
<1>2. \/ s \in Hubs /\ proxies' = [proxies EXCEPT ![t] = @ \cup {s}] /\ UNCHANGED adding
      \/ s \in Gates /\ adding' = [adding EXCEPT ![t] = s] /\ UNCHANGED proxies
  BY DEF Register
<1>3. s \in Servers /\ t \in Servers BY LinkIs
<1>4. /\ links' \in Seq(Link) /\ DOMAIN links' = DOMAIN links
      /\ \A j \in DOMAIN links : LinkOf(j)' = LinkOf(j)
  BY <1>1, LinkIs, SentChanges
<1> HIDE DEF s, t
<1>5. TypeOK'
  <2>1. proxies' \in [Servers -> SUBSET Servers] BY <1>2, <1>3, Typed
  <2>2. adding' \in [Hubs -> Gates \cup {None}] BY <1>2, Typed
  <2> QED BY <1>1, <1>4, <2>1, <2>2, Typed, TypedNext
<1>6. Tasked' /\ Locked' /\ Given'
  BY <1>1 DEF Owned, Tasked, Locked, Given, Giving, PairOf
<1>7. Linked' BY <1>4 DEF Owned, Linked
<1>8. \A u \in Servers : proxies[u] \subseteq proxies'[u] BY <1>2, <1>3, Typed
<1>9. s \in Hubs => s \in proxies'[t] BY <1>2, <1>3, Names, Typed
<1> USE DEF s, t
<1> QED BY <1>1, <1>5, <1>6, <1>7, <1>8, <1>9 DEF Owned

LEMMA AddGateOwned ==
  ASSUME TypeOK, Owned, NEW h \in Hubs, AddGate(h)
  PROVE  /\ TypeOK' /\ Owned'
         /\ \A u \in Servers : proxies[u] \subseteq proxies'[u]
<1>1. /\ adding[h] # None
      /\ proxies' = [proxies EXCEPT ![h] = @ \cup {adding[h]}]
      /\ adding' = [adding EXCEPT ![h] = None]
      /\ UNCHANGED <<redis, locks, links, task, giving, calls, late>>
  BY DEF AddGate
<1>2. h \in Servers /\ adding[h] \in Servers BY <1>1, Typed DEF Servers
<1>3. TypeOK' BY <1>1, <1>2, Typed, TypedNext
<1>4. Owned' BY <1>1 DEF Owned, Tasked, Locked, Given, Giving, Linked, PairOf, LinkOf
<1>5. \A u \in Servers : proxies[u] \subseteq proxies'[u] BY <1>1, <1>2, Typed
<1> QED BY <1>3, <1>4, <1>5

LEMMA CallbackOwned ==
  ASSUME TypeOK, Owned, NEW i \in DOMAIN links, Callback(i)
  PROVE  /\ TypeOK' /\ Owned'
         /\ links[i].sent = "answer"
         /\ links' = [links EXCEPT ![i].sent = "nothing"]
         /\ \A u \in Servers, q \in Pairs : locks'[u][q] =
              IF u = links[i].from /\ q = LinkOf(i) THEN None ELSE locks[u][q]
<1> DEFINE s == links[i].from
           t == links[i].to
           p == LinkOf(i)
           new == [peer |-> t, value |-> IF locks[s][p] = None THEN Empty ELSE locks[s][p]]
<1>1. /\ links[i].sent = "answer"
      /\ locks' = [locks EXCEPT ![s] = [locks[s] EXCEPT ![p] = None]]
      /\ links' = [links EXCEPT ![i].sent = "nothing"]
      /\ giving' = giving \/ giving' = [giving EXCEPT ![s] = new]
      /\ UNCHANGED <<redis, proxies, task, adding, calls, late>>
  BY DEF Callback, LinkOf
<1>2. s \in Servers /\ t \in Servers /\ p \in Pairs /\ p = {s, t} BY LinkIs
<1>3. /\ links' \in Seq(Link) /\ DOMAIN links' = DOMAIN links
      /\ \A j \in DOMAIN links : LinkOf(j)' = LinkOf(j)
  BY <1>1, LinkIs, SentChanges
<1>4. new \in Giver /\ new.peer = t
      /\ new.value = IF locks[s][p] = None THEN Empty ELSE locks[s][p]
  <2> HIDE DEF s, t, p
  <2>1. locks[s][p] \in Tokens \cup {None, Empty} BY <1>2, Typed
  <2> QED BY <1>2, <2>1 DEF Giver
<1> HIDE DEF s, t, p, new
<1>5. /\ locks' \in [Servers -> [Pairs -> Tokens \cup {None, Empty}]]
      /\ \A u \in Servers, q \in Pairs : locks'[u][q] =
           IF u = s /\ q = p THEN None ELSE locks[u][q]
  BY <1>1, <1>2, Typed
<1>6. /\ giving' \in [Servers -> Giver]
      /\ \A u \in Servers : giving'[u] = giving[u] \/ (u = s /\ giving'[u] = new)
  BY <1>1, <1>2, <1>4, Typed
<1>7. TypeOK' BY <1>1, <1>3, <1>5, <1>6, Typed, TypedNext
<1>8. Tasked' BY <1>1 DEF Owned, Tasked, PairOf
<1>9. Locked' BY <1>1, <1>5, Names DEF Owned, Locked
<1>10. Given'
  <2> SUFFICES ASSUME NEW u \in Servers, Giving(u)'
               PROVE  /\ {u, giving'[u].peer} \in Pairs
                      /\ giving'[u].value \in Tokens =>
                           /\ giving'[u].value.owner = u /\ giving'[u].value.n <= calls
                           /\ task[u].at # "idle" => giving'[u].value # task[u].value
                           /\ giving'[u].value # locks'[u][{u, giving'[u].peer}]
    BY <1>1 DEF Given
  <2>1. CASE giving'[u] = giving[u]
    <3>1. {u, giving[u].peer} \in Pairs BY <2>1 DEF Giving, Owned, Given
    <3>2. locks'[u][{u, giving[u].peer}] \in {None, locks[u][{u, giving[u].peer}]}
      BY <1>5, <3>1
    <3> QED BY <2>1, <3>1, <3>2, Names DEF Giving, Owned, Given
  <2>2. CASE u = s /\ giving'[u] = new
    <3>1. locks'[s][p] = None /\ {u, giving'[u].peer} = p BY <1>2, <1>4, <1>5, <2>2
    <3>2. new.value \in Tokens => new.value = locks[s][p] BY <1>4, Names
    <3>3. locks[s][p] \in Tokens => /\ locks[s][p].owner = s /\ locks[s][p].n <= calls
                                    /\ task[s].at # "idle" => locks[s][p] # task[s].value
      BY <1>2 DEF Owned, Locked
    <3> QED BY <1>2, <2>2, <3>1, <3>2, <3>3, Names
  <2> QED BY <1>6, <2>1, <2>2
<1>11. Linked' BY <1>3 DEF Owned, Linked
<1> USE DEF s, t, p
<1> QED BY <1>1, <1>5, <1>7, <1>8, <1>9, <1>10, <1>11 DEF Owned

LEMMA GiveBackOwned ==
  ASSUME TypeOK, Owned, NEW s \in Servers, GiveBack(s)
  PROVE  /\ TypeOK' /\ Owned'
         /\ {s, giving[s].peer} \in Pairs
         /\ \A q \in Pairs : redis'[q] =
              IF q = {s, giving[s].peer} /\ redis[q] = giving[s].value
              THEN None ELSE redis[q]
         /\ \A u \in Servers \ {s} : giving'[u] = giving[u]
<1>1. /\ redis' = Released({s, giving[s].peer}, giving[s].value)
      /\ giving' = [giving EXCEPT ![s] = NotGiving]
      /\ UNCHANGED <<locks, proxies, links, task, adding, calls, late>>
  BY DEF GiveBack
<1>2. {s, giving[s].peer} \in Pairs BY DEF GiveBack, Owned, Given
<1>3. /\ giving' \in [Servers -> Giver] /\ giving'[s].peer = None
      /\ \A u \in Servers \ {s} : giving'[u] = giving[u]
  BY <1>1, NotGivingIsGiver, Typed
<1>4. TypeOK' BY <1>1, <1>2, <1>3, ReleasedType, Typed, TypedNext
<1>5. Given' BY <1>1, <1>3 DEF Owned, Given, Giving
<1>6. Tasked' /\ Locked' /\ Linked' BY <1>1 DEF Owned, Tasked, Locked, Linked, PairOf, LinkOf
<1>7. \A q \in Pairs : redis'[q] =
        IF q = {s, giving[s].peer} /\ redis[q] = giving[s].value THEN None ELSE redis[q]
  <2> DEFINE r == {s, giving[s].peer}
             v == giving[s].value
  <2> HIDE DEF r, v
  <2>1. r \in Pairs /\ redis' = Released(r, v) BY <1>1, <1>2 DEF r, v
  <2>2. \A q \in Pairs : redis'[q] = IF q = r /\ redis[q] = v THEN None ELSE redis[q]
    BY <2>1, ReleasedType
  <2> QED BY <2>2 DEF r, v
<1>8. Owned' BY <1>5, <1>6 DEF Owned
<1> QED BY <1>2, <1>3, <1>4, <1>7, <1>8

LEMMA ExpireOwned ==
  ASSUME TypeOK, Owned, NEW p \in Pairs, Expire(p)
  PROVE  TypeOK' /\ Owned'
<1>1. /\ redis' = [redis EXCEPT ![p] = None] /\ late' \in {late, late \cup {p}}
      /\ UNCHANGED <<locks, proxies, links, task, adding, giving, calls>>
  BY DEF Expire
<1>2. redis' \in [Pairs -> Tokens \cup {None}] /\ late' \subseteq Pairs
  BY <1>1, Typed
<1>3. TypeOK' BY <1>1, <1>2, Typed, TypedNext
<1>4. Owned' BY <1>1 DEF Owned, Tasked, Locked, Given, Giving, Linked, PairOf, LinkOf
<1> QED BY <1>3, <1>4

LEMMA OwnedStep == TypeOK /\ Owned /\ [Next]_vars => TypeOK' /\ Owned'
<1> SUFFICES ASSUME TypeOK, Owned, [Next]_vars PROVE TypeOK' /\ Owned' OBVIOUS
<1>1. ASSUME NEW s \in Servers, NEW t \in Servers, NEW call \in {"direct", "service"},
             Enter(s, t, call)
      PROVE  TypeOK' /\ Owned'
  BY <1>1, EnterOwned
<1>2. ASSUME NEW s \in Servers, TaskStep(s) PROVE TypeOK' /\ Owned'
  BY <1>2, AcquireOwned, GiveUpOwned, LookAgainOwned, AlreadyThereOwned,
     DialOwned, DialFailsOwned DEF TaskStep
<1>3. ASSUME NEW i \in DOMAIN links, Register(i) \/ Callback(i)
      PROVE  TypeOK' /\ Owned'
  BY <1>3, RegisterOwned, CallbackOwned
<1>4. ASSUME NEW h \in Hubs, AddGate(h) PROVE TypeOK' /\ Owned' BY <1>4, AddGateOwned
<1>5. ASSUME NEW p \in Pairs, Expire(p) PROVE TypeOK' /\ Owned' BY <1>5, ExpireOwned
<1>6. ASSUME NEW s \in Servers, GiveBack(s) PROVE TypeOK' /\ Owned'
  BY <1>6, GiveBackOwned
<1>7. ASSUME UNCHANGED vars PROVE TypeOK' /\ Owned'
  <2>1. TypeOK' BY <1>7, Typed, TypedNext DEF vars
  <2>2. Owned' BY <1>7 DEF vars, Owned, Tasked, Locked, Given, Giving, Linked, PairOf, LinkOf
  <2> QED BY <2>1, <2>2
<1> QED BY <1>1, <1>2, <1>3, <1>4, <1>5, <1>6, <1>7 DEF Next

\* What the handshake keeps is what the code's maps and messages hold: a token
\* or nothing in Redis, servers in the tables, gates where gates are added.
THEOREM HandshakeTypeCorrect == Spec => []TypeOK
<1>1. Spec => [](TypeOK /\ Owned) BY InitOwned, OwnedStep, PTL DEF Spec
<1> QED BY <1>1, PTL

-----------------------------------------------------------------------------
(* Nobody frees the lock of another.                                       *)

\* A step that makes a lock's key go away, and with it changes the calls or
\* the answers of a server, is a step of the server whose value the key had.
LEMMA StepFreesOwnLock ==
  ASSUME TypeOK, Owned, [Next]_vars, NEW p \in Pairs, NEW s \in Servers,
         redis[p] # None, redis'[p] = None,
         task'[s] # task[s] \/ giving'[s] # giving[s]
  PROVE  redis[p].owner = s
<1>1. redis \in [Pairs -> Tokens \cup {None}] /\ redis[p] \in Tokens BY Typed
<1>2. ASSUME redis' = redis PROVE FALSE BY <1>2
<1>3. ASSUME NEW u \in Servers, Acquire(u) PROVE FALSE
  BY <1>1, <1>3, AcquireOwned, CallIs, Names DEF Acquire
<1>4. ASSUME NEW u \in Servers, AlreadyThere(u) PROVE redis[p].owner = s
  <2>1. task[u].at = "held" /\ UNCHANGED giving BY <1>4 DEF AlreadyThere, MayDial
  <2>2. p = PairOf(u) /\ redis[p] = task[u].value BY <1>4, AlreadyThereOwned
  <2>3. redis[p].owner = u BY <1>1, <2>1, <2>2, CallIs
  <2>4. s = u BY <1>4, <2>1, AlreadyThereOwned
  <2> QED BY <2>3, <2>4
<1>5. ASSUME NEW u \in Servers, GiveBack(u) PROVE redis[p].owner = s
  <2>1. UNCHANGED task /\ Giving(u) BY <1>5 DEF GiveBack
  <2>2. redis[p] = giving[u].value BY <1>5, <1>1, Names, GiveBackOwned
  <2>3. redis[p].owner = u BY <1>1, <2>1, <2>2 DEF Owned, Given
  <2>4. s = u BY <1>5, <2>1, GiveBackOwned
  <2> QED BY <2>3, <2>4
<1>6. ASSUME NEW q \in Pairs, Expire(q) PROVE FALSE BY <1>6 DEF Expire
<1>7. ASSUME NEW u \in Servers, TaskStep(u) PROVE redis[p].owner = s
  BY <1>2, <1>3, <1>4, <1>7 DEF TaskStep, GiveUp, LookAgain, Dial, DialFails
<1> QED
  BY <1>2, <1>5, <1>6, <1>7 DEF Next, Enter, Register, Callback, AddGate, vars

\* What a server gives back when an answer comes, or when its peer is there
\* already, is the lock it took, even when the lock expired and the peer or a
\* later attempt holds it by then.
THEOREM ServersFreeTheirOwn == Spec => FreesOwnLock
<1>1. TypeOK /\ Owned /\ [Next]_vars =>
        [\A p \in Pairs, s \in Servers :
           /\ redis[p] # None /\ redis'[p] = None
           /\ task'[s] # task[s] \/ giving'[s] # giving[s]
           => redis[p].owner = s]_vars
  BY StepFreesOwnLock
<1>2. Spec => [](TypeOK /\ Owned) BY InitOwned, OwnedStep, PTL DEF Spec
<1> QED BY <1>1, <1>2, PTL DEF Spec, FreesOwnLock

-----------------------------------------------------------------------------
(* Two hubs get one connection.                                            *)

\* What the lock of two hubs says, while none of their locks has expired under
\* a handshake.
HeldIsRedis(p) ==
  \A s \in Servers : task[s].at = "held" /\ PairOf(s) = p => redis[p] = task[s].value
LinkIsFiled(p) ==
  \A i \in DOMAIN links : LinkOf(i) = p =>
    /\ links[i].to \in proxies[links[i].from]
    /\ links[i].sent # "register" => links[i].from \in proxies[links[i].to]
    /\ links[i].sent = "register" =>
         redis[p] # None /\ redis[p] = locks[links[i].from][p]
OneLink(p) == \A i, j \in DOMAIN links : LinkOf(i) = p /\ LinkOf(j) = p => i = j

OneHandshake(p) == HeldIsRedis(p) /\ LinkIsFiled(p) /\ OneLink(p)
InOrder == \A p \in Pairs : p \subseteq Hubs /\ p \notin late => OneHandshake(p)

\* Steps that are not about a pair leave its handshake alone.
LEMMA Undisturbed ==
  ASSUME TypeOK, Owned, NEW p \in Pairs, OneHandshake(p),
         redis'[p] = redis[p],
         \A s \in Servers : task'[s].at = "held" /\ PairOf(s)' = p =>
                              task'[s] = task[s],
         DOMAIN links' = DOMAIN links,
         \A i \in DOMAIN links : LinkOf(i)' = LinkOf(i),
         \A i \in DOMAIN links : LinkOf(i) = p => links'[i] = links[i],
         \A s \in Servers : proxies[s] \subseteq proxies'[s],
         \A s \in Servers : locks'[s][p] = locks[s][p]
  PROVE  OneHandshake(p)'
<1>1. HeldIsRedis(p)' BY DEF OneHandshake, HeldIsRedis, PairOf
<1>2. \A i \in DOMAIN links : links[i].from \in Servers /\ links[i].to \in Servers
  BY LinkIs
<1>3. LinkIsFiled(p)' BY <1>2 DEF OneHandshake, LinkIsFiled
<1>4. OneLink(p)' BY DEF OneHandshake, OneLink
<1> QED BY <1>1, <1>3, <1>4 DEF OneHandshake

LEMMA InitInOrder == Init => InOrder
<1> SUFFICES ASSUME Init PROVE InOrder OBVIOUS
<1>1. DOMAIN links = {} BY DEF Init
<1>2. \A s \in Servers : task[s].at = "idle" BY IdleIsTask DEF Init
<1> QED
  BY <1>1, <1>2 DEF InOrder, OneHandshake, HeldIsRedis, LinkIsFiled, OneLink

\* When a call of a pair holds the lock, no other server of the pair has it,
\* and no RegServer of the pair is on its way.
LEMMA HeldAlone ==
  ASSUME TypeOK, Owned, NEW s \in Servers, task[s].at = "held",
         PairOf(s) \subseteq Hubs, OneHandshake(PairOf(s))
  PROVE  /\ \A u \in Servers : task[u].at = "held" /\ PairOf(u) = PairOf(s) => u = s
         /\ \A i \in DOMAIN links : LinkOf(i) = PairOf(s) => links[i].sent # "register"
<1>1. redis[PairOf(s)] = task[s].value /\ task[s].value \in Tokens
      /\ task[s].value.owner = s /\ PairOf(s) \in Pairs
  BY CallIs DEF OneHandshake, HeldIsRedis
<1>2. ASSUME NEW u \in Servers, task[u].at = "held", PairOf(u) = PairOf(s) PROVE u = s
  <2>1. redis[PairOf(s)] = task[u].value BY <1>2 DEF OneHandshake, HeldIsRedis
  <2> QED BY <1>1, <1>2, <2>1, CallIs
<1>3. ASSUME NEW i \in DOMAIN links, LinkOf(i) = PairOf(s), links[i].sent = "register"
      PROVE  FALSE
  <2>1. redis[PairOf(s)] = locks[links[i].from][PairOf(s)]
    BY <1>3 DEF OneHandshake, LinkIsFiled
  <2>2. links[i].from \in Servers BY LinkIs
  <2>3. links[i].from = s BY <1>1, <2>1, <2>2 DEF Owned, Locked
  <2>4. locks[s][PairOf(s)] = task[s].value BY <1>1, <2>1, <2>3
  <2> QED BY <1>1, <2>4 DEF Owned, Locked
<1> QED BY <1>2, <1>3

LEMMA EnterInOrder ==
  ASSUME TypeOK, Owned, NEW s \in Servers, NEW t \in Servers,
         NEW call \in {"direct", "service"}, Enter(s, t, call),
         NEW p \in Pairs, OneHandshake(p)
  PROVE  OneHandshake(p)'
<1>1. UNCHANGED <<redis, locks, proxies, links>> BY DEF Enter
<1>2. task'[s].at # "held" /\ \A u \in Servers \ {s} : task'[u] = task[u]
  BY Typed DEF Enter
<1> QED BY <1>1, <1>2, Undisturbed DEF LinkOf

LEMMA AcquireInOrder ==
  ASSUME TypeOK, Owned, NEW s \in Servers, Acquire(s),
         NEW p \in Pairs, p \subseteq Hubs, OneHandshake(p)
  PROVE  OneHandshake(p)'
<1>1. UNCHANGED <<locks, proxies, links>> BY DEF Acquire
<1>2. /\ \A u \in Servers \ {s} : task'[u] = task[u]
      /\ PairOf(s)' = PairOf(s) /\ task'[s].value = task[s].value
      /\ redis[PairOf(s)] = None
      /\ redis' = [redis EXCEPT ![PairOf(s)] = task[s].value]
  BY AcquireOwned DEF PairOf
<1>3. CASE p # PairOf(s)
  <2>1. redis'[p] = redis[p] BY <1>2, <1>3, Typed
  <2> QED BY <1>1, <1>2, <1>3, <2>1, Undisturbed DEF LinkOf
<1>4. CASE p = PairOf(s)
  <2>1. redis'[p] = task[s].value BY <1>2, <1>4, Typed
  <2>2. ASSUME NEW u \in Servers, task[u].at = "held", PairOf(u) = p PROVE FALSE
    <3>1. task[u].value = None BY <1>2, <1>4, <2>2 DEF OneHandshake, HeldIsRedis
    <3> QED BY <1>4, <2>2, <3>1, CallIs, Names
  <2>3. HeldIsRedis(p)'
    <3> SUFFICES ASSUME NEW u \in Servers, task'[u].at = "held", PairOf(u)' = p
                 PROVE  redis'[p] = task'[u].value
      BY DEF HeldIsRedis
    <3> QED BY <1>2, <2>1, <2>2 DEF PairOf
  <2>4. \A i \in DOMAIN links : LinkOf(i) = p => links[i].sent # "register"
    BY <1>2, <1>4 DEF OneHandshake, LinkIsFiled
  <2>5. LinkIsFiled(p)' BY <1>1, <2>4 DEF OneHandshake, LinkIsFiled, LinkOf
  <2>6. OneLink(p)' BY <1>1 DEF OneHandshake, OneLink, LinkOf
  <2> QED BY <2>3, <2>5, <2>6 DEF OneHandshake
<1> QED BY <1>3, <1>4

LEMMA GiveUpInOrder ==
  ASSUME TypeOK, Owned, NEW s \in Servers, GiveUp(s),
         NEW p \in Pairs, p \subseteq Hubs, OneHandshake(p)
  PROVE  OneHandshake(p)'
<1>1. UNCHANGED <<redis, locks, proxies, links>> BY DEF GiveUp
<1>2. \A u \in Servers \ {s} : task'[u] = task[u] BY GiveUpOwned
<1>3. task'[s].at # "held" \/ PairOf(s)' # p
  <2>1. CASE s \in Hubs BY <2>1, GiveUpOwned
  <2>2. CASE s \notin Hubs
    <3>1. s \in {s, task'[s].peer} OBVIOUS
    <3> QED BY <2>2, <3>1 DEF PairOf
  <2> QED BY <2>1, <2>2
<1> QED BY <1>1, <1>2, <1>3, Undisturbed DEF LinkOf

LEMMA LookAgainInOrder ==
  ASSUME TypeOK, Owned, NEW s \in Servers, LookAgain(s),
         NEW p \in Pairs, OneHandshake(p)
  PROVE  OneHandshake(p)'
<1>1. UNCHANGED <<redis, locks, proxies, links>> BY DEF LookAgain
<1>2. task'[s].at # "held" /\ \A u \in Servers \ {s} : task'[u] = task[u]
  BY LookAgainOwned
<1> QED BY <1>1, <1>2, Undisturbed DEF LinkOf

LEMMA AlreadyThereInOrder ==
  ASSUME TypeOK, Owned, NEW s \in Servers, AlreadyThere(s),
         NEW p \in Pairs, p \subseteq Hubs, OneHandshake(p)
  PROVE  OneHandshake(p)'
<1>1. task[s].at = "held" /\ UNCHANGED <<locks, proxies, links>>
  BY DEF AlreadyThere, MayDial
<1>2. /\ \A q \in Pairs : redis'[q] =
           IF q = PairOf(s) /\ redis[q] = task[s].value THEN None ELSE redis[q]
      /\ task'[s].at = "idle" /\ \A u \in Servers \ {s} : task'[u] = task[u]
  BY AlreadyThereOwned
<1>3. CASE p # PairOf(s) BY <1>1, <1>2, <1>3, Undisturbed DEF LinkOf
<1>4. CASE p = PairOf(s)
  <2>1. /\ \A u \in Servers : task[u].at = "held" /\ PairOf(u) = p => u = s
        /\ \A i \in DOMAIN links : LinkOf(i) = p => links[i].sent # "register"
    BY <1>1, <1>4, HeldAlone
  <2>2. HeldIsRedis(p)' BY <1>2, <2>1 DEF HeldIsRedis, PairOf
  <2>3. LinkIsFiled(p)' BY <1>1, <2>1 DEF OneHandshake, LinkIsFiled, LinkOf
  <2>4. OneLink(p)' BY <1>1 DEF OneHandshake, OneLink, LinkOf
  <2> QED BY <2>2, <2>3, <2>4 DEF OneHandshake
<1> QED BY <1>3, <1>4

LEMMA DialInOrder ==
  ASSUME TypeOK, Owned, NEW s \in Servers, Dial(s),
         NEW p \in Pairs, p \subseteq Hubs, OneHandshake(p)
  PROVE  OneHandshake(p)'
<1> DEFINE t == task[s].peer
           m == [from |-> s, to |-> t, sent |-> "register"]
<1>1. /\ task[s].at = "held" /\ t \notin proxies[s] /\ FileLock(s)
      /\ task' = [task EXCEPT ![s] = Idle] /\ links' = Append(links, m)
      /\ proxies' = [proxies EXCEPT ![s] = @ \cup {t}]
      /\ UNCHANGED <<redis, adding, giving, calls, late>>
  BY DEF Dial, MayDial
<1>2. t \in Servers /\ t # s /\ PairOf(s) = {s, t} /\ PairOf(s) \in Pairs
  BY <1>1, CallIs
<1>3. /\ \A u \in Servers, q \in Pairs : locks'[u][q] =
           IF u = s /\ q = PairOf(s) THEN task[s].value ELSE locks[u][q]
      /\ task'[s].at = "idle" /\ \A u \in Servers \ {s} : task'[u] = task[u]
  BY <1>1, FiledOwned
<1>4. /\ \A u \in Servers : proxies[u] \subseteq proxies'[u]
      /\ t \in proxies'[s]
  BY <1>1, <1>2, Typed
<1>5. m \in Link /\ m.from = s /\ m.to = t /\ m.sent = "register"
  BY <1>2 DEF Link
<1> HIDE DEF m
<1>6. PICK n : /\ n \notin DOMAIN links /\ DOMAIN links' = DOMAIN links \cup {n}
               /\ links'[n] = m
  BY <1>1, <1>5, LinkAppended, Typed
<1>7. \A j \in DOMAIN links : links'[j] = links[j] /\ LinkOf(j)' = LinkOf(j)
  BY <1>1, <1>5, LinkAppended, Typed
<1>8. LinkOf(n)' = PairOf(s) BY <1>2, <1>5, <1>6 DEF LinkOf
<1>9. \A i \in DOMAIN links : links[i].from \in Servers /\ links[i].to \in Servers
  BY LinkIs
<1>10. HeldIsRedis(p)' BY <1>1, <1>3 DEF OneHandshake, HeldIsRedis, PairOf
<1> HIDE DEF t
<1>11. CASE p # PairOf(s)
  <2>1. LinkIsFiled(p)'
    BY <1>1, <1>3, <1>4, <1>6, <1>7, <1>8, <1>9, <1>11 DEF OneHandshake, LinkIsFiled
  <2>2. OneLink(p)' BY <1>6, <1>7, <1>8, <1>11 DEF OneHandshake, OneLink
  <2> QED BY <1>10, <2>1, <2>2 DEF OneHandshake
<1>12. CASE p = PairOf(s)
  <2>1. ASSUME NEW i \in DOMAIN links, LinkOf(i) = p PROVE FALSE
    <3>1. links[i].sent # "register" BY <1>1, <1>12, <2>1, HeldAlone
    <3>2. /\ links[i].to \in proxies[links[i].from]
          /\ links[i].from \in proxies[links[i].to]
      BY <2>1, <3>1 DEF OneHandshake, LinkIsFiled
    <3>3. {links[i].from, links[i].to} = {s, t} BY <1>2, <1>12, <2>1 DEF LinkOf
    <3>4. \/ links[i].from = s /\ links[i].to = t
          \/ links[i].from = t /\ links[i].to = s
      BY <3>3, SamePair
    <3> QED BY <1>1, <3>2, <3>4
  <2>2. redis[p] = task[s].value /\ task[s].value \in Tokens
    BY <1>1, <1>12, CallIs DEF OneHandshake, HeldIsRedis
  <2>3. redis'[p] = locks'[s][p] /\ redis'[p] # None
    BY <1>1, <1>3, <1>12, <2>2, Names
  <2>4. LinkIsFiled(p)'
    BY <1>4, <1>5, <1>6, <1>7, <2>1, <2>3 DEF LinkIsFiled
  <2>5. OneLink(p)' BY <1>6, <1>7, <2>1 DEF OneLink
  <2> QED BY <1>10, <2>4, <2>5 DEF OneHandshake
<1> QED BY <1>11, <1>12

LEMMA DialFailsInOrder ==
  ASSUME TypeOK, Owned, NEW s \in Servers, DialFails(s),
         NEW p \in Pairs, p \subseteq Hubs, OneHandshake(p)
  PROVE  OneHandshake(p)'
<1>1. /\ task[s].at = "held" /\ FileLock(s) /\ task' = [task EXCEPT ![s] = Idle]
      /\ UNCHANGED <<redis, proxies, links, adding, giving, calls, late>>
  BY DEF DialFails, MayDial
<1>2. /\ \A u \in Servers, q \in Pairs : locks'[u][q] =
           IF u = s /\ q = PairOf(s) THEN task[s].value ELSE locks[u][q]
      /\ task'[s].at = "idle" /\ \A u \in Servers \ {s} : task'[u] = task[u]
  BY <1>1, FiledOwned
<1>3. CASE p # PairOf(s) BY <1>1, <1>2, <1>3, Undisturbed DEF LinkOf
<1>4. CASE p = PairOf(s)
  <2>1. \A i \in DOMAIN links : LinkOf(i) = p => links[i].sent # "register"
    BY <1>1, <1>4, HeldAlone
  <2>2. HeldIsRedis(p)' BY <1>1, <1>2 DEF OneHandshake, HeldIsRedis, PairOf
  <2>3. LinkIsFiled(p)' BY <1>1, <2>1 DEF OneHandshake, LinkIsFiled, LinkOf
  <2>4. OneLink(p)' BY <1>1 DEF OneHandshake, OneLink, LinkOf
  <2> QED BY <2>2, <2>3, <2>4 DEF OneHandshake
<1> QED BY <1>3, <1>4

LEMMA RegisterInOrder ==
  ASSUME TypeOK, Owned, NEW i \in DOMAIN links, Register(i),
         NEW p \in Pairs, p \subseteq Hubs, OneHandshake(p)
  PROVE  OneHandshake(p)'
<1>1. UNCHANGED <<redis, locks, task>> BY DEF Register
<1>2. /\ links' = [links EXCEPT ![i].sent = "answer"] /\ links \in Seq(Link)
      /\ \A u \in Servers : proxies[u] \subseteq proxies'[u]
      /\ links[i].from \in Hubs => links[i].from \in proxies'[links[i].to]
  BY RegisterOwned, LinkIs
<1>3. /\ DOMAIN links' = DOMAIN links
      /\ \A j \in DOMAIN links :
           /\ links'[j].from = links[j].from /\ links'[j].to = links[j].to
           /\ links'[j].sent = IF j = i THEN "answer" ELSE links[j].sent
           /\ LinkOf(j)' = LinkOf(j)
  BY <1>2, SentChanges
<1>4. HeldIsRedis(p)' BY <1>1 DEF OneHandshake, HeldIsRedis, PairOf
<1>5. LinkOf(i) = p => links[i].from \in Hubs BY DEF LinkOf
<1>6. \A j \in DOMAIN links : links[j].from \in Servers /\ links[j].to \in Servers
  BY LinkIs
<1>7. LinkIsFiled(p)'
  BY <1>1, <1>2, <1>3, <1>5, <1>6 DEF OneHandshake, LinkIsFiled
<1>8. OneLink(p)' BY <1>3 DEF OneHandshake, OneLink
<1> QED BY <1>4, <1>7, <1>8 DEF OneHandshake

LEMMA AddGateInOrder ==
  ASSUME TypeOK, Owned, NEW h \in Hubs, AddGate(h), NEW p \in Pairs, OneHandshake(p)
  PROVE  OneHandshake(p)'
<1>1. UNCHANGED <<redis, locks, links, task>> BY DEF AddGate
<1> QED BY <1>1, AddGateOwned, Undisturbed DEF LinkOf

LEMMA CallbackInOrder ==
  ASSUME TypeOK, Owned, NEW i \in DOMAIN links, Callback(i),
         NEW p \in Pairs, p \subseteq Hubs, OneHandshake(p)
  PROVE  OneHandshake(p)'
<1>1. UNCHANGED <<redis, proxies, task>> BY DEF Callback
<1>2. /\ links[i].sent = "answer" /\ links \in Seq(Link)
      /\ links' = [links EXCEPT ![i].sent = "nothing"]
      /\ \A u \in Servers, q \in Pairs : locks'[u][q] =
           IF u = links[i].from /\ q = LinkOf(i) THEN None ELSE locks[u][q]
  BY CallbackOwned, LinkIs
<1>3. /\ DOMAIN links' = DOMAIN links
      /\ \A j \in DOMAIN links :
           /\ links'[j].from = links[j].from /\ links'[j].to = links[j].to
           /\ links'[j].sent = IF j = i THEN "nothing" ELSE links[j].sent
           /\ LinkOf(j)' = LinkOf(j)
  BY <1>2, SentChanges
<1>4. \A j \in DOMAIN links : links[j].from \in Servers /\ links[j].to \in Servers
  BY LinkIs
<1>5. HeldIsRedis(p)' BY <1>1 DEF OneHandshake, HeldIsRedis, PairOf
<1>6. LinkIsFiled(p)'
  BY <1>1, <1>2, <1>3, <1>4 DEF OneHandshake, LinkIsFiled, OneLink
<1>7. OneLink(p)' BY <1>3 DEF OneHandshake, OneLink
<1> QED BY <1>5, <1>6, <1>7 DEF OneHandshake

LEMMA GiveBackInOrder ==
  ASSUME TypeOK, Owned, NEW s \in Servers, GiveBack(s),
         NEW p \in Pairs, p \subseteq Hubs, OneHandshake(p)
  PROVE  OneHandshake(p)'
<1>1. Giving(s) /\ UNCHANGED <<locks, proxies, links, task>> BY DEF GiveBack
<1>2. CASE redis'[p] = redis[p] BY <1>1, <1>2, Undisturbed DEF LinkOf
<1>3. CASE redis'[p] # redis[p]
  <2>1. p = {s, giving[s].peer} /\ redis[p] = giving[s].value BY <1>3, GiveBackOwned
  <2>2. giving[s].value \in Tokens
    <3>1. redis[p] \in Tokens \cup {None} /\ redis'[p] \in {None, redis[p]}
      BY GiveBackOwned, Typed
    <3> QED BY <1>3, <2>1, <3>1
  <2>3. /\ giving[s].value.owner = s /\ giving[s].value # locks[s][p]
        /\ task[s].at # "idle" => giving[s].value # task[s].value
    BY <1>1, <2>1, <2>2 DEF Owned, Given
  <2>4. ASSUME NEW u \in Servers, task[u].at = "held", PairOf(u) = p PROVE FALSE
    <3>1. redis[p] = task[u].value BY <2>4 DEF OneHandshake, HeldIsRedis
    <3>2. u = s BY <2>1, <2>2, <2>3, <2>4, <3>1, CallIs
    <3> QED BY <2>1, <2>3, <2>4, <3>1, <3>2
  <2>5. ASSUME NEW i \in DOMAIN links, LinkOf(i) = p, links[i].sent = "register"
        PROVE  FALSE
    <3>1. redis[p] = locks[links[i].from][p] BY <2>5 DEF OneHandshake, LinkIsFiled
    <3>2. links[i].from = s BY <2>1, <2>2, <2>3, <3>1, LinkIs DEF Owned, Locked
    <3> QED BY <2>1, <2>3, <3>1, <3>2
  <2>6. HeldIsRedis(p)' BY <1>1, <2>4 DEF HeldIsRedis, PairOf
  <2>7. LinkIsFiled(p)' BY <1>1, <2>5 DEF OneHandshake, LinkIsFiled, LinkOf
  <2>8. OneLink(p)' BY <1>1 DEF OneHandshake, OneLink, LinkOf
  <2> QED BY <2>6, <2>7, <2>8 DEF OneHandshake
<1> QED BY <1>2, <1>3

LEMMA ExpireInOrder ==
  ASSUME TypeOK, Owned, NEW q \in Pairs, Expire(q),
         NEW p \in Pairs, p \subseteq Hubs, p \notin late', OneHandshake(p)
  PROVE  OneHandshake(p)'
<1>1. UNCHANGED <<locks, proxies, links, task>> BY DEF Expire
<1>2. CASE p # q
  <2>1. redis'[p] = redis[p] BY <1>2, Typed DEF Expire
  <2> QED BY <1>1, <2>1, Undisturbed DEF LinkOf
<1>3. CASE p = q
  <2>1. ~UnderWay(p, redis[p]) /\ redis[p] \in Tokens BY <1>3, Typed DEF Expire
  <2>2. ASSUME NEW s \in Servers, task[s].at = "held", PairOf(s) = p PROVE FALSE
    <3>1. redis[p] = task[s].value BY <2>2 DEF OneHandshake, HeldIsRedis
    <3>2. redis[p].owner = s BY <2>1, <2>2, <3>1, CallIs
    <3> QED BY <2>1, <2>2, <3>1, <3>2 DEF UnderWay
  <2>3. ASSUME NEW i \in DOMAIN links, LinkOf(i) = p, links[i].sent = "register"
        PROVE  FALSE
    <3>1. redis[p] = locks[links[i].from][p]
      BY <2>3 DEF OneHandshake, LinkIsFiled
    <3>2. redis[p].owner = links[i].from
      BY <2>1, <3>1, LinkIs DEF Owned, Locked
    <3> QED BY <2>1, <2>3, <3>1, <3>2 DEF UnderWay, LinkOf
  <2>4. HeldIsRedis(p)' BY <1>1, <2>2 DEF HeldIsRedis, PairOf
  <2>5. LinkIsFiled(p)' BY <1>1, <2>3 DEF OneHandshake, LinkIsFiled, LinkOf
  <2>6. OneLink(p)' BY <1>1 DEF OneHandshake, OneLink, LinkOf
  <2> QED BY <2>4, <2>5, <2>6 DEF OneHandshake
<1> QED BY <1>2, <1>3

LEMMA InOrderStep == TypeOK /\ Owned /\ InOrder /\ [Next]_vars => InOrder'
<1> SUFFICES ASSUME TypeOK, Owned, InOrder, [Next]_vars,
                    NEW p \in Pairs, p \subseteq Hubs, p \notin late'
             PROVE  OneHandshake(p)'
  BY DEF InOrder
<1>1. late \subseteq late'
  BY DEF Next, Enter, TaskStep, Acquire, GiveUp, LookAgain, AlreadyThere, Dial,
         DialFails, Register, AddGate, Callback, GiveBack, Expire, vars
<1>2. OneHandshake(p) BY <1>1 DEF InOrder
<1>3. ASSUME NEW s \in Servers, NEW t \in Servers, NEW call \in {"direct", "service"},
             Enter(s, t, call)
      PROVE  OneHandshake(p)'
  BY <1>2, <1>3, EnterInOrder
<1>4. ASSUME NEW s \in Servers, TaskStep(s) PROVE OneHandshake(p)'
  BY <1>2, <1>4, AcquireInOrder, GiveUpInOrder, LookAgainInOrder,
     AlreadyThereInOrder, DialInOrder, DialFailsInOrder DEF TaskStep
<1>5. ASSUME NEW i \in DOMAIN links, Register(i) \/ Callback(i)
      PROVE  OneHandshake(p)'
  BY <1>2, <1>5, RegisterInOrder, CallbackInOrder
<1>6. ASSUME NEW h \in Hubs, AddGate(h) PROVE OneHandshake(p)'
  BY <1>2, <1>6, AddGateInOrder
<1>7. ASSUME NEW q \in Pairs, Expire(q) PROVE OneHandshake(p)'
  BY <1>2, <1>7, ExpireInOrder
<1>8. ASSUME NEW s \in Servers, GiveBack(s) PROVE OneHandshake(p)'
  BY <1>2, <1>8, GiveBackInOrder
<1>9. ASSUME UNCHANGED vars PROVE OneHandshake(p)'
  <2>1. UNCHANGED <<redis, locks, proxies, links, task>> BY <1>9 DEF vars
  <2> QED BY <1>2, <2>1, Undisturbed DEF LinkOf
<1> QED BY <1>3, <1>4, <1>5, <1>6, <1>7, <1>8, <1>9 DEF Next

LEMMA InOrderIsOneLink == InOrder => OneLinkOfTwoHubs
<1> SUFFICES ASSUME InOrder, NEW p \in Pairs, p \subseteq Hubs, p \notin late
             PROVE  Cardinality({i \in DOMAIN links : LinkOf(i) = p}) <= 1
  BY DEF OneLinkOfTwoHubs, LinkOf
<1> DEFINE S == {i \in DOMAIN links : LinkOf(i) = p}
<1>1. \A i, j \in S : i = j BY DEF InOrder, OneHandshake, OneLink
<1>2. CASE S = {} BY <1>2, FS_EmptySet
<1>3. CASE S # {}
  <2>1. PICK i : S = {i} BY <1>1, <1>3
  <2> QED BY <2>1, FS_Singleton
<1> QED BY <1>2, <1>3

\* Two hubs that look each other up at the same moment get one connection, as
\* long as Redis forgets no lock of theirs while its handshake is under way:
\* the lock of the pair, and the second look at the table, see to that.
THEOREM OneConnection == Spec => []OneLinkOfTwoHubs
<1>1. Spec => [](TypeOK /\ Owned) BY InitOwned, OwnedStep, PTL DEF Spec
<1>2. Spec => []InOrder BY <1>1, InitInOrder, InOrderStep, PTL DEF Spec
<1> QED BY <1>2, InOrderIsOneLink, PTL

-----------------------------------------------------------------------------
(***************************************************************************)
(* The connection tables of a hub, for any number of peers and links. The  *)
(* invariant Inv says what a dialed link remembers of its peer             *)
(* (DialedKnows), that no table holds a link that was never used (InUse),  *)
(* and that a link which leads to a hub knows its name (HubLinkIsNamed).   *)
(* Closes adds what the close callback makes of that: whom the ConnProxys  *)
(* can name (ProxiesKnow), and what a callback is about to remove          *)
(* (WillForget).                                                           *)
(***************************************************************************)

\* A link in wrs was dialed to that peer, its close callback has the peer's
\* name, and is going to remove it.
DialedKnows ==
  \A p \in Servers : dialed[p] # NoLink =>
    /\ remote[dialed[p]] = p
    /\ dialName[dialed[p]] = p
    /\ state[dialed[p]] = "closing" => doomed[dialed[p]] = p

InUse ==
  \A p \in Servers :
    /\ toPeer[p] # NoLink => state[toPeer[p]] # "unused"
    /\ dialed[p] # NoLink => state[dialed[p]] # "unused"

\* The two halves of NoOldWriter.
WriterHasProxy == \A p \in Servers : dialed[p] # NoLink => toPeer[p] # NoLink

ClosedForgotten ==
  \A l \in Links : state[l] = "gone" => \A p \in Servers : dialed[p] # l

HubLinkIsNamed ==
  \A p \in Hubs : toPeer[p] # NoLink =>
    (dialName[toPeer[p]] = p \/ hubOf[toPeer[p]] = p)

Inv == /\ ConnsTypeOK /\ InUse /\ DialedKnows
       /\ SendsToPeer /\ WriterHasProxy /\ ClosedForgotten /\ HubLinkIsNamed

\* A ConnProxy names whom its link leads to. Only that of a hub's link can point
\* to the proxy of another peer, a gate.
ProxiesKnow ==
  \A l \in Links :
    /\ dialName[l] # NoPeer => dialName[l] = remote[l]
    /\ hubOf[l] # NoPeer => hubOf[l] = remote[l]
    /\ gateOf[l] # NoPeer /\ remote[l] \in Gates => gateOf[l] = remote[l]
    /\ state[l] = "unused" => remote[l] = NoPeer /\ gateOf[l] = NoPeer

\* What the close callback of l removes, when p's proxy sends over l.
Forgets(l, p) == \/ doomed[l] = p
                 \/ p \in Hubs /\ doomed[l] \in Gates
                 \/ p \in Gates /\ doomed[l] = NoPeer

WillForget ==
  \A p \in Servers, l \in Links :
    toPeer[p] = l /\ state[l] = "closing" => l \in filedLate \/ Forgets(l, p)

Closes == ProxiesKnow /\ WillForget /\ ClosedIsForgotten

-----------------------------------------------------------------------------
LEMMA InitInv ==
  ASSUME ConnsInit PROVE Inv
<1> USE KindsAssumption, PeersAssumption DEF ConnsInit, Servers
<1>1. ConnsTypeOK
  BY DEF ConnsTypeOK, States
<1>2. InUse /\ DialedKnows
  BY DEF InUse, DialedKnows
<1>3. SendsToPeer /\ WriterHasProxy /\ HubLinkIsNamed
  BY DEF SendsToPeer, WriterHasProxy, HubLinkIsNamed
<1>4. ClosedForgotten
  BY DEF ClosedForgotten
<1> QED BY <1>1, <1>2, <1>3, <1>4 DEF Inv

\* A new link is in no table.
LEMMA FreshLink ==
  ASSUME Inv, NEW l \in Links, state[l] = "unused", NEW p \in Servers
  PROVE  toPeer[p] # l /\ dialed[p] # l
BY KindsAssumption, PeersAssumption DEF Inv, InUse

LEMMA AcceptInv ==
  ASSUME Inv, NEW l \in Links, NEW p \in Servers, Accept(l, p)
  PROVE  Inv'
<1> USE KindsAssumption, PeersAssumption DEF Inv, Accept, tables
<1>0. \A x \in Servers : toPeer[x] # l /\ dialed[x] # l
  BY FreshLink
<1>1. ConnsTypeOK'
  BY DEF ConnsTypeOK, States
<1>2. InUse'
  BY DEF InUse, ConnsTypeOK
<1>3. DialedKnows'
  BY <1>0 DEF DialedKnows, ConnsTypeOK
<1>4. SendsToPeer'
  BY <1>0 DEF SendsToPeer, ConnsTypeOK
<1>5. WriterHasProxy' /\ HubLinkIsNamed'
  BY DEF WriterHasProxy, HubLinkIsNamed
<1>6. ClosedForgotten'
  BY DEF ClosedForgotten, ConnsTypeOK
<1> QED BY <1>1, <1>2, <1>3, <1>4, <1>5, <1>6 DEF Inv

\* The dial itself: a peer that is not in the table has no writer either.
LEMMA DialingIsNew ==
  ASSUME Inv, NEW l \in Links, NEW p \in Servers, Dialing(l, p)
  PROVE  /\ state[l] = "unused" /\ toPeer[p] = NoLink /\ dialed[p] = NoLink
         /\ toPeer' = [toPeer EXCEPT ![p] = l]
         /\ dialed' = [dialed EXCEPT ![p] = l]
         /\ dialName' = [dialName EXCEPT ![l] = p]
         /\ remote' = [remote EXCEPT ![l] = p]
         /\ state' = [state EXCEPT ![l] = "open"]
         /\ doomed' = doomed /\ hung' = hung /\ filedLate' = filedLate
BY DEF Inv, WriterHasProxy, Dialing

\* A dial keeps the invariant whatever ConnProxys it points to the new proxy,
\* as long as no hub's link is told another name.
LEMMA DialingInv ==
  ASSUME Inv, NEW l \in Links, NEW p \in Servers, Dialing(l, p),
         hubOf' \in [Links -> Hubs \cup {NoPeer}],
         gateOf' \in [Links -> Gates \cup {NoPeer}],
         \A k \in Links : k # l => hubOf'[k] = hubOf[k]
  PROVE  Inv'
<1> USE KindsAssumption, PeersAssumption DEF Inv
<1>0. \A x \in Servers : toPeer[x] # l /\ dialed[x] # l
  BY FreshLink DEF Dialing
<1>1. ConnsTypeOK'
  <2>1. /\ state' \in [Links -> States] /\ doomed' = doomed /\ hung' = hung
        /\ filedLate' = filedLate
        /\ remote' \in [Links -> Servers \cup {NoPeer}]
        /\ dialName' \in [Links -> Servers \cup {NoPeer}]
    BY DialingIsNew DEF ConnsTypeOK, States
  <2>2. /\ toPeer' \in [Servers -> Links \cup {NoLink}]
        /\ dialed' \in [Servers -> Links \cup {NoLink}]
    BY DialingIsNew DEF ConnsTypeOK
  <2> QED BY <2>1, <2>2 DEF ConnsTypeOK
<1>2. InUse'
  BY DialingIsNew DEF InUse, ConnsTypeOK
<1>3. DialedKnows'
  BY <1>0, DialingIsNew DEF DialedKnows, ConnsTypeOK
<1>4. SendsToPeer'
  BY <1>0, DialingIsNew DEF SendsToPeer, ConnsTypeOK
<1>5. WriterHasProxy'
  BY DialingIsNew DEF WriterHasProxy, ConnsTypeOK
<1>6. HubLinkIsNamed'
  BY <1>0, DialingIsNew DEF HubLinkIsNamed, ConnsTypeOK, Servers
<1>7. ClosedForgotten'
  BY DialingIsNew DEF ClosedForgotten, ConnsTypeOK
<1> QED BY <1>1, <1>2, <1>3, <1>4, <1>5, <1>6, <1>7 DEF Inv

LEMMA EnterHubInv ==
  ASSUME Inv, NEW l \in Links, NEW h \in Hubs, EnterHub(l, h)
  PROVE  Inv'
<1>1. h \in Servers /\ Dialing(l, h)
  BY DEF EnterHub, Servers
<1>2. dialed'[h] = l
  BY <1>1, DialingIsNew DEF Inv, ConnsTypeOK
<1>3. /\ hubOf' \in [Links -> Hubs \cup {NoPeer}]
      /\ gateOf' \in [Links -> Gates \cup {NoPeer}]
      /\ \A k \in Links : k # l => hubOf'[k] = hubOf[k]
  BY <1>2 DEF Inv, ConnsTypeOK, EnterHub
<1> QED BY <1>1, <1>3, DialingInv

LEMMA EnterGateInv ==
  ASSUME Inv, NEW l \in Links, NEW g \in Gates, EnterGate(l, g)
  PROVE  Inv'
<1>1. g \in Servers /\ Dialing(l, g)
  BY DEF EnterGate, Servers
<1>2. dialed'[g] = l
  BY <1>1, DialingIsNew DEF Inv, ConnsTypeOK
<1>3. /\ hubOf' \in [Links -> Hubs \cup {NoPeer}]
      /\ gateOf' \in [Links -> Gates \cup {NoPeer}]
      /\ \A k \in Links : k # l => hubOf'[k] = hubOf[k]
  BY <1>2 DEF Inv, ConnsTypeOK, EnterGate
<1> QED BY <1>1, <1>3, DialingInv

LEMMA ForwardRequestInv ==
  ASSUME Inv, NEW l \in Links, NEW k \in Links, NEW g \in Gates,
         ForwardRequest(l, k, g)
  PROVE  Inv'
<1>1. g \in Servers /\ Dialing(k, g)
  BY DEF ForwardRequest, Servers
<1>2. dialed'[g] = k
  BY <1>1, DialingIsNew DEF Inv, ConnsTypeOK
<1>3. /\ hubOf' \in [Links -> Hubs \cup {NoPeer}]
      /\ gateOf' \in [Links -> Gates \cup {NoPeer}]
      /\ \A x \in Links : x # k => hubOf'[x] = hubOf[x]
  BY <1>2 DEF Inv, ConnsTypeOK, ForwardRequest
<1> QED BY <1>1, <1>3, DialingInv

-----------------------------------------------------------------------------
\* What a registration or a login changes: the table leads to the peer by the
\* link its message came by.
LEMMA FiledInv ==
  ASSUME Inv, NEW l \in Links, HasMessage(l), remote[l] \in Servers,
         File(l), UNCHANGED <<dialed, dialName, remote, state, doomed>>
  PROVE  (InUse /\ DialedKnows /\ SendsToPeer /\ WriterHasProxy /\ ClosedForgotten)'
<1> USE KindsAssumption, PeersAssumption DEF Inv, HasMessage, File
<1>1. InUse'
  BY DEF InUse, ConnsTypeOK
<1>2. DialedKnows'
  BY DEF DialedKnows
<1>3. SendsToPeer'
  BY DEF SendsToPeer, ConnsTypeOK
<1>4. WriterHasProxy'
  BY DEF WriterHasProxy, ConnsTypeOK
<1>5. ClosedForgotten'
  BY DEF ClosedForgotten
<1> QED BY <1>1, <1>2, <1>3, <1>4, <1>5

LEMMA RegHubInv ==
  ASSUME Inv, NEW l \in Links, RegHub(l)
  PROVE  Inv'
<1> USE KindsAssumption, PeersAssumption DEF Inv, RegHub, File
<1>1. remote[l] \in Servers
  BY DEF Servers
<1>2. (InUse /\ DialedKnows /\ SendsToPeer /\ WriterHasProxy /\ ClosedForgotten)'
  BY <1>1, FiledInv
<1>3. NameDialed(hubOf, remote[l]) \in [Links -> Hubs \cup {NoPeer}]
  BY DEF ConnsTypeOK, NameDialed
<1>4. ConnsTypeOK'
  BY <1>1, <1>3 DEF ConnsTypeOK
<1>5. ASSUME NEW p \in Hubs, toPeer'[p] # NoLink
      PROVE  (dialName[toPeer[p]] = p \/ hubOf[toPeer[p]] = p)'
  <2>1. CASE toPeer'[p] = l
    <3>1. p = remote[l]
      BY <2>1, <1>2, <1>5 DEF SendsToPeer, Servers
    <3> QED BY <2>1, <3>1, <1>3
  <2>2. CASE toPeer'[p] # l
    <3>1. p # remote[l] /\ toPeer'[p] = toPeer[p] /\ toPeer[p] \in Links
      BY <2>2, <1>1, <1>5 DEF ConnsTypeOK, Servers
    <3>2. remote[toPeer[p]] = p
      BY <3>1 DEF SendsToPeer, Servers
    <3>3. dialed[remote[l]] # toPeer[p]
      BY <3>1, <3>2, <1>1 DEF DialedKnows
    <3>4. hubOf'[toPeer[p]] = hubOf[toPeer[p]]
      BY <2>2, <3>1, <3>3, <1>3 DEF NameDialed
    <3> QED BY <1>5, <3>1, <3>4 DEF HubLinkIsNamed
  <2> QED BY <2>1, <2>2
<1> QED BY <1>2, <1>4, <1>5 DEF HubLinkIsNamed

\* The three ways a gate is filed leave the names of hub links alone.
LEMMA FiledGateInv ==
  ASSUME Inv, NEW l \in Links, HasMessage(l), remote[l] \in Gates,
         File(l),
         gateOf' \in [Links -> Gates \cup {NoPeer}], hung' \in BOOLEAN,
         UNCHANGED <<dialed, dialName, hubOf, remote, state, doomed>>
  PROVE  Inv'
<1> USE KindsAssumption, PeersAssumption DEF Inv, File
<1>1. remote[l] \in Servers
  BY DEF Servers
<1>2. (InUse /\ DialedKnows /\ SendsToPeer /\ WriterHasProxy /\ ClosedForgotten)'
  BY <1>1, FiledInv
<1>3. ConnsTypeOK'
  BY <1>1 DEF ConnsTypeOK
<1>4. HubLinkIsNamed'
  BY DEF HubLinkIsNamed, ConnsTypeOK, Servers
<1> QED BY <1>2, <1>3, <1>4

LEMMA RegGateInv ==
  ASSUME Inv, NEW l \in Links, RegGate(l)
  PROVE  Inv'
<1>1. gateOf' \in [Links -> Gates \cup {NoPeer}] /\ hung' \in BOOLEAN
  BY DEF Inv, ConnsTypeOK, RegGate, NameDialed
<1> QED BY <1>1, FiledGateInv DEF RegGate

LEMMA AdoptGateInv ==
  ASSUME Inv, NEW l \in Links, HasMessage(l), remote[l] \in Gates, AdoptGate(l)
  PROVE  Inv'
<1>1. NameDialed(gateOf, remote[l]) \in [Links -> Gates \cup {NoPeer}]
  BY DEF Inv, ConnsTypeOK, NameDialed
<1>2. gateOf' \in [Links -> Gates \cup {NoPeer}]
  BY <1>1 DEF Inv, ConnsTypeOK, AdoptGate
<1>3. hung' \in BOOLEAN
  BY Zenon DEF Inv, ConnsTypeOK, AdoptGate
<1> QED BY <1>2, <1>3, FiledGateInv DEF AdoptGate

-----------------------------------------------------------------------------
LEMMA DieInv ==
  ASSUME Inv, NEW l \in Links, Die(l)
  PROVE  Inv'
<1> USE KindsAssumption, PeersAssumption DEF Inv, Die, tables
<1>1. ConnsTypeOK'
  BY DEF ConnsTypeOK, States
<1>2. InUse' /\ DialedKnows'
  BY DEF InUse, DialedKnows, ConnsTypeOK
<1>3. SendsToPeer' /\ WriterHasProxy' /\ HubLinkIsNamed'
  BY DEF SendsToPeer, WriterHasProxy, HubLinkIsNamed
<1>4. ClosedForgotten'
  BY DEF ClosedForgotten, ConnsTypeOK
<1> QED BY <1>1, <1>2, <1>3, <1>4

LEMMA CloseNameInv ==
  ASSUME Inv, NEW l \in Links, CloseName(l)
  PROVE  Inv'
<1> USE KindsAssumption, PeersAssumption DEF Inv, CloseName, tables
<1>0. NameOnClose(l) \in Servers \cup {NoPeer}
  BY DEF NameOnClose, ConnsTypeOK, Servers
<1>1. ConnsTypeOK'
  BY <1>0 DEF ConnsTypeOK, States
<1>2. InUse'
  BY DEF InUse, ConnsTypeOK
<1>3. ASSUME NEW p \in Servers, dialed'[p] # NoLink
      PROVE  (/\ remote[dialed[p]] = p
              /\ dialName[dialed[p]] = p
              /\ state[dialed[p]] = "closing" => doomed[dialed[p]] = p)'
  <2>1. remote[dialed[p]] = p /\ dialName[dialed[p]] = p
    BY <1>3 DEF DialedKnows
  <2>2. CASE dialed[p] = l
    <3>1. dialName[l] = p /\ p # NoPeer
      BY <2>1, <2>2 DEF Servers
    <3>2. doomed'[l] = p /\ dialed' = dialed /\ remote' = remote /\ dialName' = dialName
      BY <3>1 DEF NameOnClose, ConnsTypeOK
    <3> QED BY <2>1, <2>2, <3>2
  <2>3. CASE dialed[p] # l
    BY <1>3, <2>3 DEF DialedKnows, ConnsTypeOK
  <2> QED BY <2>2, <2>3
<1>4. SendsToPeer' /\ WriterHasProxy' /\ HubLinkIsNamed'
  BY DEF SendsToPeer, WriterHasProxy, HubLinkIsNamed
<1>5. ClosedForgotten'
  BY DEF ClosedForgotten, ConnsTypeOK
<1> QED BY <1>1, <1>2, <1>3, <1>4, <1>5 DEF DialedKnows

LEMMA CloseRemoveInv ==
  ASSUME Inv, NEW l \in Links, CloseRemove(l)
  PROVE  Inv'
<1> USE KindsAssumption, PeersAssumption DEF Inv, CloseRemove
<1>0. /\ toPeer' \in [Servers -> Links \cup {NoLink}]
      /\ dialed' \in [Servers -> Links \cup {NoLink}]
      /\ \A p \in Servers :
           /\ toPeer'[p] = IF p = doomed[l] THEN NoLink ELSE toPeer[p]
           /\ dialed'[p] = IF p = doomed[l] THEN NoLink ELSE dialed[p]
  BY DEF Removed, ConnsTypeOK
<1>1. ConnsTypeOK'
  BY <1>0 DEF ConnsTypeOK, States
<1>2. InUse'
  BY <1>0 DEF InUse, ConnsTypeOK
<1>3. DialedKnows'
  BY <1>0 DEF DialedKnows, ConnsTypeOK
<1>4. SendsToPeer' /\ WriterHasProxy'
  BY <1>0 DEF SendsToPeer, WriterHasProxy
<1>5. HubLinkIsNamed'
  BY <1>0 DEF HubLinkIsNamed, Servers
<1>6. ASSUME NEW k \in Links, state'[k] = "gone", NEW p \in Servers, dialed'[p] = k
      PROVE  FALSE
  <2>1. dialed[p] = k /\ p # doomed[l]
    BY <1>0, <1>6
  <2>2. k # l
    BY <2>1, l \in Links DEF DialedKnows
  <2> QED BY <2>1, <2>2, <1>6 DEF ClosedForgotten, ConnsTypeOK
<1> QED BY <1>1, <1>2, <1>3, <1>4, <1>5, <1>6 DEF ClosedForgotten

LEMMA StutterInv == Inv /\ UNCHANGED connVars => Inv'
BY DEF connVars, Inv, ConnsTypeOK, InUse, DialedKnows, SendsToPeer, WriterHasProxy,
       ClosedForgotten, HubLinkIsNamed

LEMMA NextInv ==
  ASSUME Inv, [ConnsNext]_(connVars) PROVE Inv'
<1>1. ASSUME NEW l \in Links, NEW p \in Servers, Accept(l, p) PROVE Inv'
  BY <1>1, AcceptInv
<1>2. ASSUME NEW l \in Links, NEW h \in Hubs, EnterHub(l, h) PROVE Inv'
  BY <1>2, EnterHubInv
<1>3. ASSUME NEW l \in Links, NEW g \in Gates, EnterGate(l, g) PROVE Inv'
  BY <1>3, EnterGateInv
<1>4. ASSUME NEW l \in Links, RegHub(l) PROVE Inv'
  BY <1>4, RegHubInv
<1>5. ASSUME NEW l \in Links, RegGate(l) PROVE Inv'
  BY <1>5, RegGateInv
<1>6. ASSUME NEW l \in Links, ClientEnters(l) \/ ClientRequestService(l)
      PROVE  Inv'
  BY <1>6, AdoptGateInv DEF ClientEnters, ClientRequestService
<1>7. ASSUME NEW l \in Links,
             Die(l) \/ CloseName(l) \/ CloseRemove(l)
      PROVE  Inv'
  BY <1>7, DieInv, CloseNameInv, CloseRemoveInv
<1>8. ASSUME NEW l \in Links, NEW k \in Links, NEW g \in Gates,
             ForwardRequest(l, k, g)
      PROVE  Inv'
  BY <1>8, ForwardRequestInv
<1> QED BY <1>1, <1>2, <1>3, <1>4, <1>5, <1>6, <1>7, <1>8, StutterInv DEF ConnsNext

-----------------------------------------------------------------------------
(* What a close removes.                                                   *)

LEMMA InitCloses == ConnsInit => Closes
BY PeersAssumption
DEF ConnsInit, Closes, ProxiesKnow, WillForget, ClosedIsForgotten

LEMMA AcceptCloses ==
  ASSUME Inv, Closes, NEW l \in Links, NEW p \in Servers, Accept(l, p)
  PROVE  Closes'
<1>0. /\ state[l] = "unused" /\ UNCHANGED <<tables, doomed, hung, filedLate>>
      /\ \A k \in Links : /\ remote'[k] = IF k = l THEN p ELSE remote[k]
                          /\ state'[k] = IF k = l THEN "open" ELSE state[k]
  BY DEF Accept, Inv, ConnsTypeOK
<1>1. \A x \in Servers : toPeer[x] # l BY <1>0, FreshLink
<1>2. remote[l] = NoPeer /\ gateOf[l] = NoPeer BY <1>0 DEF Closes, ProxiesKnow
<1>3. ProxiesKnow' BY <1>0, <1>2 DEF Closes, ProxiesKnow, tables
<1>4. WillForget' BY <1>0, <1>1 DEF Closes, WillForget, Forgets, tables
<1>5. ClosedIsForgotten' BY <1>0, <1>1 DEF Closes, ClosedIsForgotten, tables
<1> QED BY <1>3, <1>4, <1>5 DEF Closes

\* A dial, and the request of a client that made a hub dial: it points a hub's
\* link to a gate.
LEMMA DialingCloses ==
  ASSUME Inv, Closes, NEW l \in Links, NEW p \in Servers, Dialing(l, p),
         \A k \in Links : hubOf'[k] = hubOf[k] \/ (k = l /\ hubOf'[k] = p),
         \A k \in Links : \/ gateOf'[k] = gateOf[k]
                          \/ k = l /\ gateOf'[k] = p
                          \/ k # l /\ remote[k] \in Hubs /\ state[k] # "unused"
  PROVE  Closes'
<1>0. /\ state[l] = "unused" /\ UNCHANGED <<doomed, filedLate>>
      /\ \A x \in Servers : toPeer'[x] = IF x = p THEN l ELSE toPeer[x]
      /\ \A k \in Links : /\ remote'[k] = IF k = l THEN p ELSE remote[k]
                          /\ dialName'[k] = IF k = l THEN p ELSE dialName[k]
                          /\ state'[k] = IF k = l THEN "open" ELSE state[k]
  BY DialingIsNew DEF Inv, ConnsTypeOK
<1>1. remote[l] = NoPeer /\ gateOf[l] = NoPeer BY <1>0 DEF Closes, ProxiesKnow
<1>2. ProxiesKnow'
  <2> SUFFICES ASSUME NEW k \in Links
               PROVE  /\ dialName'[k] # NoPeer => dialName'[k] = remote'[k]
                      /\ hubOf'[k] # NoPeer => hubOf'[k] = remote'[k]
                      /\ gateOf'[k] # NoPeer /\ remote'[k] \in Gates =>
                           gateOf'[k] = remote'[k]
                      /\ state'[k] = "unused" =>
                           remote'[k] = NoPeer /\ gateOf'[k] = NoPeer
    BY DEF ProxiesKnow
  <2>1. CASE k = l BY <1>0, <1>1, <2>1 DEF Closes, ProxiesKnow
  <2>2. CASE k # l BY <1>0, <2>2, KindsAssumption DEF Closes, ProxiesKnow, Servers
  <2> QED BY <2>1, <2>2
<1>3. WillForget' BY <1>0 DEF Closes, WillForget, Forgets
<1>4. ClosedIsForgotten' BY <1>0 DEF Closes, ClosedIsForgotten
<1> QED BY <1>2, <1>3, <1>4 DEF Closes

LEMMA EnterHubCloses ==
  ASSUME Inv, Closes, NEW l \in Links, NEW h \in Hubs, EnterHub(l, h)
  PROVE  Closes'
<1>1. h \in Servers /\ Dialing(l, h) BY DEF EnterHub, Servers
<1>2. dialed'[h] = l BY <1>1, DialingIsNew DEF Inv, ConnsTypeOK
<1>3. /\ \A k \in Links : hubOf'[k] = hubOf[k] \/ (k = l /\ hubOf'[k] = h)
      /\ gateOf' = gateOf
  BY <1>2 DEF Inv, ConnsTypeOK, EnterHub
<1> QED BY <1>1, <1>3, DialingCloses

LEMMA EnterGateCloses ==
  ASSUME Inv, Closes, NEW l \in Links, NEW g \in Gates, EnterGate(l, g)
  PROVE  Closes'
<1>1. g \in Servers /\ Dialing(l, g) BY DEF EnterGate, Servers
<1>2. dialed'[g] = l BY <1>1, DialingIsNew DEF Inv, ConnsTypeOK
<1>3. /\ \A k \in Links : gateOf'[k] = gateOf[k] \/ (k = l /\ gateOf'[k] = g)
      /\ hubOf' = hubOf
  BY <1>2 DEF Inv, ConnsTypeOK, EnterGate
<1> QED BY <1>1, <1>3, DialingCloses

LEMMA ForwardRequestCloses ==
  ASSUME Inv, Closes, NEW l \in Links, NEW k \in Links, NEW g \in Gates,
         ForwardRequest(l, k, g)
  PROVE  Closes'
<1>1. g \in Servers /\ Dialing(k, g) BY DEF ForwardRequest, Servers
<1>2. dialed'[g] = k BY <1>1, DialingIsNew DEF Inv, ConnsTypeOK
<1>3. state[l] # "unused" /\ hubOf[l] \in Hubs /\ k # l
  BY DEF ForwardRequest, HasMessage, Inv, ConnsTypeOK
<1>4. remote[l] \in Hubs
  BY <1>3, KindsAssumption, PeersAssumption DEF Closes, ProxiesKnow, Servers
<1>5. /\ \A x \in Links : \/ gateOf'[x] = gateOf[x]
                          \/ x = k /\ gateOf'[x] = g
                          \/ x = l
      /\ hubOf' = hubOf
  BY <1>2, <1>3 DEF Inv, ConnsTypeOK, ForwardRequest
<1> QED BY <1>1, <1>3, <1>4, <1>5, DialingCloses

\* A peer is filed under a link: only the ConnProxys that lead to it are told.
LEMMA FiledCloses ==
  ASSUME Inv, Closes, NEW l \in Links, HasMessage(l), remote[l] \in Servers, File(l),
         UNCHANGED <<dialName, remote, state, doomed>>,
         \A k \in Links : hubOf'[k] = hubOf[k] \/ hubOf'[k] = remote[k],
         \A k \in Links : \/ gateOf'[k] = gateOf[k]
                          \/ gateOf'[k] = remote[k] /\ state[k] # "unused"
  PROVE  Closes'
<1>1. /\ \A x \in Servers : toPeer'[x] = IF x = remote[l] THEN l ELSE toPeer[x]
      /\ filedLate \subseteq filedLate'
      /\ state[l] \in {"closing", "gone"} => l \in filedLate'
  BY DEF File, Inv, ConnsTypeOK
<1>2. ProxiesKnow' BY DEF Closes, ProxiesKnow
<1>3. WillForget' BY <1>1 DEF Closes, WillForget, Forgets
<1>4. ClosedIsForgotten' BY <1>1 DEF Closes, ClosedIsForgotten
<1> QED BY <1>2, <1>3, <1>4 DEF Closes

\* add_hub_proxy and add_gate_proxy find the ConnProxy of a link to the peer.
LEMMA NamesDialed ==
  ASSUME Inv, NEW proxyOf, NEW p \in Servers, NEW k \in Links
  PROVE  \/ NameDialed(proxyOf, p)[k] = proxyOf[k]
         \/ /\ NameDialed(proxyOf, p)[k] = remote[k] /\ remote[k] = p
            /\ state[k] # "unused"
BY PeersAssumption DEF Inv, DialedKnows, InUse, NameDialed

LEMMA RegHubCloses ==
  ASSUME Inv, Closes, NEW l \in Links, RegHub(l)
  PROVE  Closes'
<1>1. remote[l] \in Servers /\ HasMessage(l) /\ File(l) BY DEF RegHub, Servers
<1>2. UNCHANGED <<dialName, gateOf, remote, state, doomed>> BY DEF RegHub
<1>3. \A k \in Links : hubOf'[k] = hubOf[k] \/ hubOf'[k] = remote[k]
  <2>1. hubOf' = [NameDialed(hubOf, remote[l]) EXCEPT ![l] = remote[l]] BY DEF RegHub
  <2>2. \A k \in Links :
          hubOf'[k] = IF k = l THEN remote[l] ELSE NameDialed(hubOf, remote[l])[k]
    BY <2>1 DEF NameDialed
  <2> QED BY <1>1, <2>2, NamesDialed
<1> QED BY <1>1, <1>2, <1>3, FiledCloses

LEMMA RegGateCloses ==
  ASSUME Inv, Closes, NEW l \in Links, RegGate(l)
  PROVE  Closes'
<1>1. remote[l] \in Servers /\ HasMessage(l) /\ File(l) BY DEF RegGate, Servers
<1>2. /\ UNCHANGED <<dialName, hubOf, remote, state, doomed>>
      /\ gateOf' = NameDialed(gateOf, remote[l])
  BY DEF RegGate
<1> QED BY <1>1, <1>2, NamesDialed, FiledCloses

LEMMA AdoptGateCloses ==
  ASSUME Inv, Closes, NEW l \in Links, HasMessage(l), remote[l] \in Gates, AdoptGate(l)
  PROVE  Closes'
<1>1. remote[l] \in Servers /\ File(l) BY DEF AdoptGate, Servers
<1>2. UNCHANGED <<dialName, hubOf, remote, state, doomed>> BY DEF AdoptGate
<1>3. \A k \in Links : \/ gateOf'[k] = gateOf[k]
                       \/ gateOf'[k] = remote[k] /\ state[k] # "unused"
  <2>1. \/ gateOf' = gateOf
        \/ gateOf' = [NameDialed(gateOf, remote[l]) EXCEPT ![l] = remote[l]]
    BY DEF AdoptGate
  <2>2. CASE gateOf' = [NameDialed(gateOf, remote[l]) EXCEPT ![l] = remote[l]]
    <3>1. \A k \in Links :
            gateOf'[k] = IF k = l THEN remote[l] ELSE NameDialed(gateOf, remote[l])[k]
      BY <2>2 DEF NameDialed
    <3> QED BY <1>1, <3>1, NamesDialed DEF HasMessage
  <2> QED BY <2>1, <2>2
<1> QED BY <1>1, <1>2, <1>3, FiledCloses

LEMMA DieCloses ==
  ASSUME Inv, Closes, NEW l \in Links, Die(l)
  PROVE  Closes'
<1>1. /\ UNCHANGED <<tables, remote, doomed, hung, filedLate>>
      /\ state[l] = "open"
      /\ \A k \in Links : state'[k] = IF k = l THEN "dead" ELSE state[k]
  BY DEF Die, Inv, ConnsTypeOK
<1> QED BY <1>1 DEF Closes, ProxiesKnow, WillForget, Forgets, ClosedIsForgotten, tables

\* The name that the close callback reads is the peer's, or that of the gate its
\* ConnProxy was pointed to, or it finds none, at a gate's link.
LEMMA CloseNameCloses ==
  ASSUME Inv, Closes, NEW l \in Links, CloseName(l)
  PROVE  Closes'
<1>1. /\ UNCHANGED <<tables, remote, hung, filedLate>>
      /\ state[l] = "dead"
      /\ \A k \in Links : /\ state'[k] = IF k = l THEN "closing" ELSE state[k]
                          /\ doomed'[k] = IF k = l THEN NameOnClose(l) ELSE doomed[k]
  BY DEF CloseName, Inv, ConnsTypeOK
<1>2. ASSUME NEW p \in Servers, toPeer[p] = l PROVE Forgets(l, p)'
  <2>1. remote[l] = p /\ p # NoPeer /\ l # NoLink
    BY <1>2, PeersAssumption DEF Inv, SendsToPeer
  <2>2. doomed'[l] = NameOnClose(l) BY <1>1
  <2>3. /\ dialName[l] # NoPeer => dialName[l] = p
        /\ hubOf[l] # NoPeer => hubOf[l] = p
        /\ gateOf[l] # NoPeer /\ p \in Gates => gateOf[l] = p
    BY <2>1 DEF Closes, ProxiesKnow
  <2>4. hubOf[l] \in Hubs \cup {NoPeer} /\ gateOf[l] \in Gates \cup {NoPeer}
    BY DEF Inv, ConnsTypeOK
  <2>5. CASE p \in Hubs
    <3>1. dialName[l] = p \/ hubOf[l] = p BY <1>2, <2>1, <2>5 DEF Inv, HubLinkIsNamed
    <3> QED BY <2>1, <2>2, <2>3, <2>4, <2>5, <3>1 DEF Forgets, NameOnClose
  <2>6. CASE p \in Gates
    <3>1. p \notin Hubs BY <2>6, KindsAssumption DEF Servers
    <3> QED BY <2>1, <2>2, <2>3, <2>4, <2>6, <3>1 DEF Forgets, NameOnClose
  <2> QED BY <2>5, <2>6 DEF Servers
<1>3. ProxiesKnow' BY <1>1 DEF Closes, ProxiesKnow, tables
<1>4. WillForget'
  <2> SUFFICES ASSUME NEW p \in Servers, NEW k \in Links,
                      toPeer[p] = k, state'[k] = "closing"
               PROVE  k \in filedLate \/ Forgets(k, p)'
    BY <1>1 DEF WillForget, tables
  <2>1. CASE k = l BY <1>2, <2>1
  <2>2. CASE k # l BY <1>1, <2>2 DEF Closes, WillForget, Forgets
  <2> QED BY <2>1, <2>2
<1>5. ClosedIsForgotten' BY <1>1 DEF Closes, ClosedIsForgotten, tables
<1> QED BY <1>3, <1>4, <1>5 DEF Closes

LEMMA CloseRemoveCloses ==
  ASSUME Inv, Closes, NEW l \in Links, CloseRemove(l)
  PROVE  Closes'
<1>1. /\ UNCHANGED <<dialName, hubOf, gateOf, remote, doomed, hung, filedLate>>
      /\ state[l] = "closing"
      /\ \A k \in Links : state'[k] = IF k = l THEN "gone" ELSE state[k]
      /\ \A p \in Servers :
           toPeer'[p] = IF p = doomed[l] THEN NoLink ELSE toPeer[p]
  BY DEF CloseRemove, Removed, Inv, ConnsTypeOK
<1>2. ProxiesKnow' BY <1>1 DEF Closes, ProxiesKnow
<1>3. WillForget' BY <1>1, PeersAssumption DEF Closes, WillForget, Forgets
<1>4. ClosedIsForgotten'
  <2> SUFFICES ASSUME NEW p \in Servers, NEW k \in Links,
                      toPeer'[p] = k, state'[k] = "gone"
               PROVE  \/ k \in filedLate
                      \/ p \in Hubs /\ doomed[k] \in Gates
                      \/ p \in Gates /\ doomed[k] = NoPeer
    BY <1>1 DEF ClosedIsForgotten
  <2>1. toPeer[p] = k /\ p # doomed[l] BY <1>1, PeersAssumption
  <2>2. CASE k = l BY <1>1, <2>1, <2>2 DEF Closes, WillForget, Forgets
  <2>3. CASE k # l BY <1>1, <2>1, <2>3 DEF Closes, ClosedIsForgotten
  <2> QED BY <2>2, <2>3
<1> QED BY <1>2, <1>3, <1>4 DEF Closes

LEMMA ClosesStep ==
  ASSUME Inv, Closes, [ConnsNext]_(connVars) PROVE Closes'
<1>1. ASSUME NEW l \in Links, NEW p \in Servers, Accept(l, p) PROVE Closes'
  BY <1>1, AcceptCloses
<1>2. ASSUME NEW l \in Links, NEW h \in Hubs, EnterHub(l, h) PROVE Closes'
  BY <1>2, EnterHubCloses
<1>3. ASSUME NEW l \in Links, NEW g \in Gates, EnterGate(l, g) PROVE Closes'
  BY <1>3, EnterGateCloses
<1>4. ASSUME NEW l \in Links, RegHub(l) PROVE Closes'
  BY <1>4, RegHubCloses
<1>5. ASSUME NEW l \in Links, RegGate(l) PROVE Closes'
  BY <1>5, RegGateCloses
<1>6. ASSUME NEW l \in Links, ClientEnters(l) \/ ClientRequestService(l)
      PROVE  Closes'
  BY <1>6, AdoptGateCloses DEF ClientEnters, ClientRequestService
<1>7. ASSUME NEW l \in Links, Die(l) \/ CloseName(l) \/ CloseRemove(l)
      PROVE  Closes'
  BY <1>7, DieCloses, CloseNameCloses, CloseRemoveCloses
<1>8. ASSUME NEW l \in Links, NEW k \in Links, NEW g \in Gates,
             ForwardRequest(l, k, g)
      PROVE  Closes'
  BY <1>8, ForwardRequestCloses
<1>9. ASSUME UNCHANGED connVars PROVE Closes'
  BY <1>9 DEF connVars, Closes, ProxiesKnow, WillForget, Forgets, ClosedIsForgotten
<1> QED BY <1>1, <1>2, <1>3, <1>4, <1>5, <1>6, <1>7, <1>8, <1>9 DEF ConnsNext

-----------------------------------------------------------------------------
\* The invariant holds in every reachable state.
THEOREM TablesCorrect == ConnsSpec => []Inv
<1>1. ConnsInit => Inv BY InitInv
<1>2. Inv /\ [ConnsNext]_(connVars) => Inv' BY NextInv
<1> QED BY <1>1, <1>2, PTL DEF ConnsSpec

\* The tables map names to links and links to names of the right kind.
THEOREM TablesTypeCorrect == ConnsSpec => []ConnsTypeOK
<1>1. Inv => ConnsTypeOK
  BY DEF Inv
<1> QED BY <1>1, TablesCorrect, PTL

\* Messages to a peer are written to a link that ends at that peer, for any
\* number of peers and links and any order of dials, registrations and closes.
THEOREM SendsToPeerCorrect == ConnsSpec => []SendsToPeer
<1>1. Inv => SendsToPeer
  BY DEF Inv
<1> QED BY <1>1, TablesCorrect, PTL

\* A dial never gets the writer of an earlier link: a peer that is missing from
\* the proxy tables has none, and a link whose close callback ran is in wrs and
\* connproxys no more.
THEOREM NoOldWriterCorrect == ConnsSpec => []NoOldWriter
<1>1. Inv => NoOldWriter
  BY PeersAssumption
  DEF Inv, ConnsTypeOK, WriterHasProxy, ClosedForgotten, NoOldWriter
<1> QED BY <1>1, TablesCorrect, PTL

\* A link leads to its peer no longer when its close callback has run, but for
\* the links that were filed too late, the links of hubs that closed under the
\* name of a gate, and those of gates that closed without a name.
THEOREM ClosedIsForgottenCorrect == ConnsSpec => []ClosedIsForgotten
<1>1. ConnsInit => Closes BY InitCloses
<1>2. Inv /\ Closes /\ [ConnsNext]_(connVars) => Closes' BY ClosesStep
<1>3. Closes => ClosedIsForgotten BY DEF Closes
<1> QED BY <1>1, <1>2, <1>3, TablesCorrect, PTL DEF ConnsSpec
=============================================================================
