------------------------------ MODULE Handshake ------------------------------
(***************************************************************************)
(* How two servers come to share a connection. Whoever dials first takes a *)
(* Redis lock whose key is the same for both directions, connects, files   *)
(* the peer's proxy and sends RegServer; the lock is given back when       *)
(* RegServerCallback answers, by another task of the same server. Redis    *)
(* forgets the lock after three seconds in any case. Both tasks need two   *)
(* mutexes of their server, that of the connection manager and that of its *)
(* connection to Redis, and do not always lock them in the same order.     *)
(*                                                                         *)
(* Links do not close here: HubConns and GateRouting are about that. The   *)
(* loss of the connection to Redis is not modelled.                        *)
(***************************************************************************)
EXTENDS HubsAndGates, Integers, FiniteSets, Sequences

CONSTANTS None,      \* nothing: no lock, no entry, no peer
          Empty,     \* the empty string, what unwrap_or_default makes of an error
          MaxCalls,  \* bound: entry calls in a behaviour
          MaxLinks   \* bound: connections made in a behaviour

Pairs == {p \in SUBSET Servers : Cardinality(p) = 2 /\ p \cap Hubs # {}}
Tokens == [owner : Servers, n : 1 .. MaxCalls]

ASSUME NamesAssumption ==
  /\ None # Empty
  /\ {None, Empty} \cap (Servers \cup Tokens) = {}
ASSUME BoundsAssumption == MaxCalls \in Nat /\ MaxLinks \in Nat

VARIABLES
  redis,    \* the value of each pair's lock key
  locks,    \* per server, ConnManager.locks
  proxies,  \* per server, the peers in hubproxys and gateproxys (gate: hubs)
  links,    \* connections made, with what was last sent over each
  task,     \* per server, the entry_... call that is under way
  adding,   \* per hub, the gate poll has answered and not filed yet
  giving,   \* per server, the lock that RegServerCallback is to give back
  calls,    \* entry calls so far, the values of the locks they take
  late      \* history: pairs whose lock expired during a handshake

vars == <<redis, locks, proxies, links, task, adding, giving, calls, late>>

Idle == [at |-> "idle", peer |-> None, call |-> None,
         value |-> None]
NotGiving == [peer |-> None, value |-> None]
Giving(s) == giving[s].peer # None

\* Mutexes of server s. RegServerCallback locks the connection manager and then
\* waits for the connection to Redis. entry_gate_service has the latter locked
\* from its start, and the manager when it has the lock of the pair; every
\* other call has both locked from its start.
GateCall(s, t) == s \in Hubs /\ t \in Gates
ManagerBusy(s) ==
  Giving(s) \/ (task[s].at \in {"acquire", "held"} /\ ~GateCall(s, task[s].peer))
RedisBusy(s) == task[s].at \in {"acquire", "held"}

Init ==
  /\ redis = [p \in Pairs |-> None]
  /\ locks = [s \in Servers |-> [p \in Pairs |-> None]]
  /\ proxies = [s \in Servers |-> {}]
  /\ links = <<>>
  /\ task = [s \in Servers |-> Idle]
  /\ adding = [h \in Hubs |-> None]
  /\ giving = [s \in Servers |-> NotGiving]
  /\ calls = 0
  /\ late = {}

\* The entry points. entry_hub_service (of both) asks for a proxy first;
\* entry_direct_hub_server and entry_gate_service go for the lock at once.
Enter(s, t, call) ==
  /\ task[s].at = "idle" /\ calls < MaxCalls
  /\ {s, t} \in Pairs /\ (ManagerBusy(s) => GateCall(s, t))
  /\ call = "direct" => s \in Hubs
  /\ call = "service" => t \in Hubs /\ t \notin proxies[s]
  /\ calls' = calls + 1
  /\ task' = [task EXCEPT ![s] =
       [at |-> "acquire", peer |-> t, call |-> call,
        value |-> [owner |-> s, n |-> calls']]]
  /\ UNCHANGED <<redis, locks, proxies, links, adding, giving, late>>

\* SET key value EX 3 NX. The value is fresh: one for each call stands for the
\* UUID.
Acquire(s) ==
  LET p == {s, task[s].peer}
  IN /\ task[s].at = "acquire" /\ redis[p] = None
     /\ redis' = [redis EXCEPT ![p] = task[s].value]
     /\ task' = [task EXCEPT ![s].at = "held"]
     /\ UNCHANGED <<locks, proxies, links, adding, giving, calls, late>>

\* Mutant: every server dials without the lock, as the gate does.
GiveUpLikeGate(s) ==
  /\ task[s].at = "acquire" /\ redis[{s, task[s].peer}] # None
  /\ task' = [task EXCEPT ![s].at = "held", ![s].value = Empty]
  /\ UNCHANGED <<redis, locks, proxies, links, adding, giving, calls, late>>

\* A hundred attempts failed. The hub's direct calls return; its
\* entry_hub_service lets go of everything and looks again; the gate goes on
\* as if it had a lock whose value is the empty string.
GiveUp(s) ==
  /\ task[s].at = "acquire" /\ redis[{s, task[s].peer}] # None
  /\ task' = [task EXCEPT ![s] =
       IF s \in Gates THEN [at |-> "held", peer |-> @.peer, call |-> @.call, value |-> Empty]
       ELSE IF @.call = "service" THEN [@ EXCEPT !.at = "again"]
       ELSE Idle]
  /\ UNCHANGED <<redis, locks, proxies, links, adding, giving, calls, late>>

LookAgain(s) ==
  /\ task[s].at = "again" /\ ~ManagerBusy(s)
  /\ task' = [task EXCEPT ![s] =
       IF @.peer \in proxies[s] THEN Idle ELSE [@ EXCEPT !.at = "acquire"]]
  /\ UNCHANGED <<redis, locks, proxies, links, adding, giving, calls, late>>

\* Mutant: delete the key whatever its value.
DeletedKey(p, v) == [redis EXCEPT ![p] = None]

\* release_lock: delete the key if it has this value.
Released(p, v) == IF redis[p] = v THEN [redis EXCEPT ![p] = None] ELSE redis

\* The call has the lock of the pair, and the connection manager.
MayDial(s) == task[s].at = "held" /\ ~Giving(s)

\* The peer has connected in the meantime.
AlreadyThere(s) ==
  /\ MayDial(s) /\ task[s].peer \in proxies[s]
  /\ redis' = Released({s, task[s].peer}, task[s].value)
  /\ task' = [task EXCEPT ![s] = Idle]
  /\ UNCHANGED <<locks, proxies, links, adding, giving, calls, late>>

FileLock(s) == locks' = [locks EXCEPT ![s][{s, task[s].peer}] = task[s].value]

Dial(s) ==
  /\ MayDial(s) /\ task[s].peer \notin proxies[s]
  /\ Len(links) < MaxLinks
  /\ FileLock(s)
  /\ links' = Append(links, [from |-> s, to |-> task[s].peer, sent |-> "register"])
  /\ proxies' = [proxies EXCEPT ![s] = @ \cup {task[s].peer}]
  /\ task' = [task EXCEPT ![s] = Idle]
  /\ UNCHANGED <<redis, adding, giving, calls, late>>

\* The connect fails: the lock stays, in Redis and in the table.
DialFails(s) ==
  /\ MayDial(s) /\ task[s].peer \notin proxies[s]
  /\ FileLock(s)
  /\ task' = [task EXCEPT ![s] = Idle]
  /\ UNCHANGED <<redis, proxies, links, adding, giving, calls, late>>

\* A server handles one message at a time.
PollFree(s) == ~Giving(s) /\ (s \in Hubs => adding[s] = None)

\* Mutant: a hub answers everyone before it files the proxy.
AnswerFirst(i) ==
  LET t == links[i].to
  IN /\ links[i].sent = "register" /\ t \in Hubs /\ PollFree(t)
     /\ links' = [links EXCEPT ![i].sent = "answer"]
     /\ adding' = [adding EXCEPT ![t] = links[i].from]
     /\ UNCHANGED <<redis, locks, proxies, task, giving, calls, late>>

\* RegServer arrives. Between hubs, and at a gate, the proxy is filed and then
\* the answer sent; a hub answers a gate first.
Register(i) ==
  LET s == links[i].from
      t == links[i].to
  IN /\ links[i].sent = "register" /\ PollFree(t)
     /\ links' = [links EXCEPT ![i].sent = "answer"]
     /\ \/ /\ s \in Hubs /\ ~ManagerBusy(t)
           /\ proxies' = [proxies EXCEPT ![t] = @ \cup {s}]
           /\ UNCHANGED adding
        \/ /\ s \in Gates
           /\ adding' = [adding EXCEPT ![t] = s]
           /\ UNCHANGED proxies
     /\ UNCHANGED <<redis, locks, task, giving, calls, late>>

AddGate(h) ==
  /\ adding[h] # None /\ ~ManagerBusy(h)
  /\ proxies' = [proxies EXCEPT ![h] = @ \cup {adding[h]}]
  /\ adding' = [adding EXCEPT ![h] = None]
  /\ UNCHANGED <<redis, locks, links, task, giving, calls, late>>

\* RegServerCallback arrives at the server that dialed, which takes the lock of
\* the pair out of its table. A gate that finds none is done.
Callback(i) ==
  LET s == links[i].from
      p == {s, links[i].to}
      value == locks[s][p]
  IN /\ links[i].sent = "answer" /\ PollFree(s) /\ ~ManagerBusy(s)
     /\ links' = [links EXCEPT ![i].sent = "nothing"]
     /\ locks' = [locks EXCEPT ![s][p] = None]
     /\ giving' = IF s \in Gates /\ value = None THEN giving
                  ELSE [giving EXCEPT ![s] =
                    [peer |-> links[i].to, value |-> IF value = None THEN Empty ELSE value]]
     /\ UNCHANGED <<redis, proxies, task, adding, calls, late>>

\* With the connection manager still locked, it gives the lock back.
GiveBack(s) ==
  /\ Giving(s) /\ ~RedisBusy(s)
  /\ redis' = Released({s, giving[s].peer}, giving[s].value)
  /\ giving' = [giving EXCEPT ![s] = NotGiving]
  /\ UNCHANGED <<locks, proxies, links, task, adding, calls, late>>

\* What the lock with value v of pair p protects is not over.
UnderWay(p, v) ==
  \/ task[v.owner].at = "held" /\ task[v.owner].value = v
  \/ \E i \in DOMAIN links : /\ {links[i].from, links[i].to} = p
                             /\ links[i].from = v.owner
                             /\ links[i].sent # "nothing"
                             /\ locks[v.owner][p] = v

\* Mutant: SET without EX.
NeverExpires(p) == redis[p] # None /\ UNCHANGED vars

\* EX: three seconds are over.
Expire(p) ==
  /\ redis[p] # None
  /\ redis' = [redis EXCEPT ![p] = None]
  /\ late' = IF UnderWay(p, redis[p]) THEN late \cup {p} ELSE late
  /\ UNCHANGED <<locks, proxies, links, task, adding, giving, calls>>

TaskStep(s) ==
  \/ Acquire(s) \/ GiveUp(s) \/ LookAgain(s)
  \/ AlreadyThere(s) \/ Dial(s) \/ DialFails(s)

Next ==
  \/ \E s, t \in Servers, call \in {"direct", "service"} : Enter(s, t, call)
  \/ \E s \in Servers : TaskStep(s) \/ GiveBack(s)
  \/ \E i \in DOMAIN links : Register(i) \/ Callback(i)
  \/ \E h \in Hubs : AddGate(h)
  \/ \E p \in Pairs : Expire(p)

Spec == Init /\ [][Next]_vars

\* Tasks are run, and Redis expires keys.
LiveSpec ==
  /\ Spec
  /\ \A s \in Servers : WF_vars(TaskStep(s)) /\ WF_vars(GiveBack(s))
  /\ \A p \in Pairs : WF_vars(Expire(p))

-----------------------------------------------------------------------------
(***************************************************************************)
(* Properties.                                                             *)
(***************************************************************************)

TypeOK ==
  /\ redis \in [Pairs -> Tokens \cup {None}]
  /\ locks \in [Servers -> [Pairs -> Tokens \cup {None, Empty}]]
  /\ proxies \in [Servers -> SUBSET Servers]
  /\ links \in Seq([from : Servers, to : Servers,
                    sent : {"register", "answer", "nothing"}])
  /\ task \in [Servers -> [at : {"idle", "again", "acquire", "held"},
                           peer : Servers \cup {None},
                           call : {"direct", "service", None},
                           value : Tokens \cup {None, Empty}]]
  /\ adding \in [Hubs -> Gates \cup {None}]
  /\ giving \in [Servers -> [peer : Servers \cup {None},
                             value : Tokens \cup {None, Empty}]]
  /\ calls \in 0 .. MaxCalls
  /\ late \subseteq Pairs

\* Two hubs that dial each other at the same time end up with one connection,
\* as long as no lock expired while its handshake was under way. (A gate dials
\* without the lock when it cannot have it: no such promise to gates.)
OneLinkOfTwoHubs ==
  \A p \in Pairs : p \subseteq Hubs /\ p \notin late =>
    Cardinality({i \in DOMAIN links : {links[i].from, links[i].to} = p}) <= 1

\* A handshake whose lock has expired may be answered while the peer, or a
\* later attempt, holds the lock of the pair: what it gives back then is only
\* ever its own. A server's step frees no lock but the one it took.
FreesOwnLock ==
  [][\A p \in Pairs, s \in Servers :
       /\ redis[p] # None /\ redis'[p] = None
       /\ task'[s] # task[s] \/ giving'[s] # giving[s]
       => redis[p].owner = s]_vars

\* RegServerCallback has the connection manager and waits for the connection to
\* Redis; entry_gate_service has that, and waits for the connection manager.
Crossed(s) == Giving(s) /\ task[s].at = "held"

\* Every call that asks for a connection returns, also when the peer holds the
\* lock and never connects, unless it crosses an answer: the lock of the pair
\* cannot be held for ever, and nothing else keeps a call.
EntersReturn ==
  \A s \in Servers : task[s].at # "idle" ~> (task[s].at = "idle" \/ Crossed(s))
=============================================================================
