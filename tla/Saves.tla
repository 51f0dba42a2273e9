--------------------------------- MODULE Saves ---------------------------------
(***************************************************************************)
(* Persistence: the dirty flags of a hub's objects, the updates it sends   *)
(* to a dbproxy through a list in Redis, the dbproxy's queue and the       *)
(* answers. Games change and save objects on the main thread and in        *)
(* coroutines (thread "loop"); answers are handled on the thread that      *)
(* polls the database. An action of a thread is the code from one point    *)
(* where CPython may switch threads to the next.                           *)
(*                                                                         *)
(* There is one save object for an entity id, and it stays: an object that *)
(* replaces another of the same id, and del_save_entity, are left out.     *)
(* What an object holds is a version number. The timer that set_dirty      *)
(* starts is left out: context.save_time_interval returns None, so it      *)
(* waits for ever. The names of base_dbproxy_handle have no                *)
(* __random_new_dbproxy__: a save that fails raises an AttributeError.     *)
(***************************************************************************)
EXTENDS Naturals, FiniteSets, SequencesExt

CONSTANTS
  Objects,      \* entity ids
  MaxVersion,   \* bound: changes of all objects together
  MaxUpdates,   \* bound: updates under way
  MaxCrashes,   \* bound: crashes of the dbproxy
  NoObject

ASSUME BoundsAssumption ==
  /\ MaxVersion \in Nat /\ MaxUpdates \in Nat /\ MaxCrashes \in Nat
  /\ IsFiniteSet(Objects) /\ NoObject \notin Objects

VARIABLES
  saves,     \* save_manager.saves
  data,      \* the version that the object holds
  isDirty,   \* __is_dirty__
  isRun,     \* app.__is_run__
  thread,    \* what the hub's threads are at in save_entity
  left,      \* what for_each_entity has yet to visit; its size of the table
  channel,   \* the dbproxy's list in Redis
  queue,     \* the dbproxy's queue
  stored,    \* the version in MongoDB
  answers,   \* answers on their way to the hub
  crashes,   \* how often the dbproxy crashed
  changes,   \* how many changes there were, which MaxVersion bounds
  lastSent,  \* history: the newest version that was sent
  crossed,   \* history: objects that changed while an update of them was under way
  raced,     \* history: objects that two threads saved at the same time
  late       \* history: objects that changed after the final visit

hub == <<saves, data, isDirty, isRun, thread, left>>
dbproxy == <<channel, queue, stored, answers, crashes>>
history == <<changes, lastSent, crossed, raced, late>>
vars == <<hub, dbproxy, history>>

Threads == {"main", "loop"}
Doing(step, o, v) == [at |-> step, object |-> o, version |-> v]
Idle == Doing("idle", NoObject, 0)
At(t, step) == thread[t].at = step
Updates(o) == {u \in ToSet(channel) \cup ToSet(queue) \cup ToSet(answers) : u.object = o}
Holds(t, o) == At(t, "send") /\ thread[t].object = o
UnderWay(o) == Updates(o) # {} \/ \E t \in Threads : Holds(t, o)
InFlight == Len(channel) + Len(queue) + Len(answers)

Init ==
  /\ saves \in SUBSET Objects
  /\ data = [o \in Objects |-> 0]
  /\ isDirty = [o \in Objects |-> FALSE]
  /\ isRun = TRUE
  /\ thread = [t \in Threads |-> Idle]
  /\ left = [todo |-> {}, size |-> 0]
  /\ channel = <<>> /\ queue = <<>> /\ answers = <<>>
  /\ stored = data /\ crashes = 0
  /\ changes = 0 /\ lastSent = data
  /\ crossed = {} /\ raced = {} /\ late = {}

-----------------------------------------------------------------------------
(* The hub.                                                                *)

\* The constructor of an object that was loaded, in a coroutine.
AddSaveEntity(o) ==
  /\ At("loop", "idle") /\ o \notin saves
  /\ saves' = saves \cup {o}
  /\ UNCHANGED <<data, isDirty, isRun, thread, left, dbproxy, history>>

\* The game changes an object and calls set_dirty.
Change(t, o) ==
  /\ At(t, "idle") /\ o \in saves /\ changes < MaxVersion
  /\ changes' = changes + 1
  /\ data' = [data EXCEPT ![o] = @ + 1]
  /\ isDirty' = [isDirty EXCEPT ![o] = TRUE]
  /\ crossed' = IF UnderWay(o) THEN crossed \cup {o} ELSE crossed
  /\ late' = IF ~isRun /\ o \notin left.todo THEN late \cup {o} ELSE late
  /\ UNCHANGED <<saves, isRun, thread, left, dbproxy, lastSent, raced>>

\* save_entity returns when the object is clean,
SaveEntity(t, o) ==
  /\ At(t, "idle") /\ o \in saves /\ isDirty[o]
  /\ thread' = [thread EXCEPT ![t] = Doing("store", o, 0)]
  /\ UNCHANGED <<saves, data, isDirty, isRun, left, dbproxy, history>>

\* copies it with the game's store(),
Store(t) ==
  /\ At(t, "store")
  /\ LET o == thread[t].object
     IN  /\ thread' = [thread EXCEPT ![t] = Doing("send", o, data[o])]
         /\ raced' = IF \E u \in Threads : Holds(u, o) THEN raced \cup {o} ELSE raced
  /\ UNCHANGED <<saves, data, isDirty, isRun, left, dbproxy, changes, lastSent, crossed, late>>

\* Mutant of Returns: the loop over the objects goes on.
ReturnsAnyway(t, fails) ==
  IF t = "main" /\ ~isRun THEN Doing("exit", NoObject, 0) ELSE Idle

\* What a thread goes back to; an exception on the main thread after the poll
\* loop ends the hub.
Returns(t, fails) ==
  IF t = "main" /\ ~isRun
  THEN Doing(IF fails THEN "dead" ELSE "exit", NoObject, 0) ELSE Idle

\* Mutant of Send: what the object holds by now is what counts as sent.
SendLatest(t) ==
  /\ At(t, "send")
  /\ InFlight < MaxUpdates
  /\ channel' = Append(channel, [object |-> thread[t].object, version |-> data[thread[t].object]])
  /\ thread' = [thread EXCEPT ![t] = Returns(t, FALSE)]
  /\ UNCHANGED <<saves, data, isDirty, isRun, left, queue, stored, answers, crashes,
                 changes, lastSent, crossed, raced, late>>

\* and pushes an update onto the dbproxy's list,
Push(t) ==
  LET u == [object |-> thread[t].object, version |-> thread[t].version]
  IN  /\ InFlight < MaxUpdates
      /\ channel' = Append(channel, u)
      /\ lastSent' = [lastSent EXCEPT ![u.object] = IF u.version > @ THEN u.version ELSE @]

Send(t) ==
  /\ At(t, "send") /\ Push(t)
  /\ thread' = [thread EXCEPT ![t] = Returns(t, FALSE)]
  /\ UNCHANGED <<saves, data, isDirty, isRun, left, queue, stored, answers, crashes,
                 changes, crossed, raced, late>>

\* or raises if that fails. What Redis did before it failed may have been done.
SendFails(t) ==
  /\ At(t, "send") /\ (Push(t) \/ UNCHANGED <<channel, lastSent>>)
  /\ thread' = [thread EXCEPT ![t] = Returns(t, TRUE)]
  /\ UNCHANGED <<saves, data, isDirty, isRun, left, queue, stored, answers, crashes,
                 changes, crossed, raced, late>>

\* __updata_object_callback__, on the thread that polls the database: it tests
\* __is_run__ between two rounds, and a round lasts as long as there are answers,
\* so it may outlast close(). (False raises.) If the newest version was the only
\* one under way, nothing crosses any more.
Answer ==
  /\ answers # <<>>
  /\ answers' = Tail(answers)
  /\ LET a == Head(answers)
         others == ToSet(channel) \cup ToSet(queue) \cup ToSet(Tail(answers))
         alone == /\ \A u \in others : u.object # a.object
                  /\ \A t \in Threads : ~Holds(t, a.object)
     IN  /\ isDirty' = [isDirty EXCEPT ![a.object] = @ /\ ~a.result]
         /\ crossed' = IF a.result /\ a.version = data[a.object] /\ alone
                       THEN crossed \ {a.object} ELSE crossed
  /\ UNCHANGED <<saves, data, isRun, thread, left, channel, queue, stored, crashes,
                 changes, lastSent, raced, late>>

\* close(), and the poll loop ends: for_each_entity saves what is dirty.
Close ==
  /\ isRun /\ At("main", "idle")
  /\ isRun' = FALSE
  /\ thread' = [thread EXCEPT !["main"].at = "exit"]
  /\ left' = [todo |-> saves, size |-> Cardinality(saves)]
  /\ UNCHANGED <<saves, data, isDirty, dbproxy, history>>

\* It visits one object after the other
Visit(o) ==
  /\ At("main", "exit") /\ o \in left.todo
  /\ Cardinality(saves) = left.size
  /\ left' = [left EXCEPT !.todo = @ \ {o}]
  /\ thread' = IF ~isDirty[o] THEN thread
               ELSE [thread EXCEPT !["main"] = Doing("store", o, 0)]
  /\ UNCHANGED <<saves, data, isDirty, isRun, dbproxy, history>>

\* to the end, or until a coroutine has added an object.
VisitsEnd ==
  /\ At("main", "exit")
  /\ left.todo = {} \/ Cardinality(saves) # left.size
  /\ thread' = [thread EXCEPT !["main"].at =
                  IF Cardinality(saves) = left.size THEN "done" ELSE "dead"]
  /\ UNCHANGED <<saves, data, isDirty, isRun, left, dbproxy, history>>

-----------------------------------------------------------------------------
(* The dbproxy.                                                            *)

\* Mutant of Receive: what came last is done first.
ReceiveInFront ==
  /\ channel # <<>>
  /\ channel' = Tail(channel) /\ queue' = <<Head(channel)>> \o queue
  /\ UNCHANGED <<hub, stored, answers, crashes, history>>

\* The reader takes an update from the list in Redis and queues it.
Receive ==
  /\ channel # <<>>
  /\ channel' = Tail(channel) /\ queue' = Append(queue, Head(channel))
  /\ UNCHANGED <<hub, stored, answers, crashes, history>>

\* Mutant of Poll: what MongoDB says is not looked at.
PollTrue(writes, result) ==
  /\ queue # <<>>
  /\ LET u == Head(queue)
     IN  /\ stored' = IF writes THEN [stored EXCEPT ![u.object] = u.version] ELSE stored
         /\ answers' = Append(answers, [object |-> u.object, version |-> u.version,
                                        result |-> TRUE])
  /\ queue' = Tail(queue)
  /\ UNCHANGED <<hub, channel, crashes, history>>

\* poll: MongoDB stores the update, or not, or stores it and the answer is lost.
Poll(writes, result) ==
  /\ queue # <<>> /\ (result => writes)
  /\ LET u == Head(queue)
     IN  /\ stored' = IF writes THEN [stored EXCEPT ![u.object] = u.version] ELSE stored
         /\ answers' = Append(answers, [object |-> u.object, version |-> u.version,
                                        result |-> result])
  /\ queue' = Tail(queue)
  /\ UNCHANGED <<hub, channel, crashes, history>>

\* The dbproxy crashes and starts again. Its queue is gone, the list in Redis is
\* not; the update it was at may have been stored.
Crash(writes) ==
  /\ crashes < MaxCrashes
  /\ crashes' = crashes + 1
  /\ queue' = <<>>
  /\ stored' = IF writes /\ queue # <<>>
               THEN [stored EXCEPT ![Head(queue).object] = Head(queue).version] ELSE stored
  /\ UNCHANGED <<hub, channel, answers, history>>

-----------------------------------------------------------------------------
Next ==
  \/ \E o \in Objects : AddSaveEntity(o) \/ Visit(o)
  \/ \E t \in Threads, o \in Objects : Change(t, o) \/ SaveEntity(t, o)
  \/ \E t \in Threads : Store(t) \/ Send(t) \/ SendFails(t)
  \/ Answer \/ Close \/ VisitsEnd
  \/ Receive \/ \E writes, result \in BOOLEAN : Poll(writes, result)
  \/ \E writes \in BOOLEAN : Crash(writes)

Spec == Init /\ [][Next]_vars

-----------------------------------------------------------------------------
Update == [object : Objects, version : 0 .. MaxVersion]

\* Types, and versions: nothing is sent or stored that the object never held.
TypeOK ==
  /\ saves \subseteq Objects
  /\ data \in [Objects -> 0 .. MaxVersion]
  /\ isDirty \in [Objects -> BOOLEAN] /\ isRun \in BOOLEAN
  /\ thread \in [Threads -> [at : {"idle", "store", "send", "exit", "done", "dead"},
                             object : Objects \cup {NoObject}, version : 0 .. MaxVersion]]
  /\ left \in [todo : SUBSET Objects, size : 0 .. Cardinality(Objects)]
  /\ channel \in Seq(Update) /\ queue \in Seq(Update)
  /\ answers \in Seq([object : Objects, version : 0 .. MaxVersion, result : BOOLEAN])
  /\ stored \in [Objects -> 0 .. MaxVersion] /\ lastSent \in [Objects -> 0 .. MaxVersion]
  /\ \A o \in Objects : /\ stored[o] <= lastSent[o] /\ lastSent[o] <= data[o]
                        /\ \A u \in Updates(o) : u.version <= lastSent[o]
  /\ crashes \in 0 .. MaxCrashes /\ changes \in 0 .. MaxVersion
  /\ crossed \subseteq Objects /\ raced \subseteq Objects /\ late \subseteq Objects

\* An object that counts as clean is in the database as it is, whatever failed or
\* crashed on the way, unless it changed while an update of it was under way (the
\* answer to that update clears the flag, and nothing saves the change) or two
\* threads saved it at the same time.
CleanIsStored ==
  \A o \in Objects \ (crossed \cup raced) : ~isDirty[o] => stored[o] = data[o]

\* The database never goes back to an older version, unless two threads saved the
\* object at the same time and the older copy was sent last.
NeverGoesBack ==
  [][\A o \in Objects \ raced : stored'[o] >= stored[o]]_vars

\* When a hub has gone through its objects at its end without an exception, the
\* newest version of each has been sent, but for those a coroutine changed
\* afterwards and those that wrongly counted as clean.
ExitSavesAll ==
  At("main", "done") => \A o \in saves \ (late \cup crossed) : lastSent[o] = data[o]
=============================================================================
