------------------------------ MODULE SavesProofs ------------------------------
(***************************************************************************)
(* For any number of objects, changes, updates and crashes of the dbproxy: *)
(* what counts as clean is stored, the database never goes back, and the   *)
(* end of a hub saves all, each with the exception the code has. Two facts *)
(* carry the proofs. The updates of an object that no two threads saved at *)
(* the same time are in the order of their versions, from the database     *)
(* through the queue and the channel to the thread that holds the next     *)
(* one. And all updates under way of an object that did not change since   *)
(* hold what the object holds.                                             *)
(***************************************************************************)
EXTENDS Saves, FiniteSetTheorems, TLAPS

\* What the threads are at, and how versions come about.
Steps ==
  /\ At("loop", "idle") \/ At("loop", "store") \/ At("loop", "send")
  /\ \A t \in Threads, o \in Objects : Holds(t, o) => thread[t].version <= data[o]
  /\ \A t \in Threads : At(t, "store") \/ At(t, "send") => thread[t].object \in Objects
  /\ \A o \in Objects : data[o] <= changes /\ (o \notin saves => data[o] = 0)

-----------------------------------------------------------------------------
(* Sequences of updates.                                                   *)

LEMMA ToSetEmpty == ToSet(<<>>) = {}
BY DEF ToSet

LEMMA ToSetType ==
  ASSUME NEW T, NEW s \in Seq(T) PROVE ToSet(s) \subseteq T
BY DEF ToSet

LEMMA ToSetAppend ==
  ASSUME NEW T, NEW s \in Seq(T), NEW m \in T
  PROVE  Append(s, m) \in Seq(T) /\ ToSet(Append(s, m)) = ToSet(s) \cup {m}
<1>1. Len(Append(s, m)) = Len(s) + 1 /\ Len(s) \in Nat OBVIOUS
<1>2. \A i \in 1 .. Len(s) : Append(s, m)[i] = s[i] OBVIOUS
<1>3. Append(s, m)[Len(s) + 1] = m OBVIOUS
<1> QED BY <1>1, <1>2, <1>3 DEF ToSet

LEMMA ToSetHeadTail ==
  ASSUME NEW T, NEW s \in Seq(T), s # <<>>
  PROVE  /\ Head(s) \in T /\ Tail(s) \in Seq(T)
         /\ ToSet(s) = {Head(s)} \cup ToSet(Tail(s))
<1>1. Len(s) \in Nat \ {0} /\ Len(Tail(s)) = Len(s) - 1 OBVIOUS
<1>2. \A i \in 1 .. Len(s) - 1 : Tail(s)[i] = s[i + 1] OBVIOUS
<1>3. \A i \in 2 .. Len(s) : i - 1 \in 1 .. Len(s) - 1 /\ s[i] = Tail(s)[i - 1]
  BY <1>1, <1>2
<1>4. Head(s) = s[1] /\ s[1] \in T /\ Tail(s) \in Seq(T) BY <1>1
<1>5. DOMAIN s = 1 .. Len(s) /\ DOMAIN Tail(s) = 1 .. Len(s) - 1 BY <1>1, <1>4
<1>6. ASSUME NEW u \in ToSet(s) PROVE u = s[1] \/ u \in ToSet(Tail(s))
  <2>1. PICK i \in 1 .. Len(s) : u = s[i] BY <1>5 DEF ToSet
  <2>2. i = 1 \/ i \in 2 .. Len(s) BY <1>1
  <2> QED BY <1>3, <1>5, <2>1, <2>2 DEF ToSet
<1>7. ASSUME NEW u \in ToSet(Tail(s)) PROVE u \in ToSet(s)
  <2>1. PICK i \in 1 .. Len(s) - 1 : u = Tail(s)[i] BY <1>5 DEF ToSet
  <2>2. i + 1 \in 1 .. Len(s) BY <1>1
  <2> QED BY <1>2, <1>5, <2>1, <2>2 DEF ToSet
<1>8. s[1] \in ToSet(s)
  <2>1. 1 \in 1 .. Len(s) BY <1>1
  <2> QED BY <1>5, <2>1 DEF ToSet
<1> QED BY <1>4, <1>6, <1>7, <1>8

\* The versions of an object do not fall in a sequence of updates.
Rising(s, o) ==
  \A i, j \in DOMAIN s :
    i < j /\ s[i].object = o /\ s[j].object = o => s[i].version <= s[j].version

LEMMA RisingAppend ==
  ASSUME NEW s \in Seq(Update), NEW m \in Update, NEW o, Rising(s, o),
         m.object = o => \A u \in ToSet(s) : u.object = o => u.version <= m.version
  PROVE  Rising(Append(s, m), o)
<1>1. Len(Append(s, m)) = Len(s) + 1 /\ Len(s) \in Nat OBVIOUS
<1>2. \A i \in 1 .. Len(s) : Append(s, m)[i] = s[i] /\ s[i] \in ToSet(s) BY DEF ToSet
<1>3. Append(s, m)[Len(s) + 1] = m OBVIOUS
<1>4. DOMAIN s = 1 .. Len(s) /\ DOMAIN Append(s, m) = 1 .. Len(s) + 1 OBVIOUS
<1> QED BY <1>1, <1>2, <1>3, <1>4 DEF Rising

LEMMA RisingTail ==
  ASSUME NEW s \in Seq(Update), s # <<>>, NEW o, Rising(s, o)
  PROVE  /\ Rising(Tail(s), o)
         /\ Head(s).object = o =>
              \A u \in ToSet(Tail(s)) : u.object = o => Head(s).version <= u.version
<1>1. Len(s) \in Nat \ {0} /\ Len(Tail(s)) = Len(s) - 1 OBVIOUS
<1>2. \A i \in 1 .. Len(s) - 1 : Tail(s)[i] = s[i + 1] OBVIOUS
<1>3. Head(s) = s[1] /\ DOMAIN s = 1 .. Len(s) /\ DOMAIN Tail(s) = 1 .. Len(s) - 1
  BY <1>1
<1> QED BY <1>1, <1>2, <1>3 DEF Rising, ToSet

-----------------------------------------------------------------------------
(* Type correctness.                                                       *)

Answers == [object : Objects, version : 0 .. MaxVersion, result : BOOLEAN]

LEMMA InitType == Init => TypeOK /\ Steps
<1> SUFFICES ASSUME Init PROVE TypeOK /\ Steps OBVIOUS
<1>1. 0 \in 0 .. MaxVersion /\ 0 \in 0 .. MaxCrashes BY BoundsAssumption
<1>2. Cardinality(Objects) \in Nat BY BoundsAssumption, FS_CardinalityType
<1>3. TypeOK
  BY <1>1, <1>2, ToSetEmpty DEF Init, TypeOK, Idle, Doing, Updates, Update
<1>4. Steps BY <1>1, BoundsAssumption DEF Init, Steps, Holds, At, Idle, Doing, Threads
<1> QED BY <1>3, <1>4

\* What a thread pushes.
Sent(t) == [object |-> thread[t].object, version |-> thread[t].version]

LEMMA PushChanges ==
  ASSUME TypeOK, Steps, NEW t \in Threads, At(t, "send"), Push(t)
  PROVE  /\ Sent(t) \in Update /\ Holds(t, Sent(t).object)
         /\ Sent(t).version <= data[Sent(t).object]
         /\ channel' = Append(channel, Sent(t))
         /\ channel' \in Seq(Update) /\ ToSet(channel') = ToSet(channel) \cup {Sent(t)}
         /\ lastSent' \in [Objects -> 0 .. MaxVersion]
         /\ \A o \in Objects : lastSent'[o] \in {lastSent[o], Sent(t).version}
         /\ \A o \in Objects : lastSent[o] <= lastSent'[o] /\ lastSent'[o] <= data[o]
         /\ \A o \in Objects \ {Sent(t).object} : lastSent'[o] = lastSent[o]
         /\ Sent(t).version <= lastSent'[Sent(t).object]
<1>1. thread[t].object \in Objects /\ thread[t].version \in 0 .. MaxVersion
  BY DEF Steps, TypeOK
<1>2. Sent(t) \in Update /\ Sent(t).object = thread[t].object
      /\ Sent(t).version = thread[t].version
  BY <1>1 DEF Sent, Update
<1>3. Holds(t, Sent(t).object) /\ Sent(t).version <= data[Sent(t).object]
  BY <1>1, <1>2 DEF Holds, Steps
<1>4. channel' = Append(channel, Sent(t)) BY DEF Push, Sent
<1>5. channel' \in Seq(Update) /\ ToSet(channel') = ToSet(channel) \cup {Sent(t)}
  BY <1>2, <1>4, ToSetAppend DEF TypeOK
<1>6. lastSent' = [lastSent EXCEPT ![Sent(t).object] =
                     IF Sent(t).version > @ THEN Sent(t).version ELSE @]
  BY <1>2 DEF Push, Sent
<1>7. /\ lastSent \in [Objects -> 0 .. MaxVersion] /\ data \in [Objects -> 0 .. MaxVersion]
      /\ \A o \in Objects : lastSent[o] <= data[o]
      /\ MaxVersion \in Nat
  BY BoundsAssumption DEF TypeOK
<1>8. Sent(t).object \in Objects /\ Sent(t).version \in 0 .. MaxVersion BY <1>1, <1>2
<1> HIDE DEF Sent
<1> QED BY <1>2, <1>3, <1>4, <1>5, <1>6, <1>7, <1>8

ThreadType == [at : {"idle", "store", "send", "exit", "done", "dead"},
               object : Objects \cup {NoObject}, version : 0 .. MaxVersion]

LEMMA DoingType ==
  ASSUME NEW step \in {"idle", "store", "send", "exit", "done", "dead"},
         NEW o \in Objects \cup {NoObject}, NEW v \in 0 .. MaxVersion
  PROVE  /\ Doing(step, o, v) \in ThreadType
         /\ Doing(step, o, v).at = step
         /\ Doing(step, o, v).object = o
         /\ Doing(step, o, v).version = v
BY DEF Doing, ThreadType

\* What a thread is at after an update of it was sent, or was not.
LEMMA ReturnsType ==
  ASSUME NEW t \in Threads, NEW fails \in BOOLEAN
  PROVE  /\ Returns(t, fails) \in ThreadType
         /\ Returns(t, fails).at \in {"idle", "exit", "dead"}
         /\ Returns(t, fails).at = "idle" \/ (t = "main" /\ ~isRun)
         /\ Returns(t, fails).at = "idle" => t = "loop" \/ isRun
         /\ fails => Returns(t, fails).at # "exit"
<1>1. 0 \in 0 .. MaxVersion BY BoundsAssumption
<1>2. CASE t = "main" /\ ~isRun BY <1>1, <1>2, DoingType DEF Returns
<1>3. CASE ~(t = "main" /\ ~isRun) BY <1>1, <1>3, DoingType DEF Returns, Idle, Threads
<1> QED BY <1>2, <1>3

LEMMA UpdateTypes ==
  ASSUME TypeOK, NEW o, NEW u \in Updates(o)
  PROVE  u.object = o /\ o \in Objects /\ u.version \in 0 .. MaxVersion
<1>1. u \in Update \/ u \in Answers
  BY ToSetType DEF TypeOK, Updates, Answers
<1> QED BY <1>1 DEF Updates, Update, Answers

LEMMA NextTypeOK ==
  ASSUME TypeOK, Steps, Next
  PROVE  TypeOK'
<1> USE BoundsAssumption
<1>1. ASSUME NEW o \in Objects, AddSaveEntity(o) PROVE TypeOK'
  BY <1>1 DEF AddSaveEntity, TypeOK, dbproxy, history, Updates
<1>2. ASSUME NEW o \in Objects, Visit(o) PROVE TypeOK'
  <2>1. Doing("store", o, 0) \in ThreadType
    <3>1. 0 \in 0 .. MaxVersion OBVIOUS
    <3> QED BY <3>1, DoingType
  <2>2. thread \in [Threads -> ThreadType] BY DEF TypeOK, ThreadType
  <2>3. thread' \in [Threads -> ThreadType] BY <1>2, <2>1, <2>2 DEF Visit
  <2> QED BY <1>2, <2>3 DEF Visit, TypeOK, ThreadType, dbproxy, history, Updates
<1>3. ASSUME NEW t \in Threads, NEW o \in Objects, Change(t, o) PROVE TypeOK'
  <2>1. data[o] + 1 \in 0 .. MaxVersion /\ changes' \in 0 .. MaxVersion
    BY <1>3 DEF Change, TypeOK, Steps
  <2>2. data' \in [Objects -> 0 .. MaxVersion] /\ \A p \in Objects : data[p] <= data'[p]
    BY <1>3, <2>1 DEF Change, TypeOK
  <2>3. \A p \in Objects : lastSent[p] <= data'[p]
    BY <2>2 DEF TypeOK
  <2> QED BY <1>3, <2>1, <2>2, <2>3 DEF Change, TypeOK, dbproxy, Updates
<1>4. ASSUME NEW t \in Threads, NEW o \in Objects, SaveEntity(t, o) PROVE TypeOK'
  <2>1. thread' \in [Threads -> ThreadType]
    BY <1>4, DoingType DEF SaveEntity, TypeOK, ThreadType
  <2> QED BY <1>4, <2>1 DEF SaveEntity, TypeOK, ThreadType, dbproxy, history, Updates
<1>5. ASSUME NEW t \in Threads, Store(t) PROVE TypeOK'
  <2>1. thread[t].object \in Objects /\ data[thread[t].object] \in 0 .. MaxVersion
    BY <1>5 DEF Store, Steps, TypeOK
  <2>2. thread' \in [Threads -> ThreadType]
    BY <1>5, <2>1, DoingType DEF Store, TypeOK, ThreadType
  <2>3. raced' \subseteq Objects BY <1>5, <2>1 DEF Store, TypeOK
  <2> QED BY <1>5, <2>2, <2>3 DEF Store, TypeOK, ThreadType, dbproxy, Updates
<1>6. ASSUME NEW t \in Threads, At(t, "send"), Push(t), NEW fails \in BOOLEAN,
             thread' = [thread EXCEPT ![t] = Returns(t, fails)],
             UNCHANGED <<saves, data, isDirty, isRun, left, queue, stored, answers, crashes,
                         changes, crossed, raced, late>>
      PROVE  TypeOK'
  <2>1. thread' \in [Threads -> ThreadType]
    BY <1>6, ReturnsType DEF TypeOK, ThreadType
  <2>2. \A o \in Objects : stored[o] <= lastSent'[o]
    <3>1. \A o \in Objects : lastSent[o] <= lastSent'[o] BY <1>6, PushChanges
    <3>2. lastSent' \in [Objects -> 0 .. MaxVersion] BY <1>6, PushChanges
    <3> QED BY <3>1, <3>2 DEF TypeOK
  <2>3. ASSUME NEW o \in Objects, NEW u \in Updates(o)' PROVE u.version <= lastSent'[o]
    <3>1. u = Sent(t) \/ u \in Updates(o) BY <1>6, <2>3, PushChanges DEF Updates
    <3>2. CASE u = Sent(t) BY <1>6, <2>3, <3>2, PushChanges DEF Updates
    <3>3. CASE u \in Updates(o)
      <4>1. u.version \in 0 .. MaxVersion /\ u.version <= lastSent[o]
        BY <3>3, UpdateTypes DEF TypeOK
      <4>2. lastSent[o] <= lastSent'[o] /\ lastSent'[o] \in 0 .. MaxVersion
        BY <1>6, PushChanges
      <4> QED BY <4>1, <4>2 DEF TypeOK
    <3> QED BY <3>1, <3>2, <3>3
  <2> QED BY <1>6, <2>1, <2>2, <2>3, PushChanges DEF TypeOK, ThreadType
<1>7. ASSUME NEW t \in Threads, Send(t) PROVE TypeOK'
  BY <1>6, <1>7 DEF Send
<1>8. ASSUME NEW t \in Threads, SendFails(t) PROVE TypeOK'
  <2>1. CASE Push(t) BY <1>6, <1>8, <2>1 DEF SendFails
  <2>2. CASE UNCHANGED <<channel, lastSent>>
    <3>1. thread' \in [Threads -> ThreadType]
      BY <1>8, ReturnsType DEF SendFails, TypeOK, ThreadType
    <3> QED BY <1>8, <2>2, <3>1 DEF SendFails, TypeOK, ThreadType, Updates
  <2> QED BY <1>8, <2>1, <2>2 DEF SendFails
<1>9. ASSUME Answer PROVE TypeOK'
  <2>1. /\ Head(answers) \in Answers /\ answers' \in Seq(Answers)
        /\ ToSet(answers') \subseteq ToSet(answers)
    BY <1>9, ToSetHeadTail DEF Answer, TypeOK, Answers
  <2>2. isDirty' \in [Objects -> BOOLEAN] /\ crossed' \subseteq Objects
    BY <1>9, <2>1 DEF Answer, TypeOK, Answers
  <2> QED BY <1>9, <2>1, <2>2 DEF Answer, TypeOK, Answers, Updates
<1>10. CASE Close
  <2>1. Cardinality(saves) \in 0 .. Cardinality(Objects)
    BY FS_Subset, FS_CardinalityType DEF TypeOK
  <2> QED BY <1>10, <2>1 DEF Close, TypeOK, dbproxy, history, Updates, Threads
<1>11. CASE VisitsEnd
  BY <1>11 DEF VisitsEnd, TypeOK, dbproxy, history, Updates, Threads
<1>12. CASE Receive
  <2>1. /\ Head(channel) \in Update /\ channel' \in Seq(Update)
        /\ ToSet(channel) = {Head(channel)} \cup ToSet(channel')
    BY <1>12, ToSetHeadTail DEF Receive, TypeOK
  <2>2. queue' \in Seq(Update) /\ ToSet(queue') = ToSet(queue) \cup {Head(channel)}
    BY <1>12, <2>1, ToSetAppend DEF Receive, TypeOK
  <2> QED BY <1>12, <2>1, <2>2 DEF Receive, TypeOK, hub, history, Updates
<1>13. ASSUME NEW writes \in BOOLEAN, NEW result \in BOOLEAN, Poll(writes, result)
       PROVE  TypeOK'
  <2> DEFINE u == Head(queue)
             a == [object |-> u.object, version |-> u.version, result |-> result]
  <2>1. u \in Update /\ queue' \in Seq(Update) /\ ToSet(queue) = {u} \cup ToSet(queue')
    BY <1>13, ToSetHeadTail DEF Poll, TypeOK
  <2>2. a \in Answers BY <2>1 DEF Update, Answers
  <2>3. answers' \in Seq(Answers) /\ ToSet(answers') = ToSet(answers) \cup {a}
    <3>1. answers \in Seq(Answers) /\ answers' = Append(answers, a)
      BY <1>13 DEF Poll, TypeOK, Answers
    <3> HIDE DEF a
    <3> QED BY <2>2, <3>1, ToSetAppend
  <2>4. u.version <= lastSent[u.object] BY <2>1 DEF TypeOK, Updates, Update
  <2>5. stored' \in [Objects -> 0 .. MaxVersion] /\ \A o \in Objects : stored'[o] <= lastSent[o]
    BY <1>13, <2>1, <2>4 DEF Poll, TypeOK, Update
  <2>6. \A o \in Objects : \A v \in Updates(o)' : v = a \/ v \in Updates(o)
    BY <1>13, <2>1, <2>3 DEF Updates, Poll
  <2>7. a.object = u.object /\ a.version = u.version OBVIOUS
  <2>8. \A o \in Objects : \A v \in Updates(o)' : v.version <= lastSent[o]
    BY <2>4, <2>6, <2>7 DEF TypeOK, Updates
  <2> HIDE DEF a
  <2> QED BY <1>13, <2>1, <2>3, <2>5, <2>8 DEF Poll, TypeOK, hub, history, Answers
<1>14. ASSUME NEW writes \in BOOLEAN, Crash(writes) PROVE TypeOK'
  <2>1. queue' = <<>> /\ ToSet(queue') = {} BY <1>14, ToSetEmpty DEF Crash
  <2>2. /\ stored' \in [Objects -> 0 .. MaxVersion]
        /\ \A o \in Objects : stored'[o] <= lastSent[o]
    <3>1. CASE writes /\ queue # <<>>
      <4>1. Head(queue) \in Update /\ Head(queue) \in ToSet(queue)
        BY <3>1, ToSetHeadTail DEF TypeOK
      <4>2. Head(queue).version <= lastSent[Head(queue).object]
        BY <4>1 DEF TypeOK, Updates, Update
      <4> QED BY <1>14, <3>1, <4>1, <4>2 DEF Crash, TypeOK, Update
    <3>2. CASE ~(writes /\ queue # <<>>) BY <1>14, <3>2 DEF Crash, TypeOK
    <3> QED BY <3>1, <3>2
  <2> QED BY <1>14, <2>1, <2>2 DEF Crash, TypeOK, hub, history, Updates
<1> QED BY <1>1, <1>2, <1>3, <1>4, <1>5, <1>7, <1>8, <1>9, <1>10, <1>11, <1>12, <1>13,
           <1>14 DEF Next

LEMMA NextSteps ==
  ASSUME TypeOK, Steps, Next
  PROVE  Steps'
<1> USE DEF Threads
<1>1. ASSUME NEW o \in Objects, AddSaveEntity(o) PROVE Steps'
  BY <1>1 DEF AddSaveEntity, Steps, TypeOK, Holds, At, history
<1>2. ASSUME NEW o \in Objects, Visit(o) PROVE Steps'
  BY <1>2, DoingType, BoundsAssumption DEF Visit, Steps, TypeOK, Holds, At, Doing, history
<1>3. ASSUME NEW t \in Threads, NEW o \in Objects, Change(t, o) PROVE Steps'
  <2>1. \A p \in Objects : /\ data'[p] = IF p = o THEN data[p] + 1 ELSE data[p]
                           /\ data[p] \in 0 .. MaxVersion /\ changes \in 0 .. MaxVersion
    BY <1>3 DEF Change, TypeOK
  <2>2. changes' = changes + 1 /\ saves' = saves /\ thread' = thread /\ o \in saves
    BY <1>3 DEF Change
  <2>3. \A u \in Threads : thread[u].version \in 0 .. MaxVersion BY DEF TypeOK
  <2> QED BY <2>1, <2>2, <2>3, BoundsAssumption DEF Steps, Holds, At
<1>4. ASSUME NEW t \in Threads, NEW o \in Objects, SaveEntity(t, o) PROVE Steps'
  BY <1>4, BoundsAssumption DEF SaveEntity, Steps, TypeOK, Holds, At, Doing, history
<1>5. ASSUME NEW t \in Threads, Store(t) PROVE Steps'
  <2>1. thread[t].object \in Objects BY <1>5 DEF Store, Steps
  <2> DEFINE o == thread[t].object
  <2>2. \A u \in Threads : thread'[u] = IF u = t THEN Doing("send", o, data[o]) ELSE thread[u]
    BY <1>5 DEF Store, TypeOK
  <2>3. data[o] \in Nat BY <2>1, BoundsAssumption DEF TypeOK
  <2>4. thread'[t].at = "send" /\ thread'[t].object = o /\ thread'[t].version = data[o]
    BY <2>2 DEF Doing
  <2>5. UNCHANGED <<saves, data, changes>> /\ At(t, "store") BY <1>5 DEF Store
  <2> HIDE DEF o
  <2> QED BY <2>1, <2>2, <2>3, <2>4, <2>5 DEF Steps, Holds, At, o
<1>6. ASSUME NEW t \in Threads, NEW fails \in BOOLEAN,
             thread' = [thread EXCEPT ![t] = Returns(t, fails)],
             UNCHANGED <<saves, data, changes>>
      PROVE  Steps'
  <2>1. \A u \in Threads : thread'[u] = IF u = t THEN Returns(t, fails) ELSE thread[u]
    BY <1>6 DEF TypeOK
  <2>2. ASSUME NEW step \in {"store", "send"} PROVE ~At(t, step)'
    BY <2>1, ReturnsType DEF At
  <2>3. t = "loop" => At(t, "idle")' BY <2>1, ReturnsType DEF At
  <2> QED BY <1>6, <2>1, <2>2, <2>3 DEF Steps, Holds, At
<1>7. ASSUME NEW t \in Threads, Send(t) \/ SendFails(t) PROVE Steps'
  BY <1>6, <1>7 DEF Send, SendFails
<1>8. CASE Answer
  BY <1>8 DEF Answer, Steps, TypeOK, Holds, At
<1>9. CASE Close
  BY <1>9 DEF Close, Steps, TypeOK, Holds, At, history
<1>10. CASE VisitsEnd
  BY <1>10 DEF VisitsEnd, Steps, TypeOK, Holds, At, history
<1>11. CASE UNCHANGED <<hub, history>>
  BY <1>11 DEF Steps, Holds, At, hub, history
<1> QED BY <1>1, <1>2, <1>3, <1>4, <1>5, <1>7, <1>8, <1>9, <1>10, <1>11
        DEF Next, Receive, Poll, Crash

LEMMA TypeInvariant == Spec => [](TypeOK /\ Steps)
<1>1. TypeOK /\ Steps /\ [Next]_vars => (TypeOK /\ Steps)'
  <2>1. ASSUME TypeOK, Steps, UNCHANGED vars PROVE TypeOK' /\ Steps'
    BY <2>1 DEF vars, hub, dbproxy, history, TypeOK, Steps, Updates, Holds, At
  <2> QED BY <2>1, NextTypeOK, NextSteps
<1> QED BY <1>1, InitType, PTL DEF Spec

\* Whatever fails or crashes, threads, messages and the database have the types
\* they should have, and no version is sent before an object holds it or stored
\* before it is sent.
THEOREM SavesTypeCorrect == Spec => []TypeOK
BY TypeInvariant, PTL

-----------------------------------------------------------------------------
(* Updates are in order.                                                   *)

\* The updates of an object rise from the database to the channel.
RisesOnItsWay(o) ==
  /\ Rising(channel, o) /\ Rising(queue, o)
  /\ \A u \in ToSet(queue), v \in ToSet(channel) :
       u.object = o /\ v.object = o => u.version <= v.version
  /\ \A u \in ToSet(queue) \cup ToSet(channel) : u.object = o => stored[o] <= u.version

\* One thread at a time holds a copy of it, which is no older than what was sent.
HeldIsNewest(o) ==
  \A t \in Threads : Holds(t, o) =>
    lastSent[o] <= thread[t].version /\ \A u \in Threads \ {t} : ~Holds(u, o)

SentInOrder == \A o \in Objects \ raced : RisesOnItsWay(o) /\ HeldIsNewest(o)

\* What the steps that send, receive and store nothing have in common.
LEMMA FrameInOrder ==
  ASSUME SentInOrder, UNCHANGED <<channel, queue, stored, lastSent, raced>>,
         \A t \in Threads, o \in Objects :
           Holds(t, o)' => Holds(t, o) /\ thread'[t].version = thread[t].version
  PROVE  SentInOrder'
<1>1. ASSUME NEW o \in Objects \ raced, RisesOnItsWay(o) PROVE RisesOnItsWay(o)'
  BY <1>1 DEF RisesOnItsWay, Rising
<1>2. ASSUME NEW o \in Objects \ raced, HeldIsNewest(o) PROVE HeldIsNewest(o)'
  BY <1>2 DEF HeldIsNewest
<1> QED BY <1>1, <1>2 DEF SentInOrder

LEMMA SeqTypes ==
  ASSUME TypeOK
  PROVE  /\ channel \in Seq(Update) /\ queue \in Seq(Update) /\ answers \in Seq(Answers)
         /\ \A u \in ToSet(channel) \cup ToSet(queue) \cup ToSet(answers) :
              u.object \in Objects /\ u.version \in Nat /\ u.version <= lastSent[u.object]
         /\ \A o \in Objects : /\ stored[o] \in Nat /\ lastSent[o] \in Nat /\ data[o] \in Nat
                               /\ stored[o] <= lastSent[o] /\ lastSent[o] <= data[o]
<1>1. channel \in Seq(Update) /\ queue \in Seq(Update) /\ answers \in Seq(Answers)
  BY DEF TypeOK, Answers
<1>2. ASSUME NEW u \in ToSet(channel) \cup ToSet(queue) \cup ToSet(answers)
      PROVE  u.object \in Objects /\ u.version \in Nat /\ u.version <= lastSent[u.object]
  <2>1. u \in Update \/ u \in Answers BY <1>1, ToSetType
  <2>2. u.object \in Objects BY <2>1 DEF Update, Answers
  <2>3. u \in Updates(u.object) BY DEF Updates
  <2> QED BY <2>2, <2>3, UpdateTypes, BoundsAssumption DEF TypeOK
<1>3. \A o \in Objects : /\ stored[o] \in Nat /\ lastSent[o] \in Nat /\ data[o] \in Nat
                         /\ stored[o] <= lastSent[o] /\ lastSent[o] <= data[o]
  BY BoundsAssumption DEF TypeOK
<1> QED BY <1>1, <1>2, <1>3

LEMMA StoreInOrder ==
  ASSUME TypeOK, Steps, SentInOrder, NEW t \in Threads, Store(t)
  PROVE  SentInOrder'
<1> DEFINE c == thread[t].object
<1>1. c \in Objects /\ At(t, "store") BY DEF Store, Steps
<1>2. \A u \in Threads : thread'[u] = IF u = t THEN Doing("send", c, data[c]) ELSE thread[u]
  BY DEF Store, TypeOK
<1>3. /\ \A u \in Threads \ {t}, o \in Objects : Holds(u, o)' <=> Holds(u, o)
      /\ \A o \in Objects : ~Holds(t, o) /\ (Holds(t, o)' <=> o = c)
      /\ thread'[t].version = data[c]
  BY <1>1, <1>2 DEF Holds, At, Doing
<1>4. raced' = IF \E u \in Threads : Holds(u, c) THEN raced \cup {c} ELSE raced
  BY DEF Store
<1>5. UNCHANGED <<channel, queue, stored, lastSent>> BY DEF Store, dbproxy
<1>6. ASSUME NEW o \in Objects \ raced' PROVE RisesOnItsWay(o)' /\ HeldIsNewest(o)'
  <2>1. o \in Objects \ raced BY <1>4
  <2>2. RisesOnItsWay(o)' BY <1>5, <2>1 DEF SentInOrder, RisesOnItsWay, Rising
  <2>3. CASE o # c
    BY <1>2, <1>3, <1>5, <2>1, <2>2, <2>3 DEF SentInOrder, HeldIsNewest
  <2>4. CASE o = c
    <3>1. \A u \in Threads \ {t} : ~Holds(u, o)' BY <1>3, <1>4, <2>4
    <3>2. lastSent'[o] <= thread'[t].version BY <1>3, <1>5, <2>4, SeqTypes
    <3> QED BY <2>2, <3>1, <3>2 DEF HeldIsNewest
  <2> QED BY <2>3, <2>4
<1> QED BY <1>6 DEF SentInOrder

LEMMA PushInOrder ==
  ASSUME TypeOK, Steps, SentInOrder, NEW t \in Threads, At(t, "send"), Push(t),
         NEW fails \in BOOLEAN, thread' = [thread EXCEPT ![t] = Returns(t, fails)],
         UNCHANGED <<queue, stored, raced>>
  PROVE  SentInOrder'
<1> DEFINE m == Sent(t)
           c == m.object
<1>1. /\ m \in Update /\ c \in Objects /\ Holds(t, c) /\ m.version = thread[t].version
      /\ channel' = Append(channel, m) /\ ToSet(channel') = ToSet(channel) \cup {m}
      /\ \A o \in Objects \ {c} : lastSent'[o] = lastSent[o]
  BY PushChanges DEF Update, Sent
<1>2. /\ \A u \in Threads \ {t} : thread'[u] = thread[u]
      /\ \A u \in Threads \ {t}, o \in Objects : Holds(u, o)' <=> Holds(u, o)
      /\ \A o \in Objects : ~Holds(t, o)'
  BY ReturnsType DEF TypeOK, Holds, At
<1> HIDE DEF m
<1>3. ASSUME NEW o \in Objects \ raced PROVE RisesOnItsWay(o)' /\ HeldIsNewest(o)'
  <2>1. RisesOnItsWay(o) /\ HeldIsNewest(o) BY DEF SentInOrder
  <2>2. ASSUME o = c PROVE lastSent[o] <= m.version
    BY <1>1, <2>1, <2>2 DEF HeldIsNewest
  <2>3. m.version \in Nat BY <1>1, BoundsAssumption DEF Update
  <2>4. ASSUME NEW u \in ToSet(queue) \cup ToSet(channel), u.object = o, m.object = o
        PROVE  u.version <= m.version
    BY <2>2, <2>3, <2>4, SeqTypes
  <2>5. ASSUME o = c PROVE stored[o] <= m.version
    BY <2>2, <2>3, <2>5, SeqTypes
  <2>6. Rising(channel', o)
    BY <1>1, <2>1, <2>4, RisingAppend, SeqTypes DEF RisesOnItsWay
  <2>7. RisesOnItsWay(o)'
    BY <1>1, <2>1, <2>4, <2>5, <2>6 DEF RisesOnItsWay, Rising
  <2>8. HeldIsNewest(o)'
    <3>1. CASE o = c
      BY <1>1, <1>2, <2>1, <3>1 DEF HeldIsNewest
    <3>2. CASE o # c
      BY <1>1, <1>2, <2>1, <3>2 DEF HeldIsNewest
    <3> QED BY <3>1, <3>2
  <2> QED BY <2>7, <2>8
<1> QED BY <1>3 DEF SentInOrder

LEMMA ReceiveInOrder ==
  ASSUME TypeOK, SentInOrder, Receive
  PROVE  SentInOrder'
<1> DEFINE m == Head(channel)
<1>1. /\ m \in Update /\ ToSet(channel) = {m} \cup ToSet(channel')
      /\ channel' = Tail(channel) /\ channel # <<>>
  BY ToSetHeadTail, SeqTypes DEF Receive
<1>2. queue' = Append(queue, m) /\ ToSet(queue') = ToSet(queue) \cup {m}
  BY <1>1, ToSetAppend, SeqTypes DEF Receive
<1>3. UNCHANGED <<stored, thread, lastSent, raced>> BY DEF Receive, hub, history
<1> HIDE DEF m
<1>4. ASSUME NEW o \in Objects \ raced PROVE RisesOnItsWay(o)' /\ HeldIsNewest(o)'
  <2>1. RisesOnItsWay(o) /\ HeldIsNewest(o) BY DEF SentInOrder
  <2>2. Rising(queue', o)
    BY <1>1, <1>2, <2>1, RisingAppend, SeqTypes DEF RisesOnItsWay
  <2>3. /\ Rising(channel', o)
        /\ m.object = o => \A u \in ToSet(channel') : u.object = o => m.version <= u.version
    BY <1>1, <2>1, RisingTail, SeqTypes DEF RisesOnItsWay, m
  <2>4. RisesOnItsWay(o)'
    BY <1>1, <1>2, <1>3, <2>1, <2>2, <2>3 DEF RisesOnItsWay
  <2>5. HeldIsNewest(o)' BY <1>3, <2>1 DEF HeldIsNewest, Holds, At
  <2> QED BY <2>4, <2>5
<1> QED BY <1>3, <1>4 DEF SentInOrder

\* MongoDB stores the first update of the queue, or keeps what it has.
LEMMA WriteInOrder ==
  ASSUME TypeOK, SentInOrder, queue # <<>>,
         NEW writes \in BOOLEAN,
         stored' = IF writes THEN [stored EXCEPT ![Head(queue).object] = Head(queue).version]
                   ELSE stored,
         UNCHANGED <<channel, thread, lastSent, raced>>,
         queue' = Tail(queue) \/ queue' = <<>>
  PROVE  /\ SentInOrder'
         /\ \A o \in Objects \ raced : stored'[o] >= stored[o]
<1> DEFINE m == Head(queue)
<1>1. m \in Update /\ ToSet(queue) = {m} \cup ToSet(Tail(queue)) /\ m.object \in Objects
  BY ToSetHeadTail, SeqTypes DEF Update
<1>2. \A o \in Objects : stored'[o] = IF writes /\ o = m.object THEN m.version ELSE stored[o]
  BY <1>1 DEF TypeOK
<1> HIDE DEF m
<1>3. ASSUME NEW o \in Objects \ raced
      PROVE  RisesOnItsWay(o)' /\ HeldIsNewest(o)' /\ stored'[o] >= stored[o]
  <2>1. RisesOnItsWay(o) /\ HeldIsNewest(o) BY DEF SentInOrder
  <2>2. /\ Rising(Tail(queue), o)
        /\ m.object = o => \A u \in ToSet(Tail(queue)) : u.object = o => m.version <= u.version
    BY <2>1, RisingTail, SeqTypes DEF RisesOnItsWay, m
  <2>3. ToSet(queue') \subseteq ToSet(Tail(queue)) /\ Rising(queue', o)
    <3>1. CASE queue' = Tail(queue) BY <2>2, <3>1
    <3>2. CASE queue' = <<>>
      <4>1. DOMAIN queue' = {} BY <3>2
      <4>2. Rising(queue', o) BY <4>1 DEF Rising
      <4> QED BY <3>2, <4>2, ToSetEmpty
    <3> QED BY <3>1, <3>2
  <2>4. \A u \in ToSet(queue') \cup ToSet(channel) : u.object = o => stored'[o] <= u.version
    <3>1. ToSet(queue') \subseteq ToSet(queue) BY <1>1, <2>3
    <3>2. CASE writes /\ o = m.object
      BY <1>1, <1>2, <2>1, <2>2, <2>3, <3>2 DEF RisesOnItsWay
    <3>3. CASE ~(writes /\ o = m.object)
      BY <1>2, <2>1, <3>1, <3>3 DEF RisesOnItsWay
    <3> QED BY <3>2, <3>3
  <2>5. RisesOnItsWay(o)'
    BY <1>1, <2>1, <2>3, <2>4 DEF RisesOnItsWay, Rising
  <2>6. HeldIsNewest(o)' BY <2>1 DEF HeldIsNewest, Holds, At
  <2>7. stored'[o] >= stored[o]
    <3>1. stored[o] \in Nat /\ m.version \in Nat BY <1>1, SeqTypes
    <3> QED BY <1>1, <1>2, <2>1, <3>1 DEF RisesOnItsWay
  <2> QED BY <2>5, <2>6, <2>7
<1> QED BY <1>3 DEF SentInOrder

LEMMA NextInOrder ==
  ASSUME TypeOK, Steps, SentInOrder, [Next]_vars
  PROVE  SentInOrder' /\ \A o \in Objects \ raced : stored'[o] >= stored[o]
<1> USE DEF Threads
<1> DEFINE Goal == SentInOrder' /\ \A o \in Objects \ raced : stored'[o] >= stored[o]
<1>1. ASSUME UNCHANGED stored, SentInOrder' PROVE Goal
  BY <1>1, SeqTypes
<1>2. ASSUME UNCHANGED <<channel, queue, stored, lastSent, raced>>,
             \A t \in Threads : thread'[t].at = "send" => thread'[t] = thread[t]
      PROVE  Goal
  <2>1. \A t \in Threads, o \in Objects :
          Holds(t, o)' => Holds(t, o) /\ thread'[t].version = thread[t].version
    BY <1>2 DEF Holds, At
  <2> QED BY <1>1, <1>2, <2>1, FrameInOrder
<1> SUFFICES Goal OBVIOUS
<1> HIDE DEF Goal
<1>3. ASSUME NEW o \in Objects, AddSaveEntity(o) PROVE Goal
  BY <1>2, <1>3 DEF AddSaveEntity, dbproxy, history
<1>4. ASSUME NEW o \in Objects, Visit(o) PROVE Goal
  <2>1. \A t \in Threads : thread'[t] = thread[t] \/ thread'[t] = Doing("store", o, 0)
    BY <1>4 DEF Visit, TypeOK
  <2> QED BY <1>2, <1>4, <2>1 DEF Visit, dbproxy, history, Doing
<1>5. ASSUME NEW t \in Threads, NEW o \in Objects, Change(t, o) PROVE Goal
  BY <1>2, <1>5 DEF Change, dbproxy
<1>6. ASSUME NEW t \in Threads, NEW o \in Objects, SaveEntity(t, o) PROVE Goal
  <2>1. \A u \in Threads : thread'[u] = thread[u] \/ thread'[u] = Doing("store", o, 0)
    BY <1>6 DEF SaveEntity, TypeOK
  <2> QED BY <1>2, <1>6, <2>1 DEF SaveEntity, dbproxy, history, Doing
<1>7. ASSUME NEW t \in Threads, Store(t) PROVE Goal
  BY <1>1, <1>7, StoreInOrder DEF Store, dbproxy
<1>8. ASSUME NEW t \in Threads, Send(t) \/ SendFails(t) PROVE Goal
  <2>1. PICK fails \in BOOLEAN : thread' = [thread EXCEPT ![t] = Returns(t, fails)]
    BY <1>8 DEF Send, SendFails
  <2>2. CASE Push(t)
    BY <1>1, <1>8, <2>1, <2>2, PushInOrder DEF Send, SendFails
  <2>3. CASE UNCHANGED <<channel, lastSent>>
    <3>1. \A u \in Threads : u # t => thread'[u] = thread[u]
      BY <2>1 DEF TypeOK
    <3>2. thread'[t].at # "send" BY <2>1, ReturnsType DEF TypeOK
    <3> QED BY <1>2, <1>8, <2>3, <3>1, <3>2 DEF Send, SendFails
  <2> QED BY <1>8, <2>2, <2>3 DEF Send, SendFails
<1>9. CASE Answer
  BY <1>2, <1>9 DEF Answer
<1>10. CASE Close
  <2>1. \A t \in Threads : thread'[t] = thread[t] \/ thread'[t].at = "exit"
    BY <1>10 DEF Close, TypeOK
  <2> QED BY <1>2, <1>10, <2>1 DEF Close, dbproxy, history
<1>11. CASE VisitsEnd
  <2>1. \A t \in Threads : thread'[t] = thread[t] \/ thread'[t].at \in {"done", "dead"}
    BY <1>11 DEF VisitsEnd, TypeOK
  <2> QED BY <1>2, <1>11, <2>1 DEF VisitsEnd, dbproxy, history
<1>12. CASE Receive
  BY <1>1, <1>12, ReceiveInOrder DEF Receive
<1>13. ASSUME NEW writes \in BOOLEAN, NEW result \in BOOLEAN, Poll(writes, result) PROVE Goal
  BY <1>13, WriteInOrder DEF Poll, hub, history, Goal
<1>14. ASSUME NEW writes \in BOOLEAN, Crash(writes) PROVE Goal
  <2>1. CASE queue = <<>>
    <3>1. queue' = queue /\ stored' = stored BY <1>14, <2>1 DEF Crash
    <3> QED BY <1>2, <1>14, <3>1 DEF Crash, hub, history
  <2>2. CASE queue # <<>>
    BY <1>14, <2>2, WriteInOrder DEF Crash, hub, history, Goal
  <2> QED BY <2>1, <2>2
<1>15. CASE UNCHANGED vars
  BY <1>2, <1>15 DEF vars, hub, dbproxy, history
<1> QED
  BY <1>3, <1>4, <1>5, <1>6, <1>7, <1>8, <1>9, <1>10, <1>11, <1>12, <1>13, <1>14, <1>15
  DEF Next

LEMMA InitInOrder == Init => SentInOrder
<1> SUFFICES ASSUME Init PROVE SentInOrder OBVIOUS
<1>1. \A o \in Objects : Rising(channel, o) /\ Rising(queue, o)
  BY DEF Init, Rising
<1> QED BY <1>1, ToSetEmpty DEF Init, SentInOrder, RisesOnItsWay, HeldIsNewest, Holds, At,
     Idle, Doing

\* The updates of an object are in the order of their versions all along their
\* way, unless two threads saved it at the same time.
THEOREM UpdatesStayInOrder == Spec => []SentInOrder
<1>1. TypeOK /\ Steps /\ SentInOrder /\ [Next]_vars => SentInOrder' BY NextInOrder
<1> QED BY <1>1, InitInOrder, TypeInvariant, PTL DEF Spec

\* So MongoDB never goes back to an older version of an object, whatever is
\* lost, fails or crashes on the way, unless two threads saved the object at the
\* same time.
THEOREM DatabaseNeverGoesBack == Spec => NeverGoesBack
<1>1. TypeOK /\ Steps /\ SentInOrder /\ [Next]_vars
        => [\A o \in Objects \ raced : stored'[o] >= stored[o]]_vars
  BY NextInOrder
<1> QED BY <1>1, TypeInvariant, UpdatesStayInOrder, PTL DEF Spec, NeverGoesBack

-----------------------------------------------------------------------------
(* What counts as clean is stored.                                         *)

\* An object that did not change while an update of it was under way: all that
\* is under way is what it holds, and if it counts as clean that was sent.
UnderWayIsCurrent(o) ==
  /\ \A u \in Updates(o) : u.version = data[o]
  /\ \A t \in Threads : Holds(t, o) => thread[t].version = data[o]
  /\ ~isDirty[o] => lastSent[o] = data[o]

\* An answer that says so is right: this version or a newer one is stored.
AnsweredIsStored(o) ==
  \A a \in ToSet(answers) : a.object = o /\ a.result => a.version <= stored[o]

Current(o) ==
  /\ o \notin crossed => UnderWayIsCurrent(o)
  /\ o \notin raced => AnsweredIsStored(o)
  /\ o \notin crossed \cup raced => (~isDirty[o] => stored[o] = data[o])

AllCurrent == \A o \in Objects : Current(o)

\* What the steps that neither change an object nor store or answer anything
\* have in common.
LEMMA FrameCurrent ==
  ASSUME NEW o \in Objects, Current(o), raced \subseteq raced',
         UNCHANGED <<data, isDirty, stored, lastSent, answers, crossed>>,
         Updates(o)' \subseteq Updates(o),
         \A t \in Threads : Holds(t, o)' => thread'[t].version = data[o] \/ (Holds(t, o) /\ thread'[t] = thread[t])
  PROVE  Current(o)'
<1>1. AnsweredIsStored(o) => AnsweredIsStored(o)' BY DEF AnsweredIsStored
<1>2. UnderWayIsCurrent(o) => UnderWayIsCurrent(o)' BY DEF UnderWayIsCurrent
<1> QED BY <1>1, <1>2 DEF Current

LEMMA ChangeCurrent ==
  ASSUME TypeOK, AllCurrent, NEW t \in Threads, NEW c \in Objects, Change(t, c)
  PROVE  AllCurrent'
<1>1. /\ data' = [data EXCEPT ![c] = @ + 1] /\ isDirty' = [isDirty EXCEPT ![c] = TRUE]
      /\ crossed' = IF UnderWay(c) THEN crossed \cup {c} ELSE crossed
      /\ UNCHANGED <<thread, channel, queue, answers, stored, lastSent, raced>>
  BY DEF Change, dbproxy
<1>2. \A o \in Objects : Updates(o)' = Updates(o) /\ \A u \in Threads : Holds(u, o)' <=> Holds(u, o)
  BY <1>1 DEF Updates, Holds, At
<1>3. ASSUME NEW o \in Objects PROVE Current(o)'
  <2>1. Current(o) BY DEF AllCurrent
  <2>2. AnsweredIsStored(o) => AnsweredIsStored(o)' BY <1>1 DEF AnsweredIsStored
  <2>3. CASE o = c
    <3>1. isDirty'[o] BY <1>1, <2>3 DEF TypeOK
    <3>2. o \notin crossed' => Updates(o) = {} /\ \A u \in Threads : ~Holds(u, o)
      BY <1>1, <2>3 DEF UnderWay
    <3>3. o \notin crossed' => UnderWayIsCurrent(o)' BY <1>2, <3>1, <3>2 DEF UnderWayIsCurrent
    <3> QED BY <1>1, <2>1, <2>2, <3>1, <3>3 DEF Current
  <2>4. CASE o # c
    <3>1. data'[o] = data[o] /\ isDirty'[o] = isDirty[o] BY <1>1, <2>4 DEF TypeOK
    <3>2. o \notin crossed' => o \notin crossed BY <1>1
    <3>3. UnderWayIsCurrent(o) => UnderWayIsCurrent(o)'
      BY <1>1, <1>2, <3>1 DEF UnderWayIsCurrent
    <3> QED BY <1>1, <2>1, <2>2, <3>1, <3>2, <3>3 DEF Current
  <2> QED BY <2>3, <2>4
<1> QED BY <1>3 DEF AllCurrent

LEMMA PushCurrent ==
  ASSUME TypeOK, Steps, AllCurrent, NEW t \in Threads, At(t, "send"), Push(t),
         NEW fails \in BOOLEAN, thread' = [thread EXCEPT ![t] = Returns(t, fails)],
         UNCHANGED <<data, isDirty, queue, stored, answers, crossed, raced>>
  PROVE  AllCurrent'
<1> DEFINE m == Sent(t)
<1>1. /\ Holds(t, m.object) /\ m.version = thread[t].version
      /\ ToSet(channel') = ToSet(channel) \cup {m}
      /\ \A o \in Objects : lastSent[o] <= lastSent'[o] /\ lastSent'[o] <= data[o]
      /\ lastSent' \in [Objects -> 0 .. MaxVersion]
  BY PushChanges DEF Sent
<1>2. \A u \in Threads, o \in Objects : Holds(u, o)' => u # t /\ Holds(u, o) /\ thread'[u] = thread[u]
  BY ReturnsType DEF TypeOK, Holds, At
<1> HIDE DEF m
<1>3. ASSUME NEW o \in Objects PROVE Current(o)'
  <2>1. Current(o) BY DEF AllCurrent
  <2>2. AnsweredIsStored(o) => AnsweredIsStored(o)' BY DEF AnsweredIsStored
  <2>3. Updates(o)' \subseteq Updates(o) \cup {m} /\ (m \in Updates(o)' => m.object = o)
    BY <1>1 DEF Updates
  <2>4. lastSent[o] \in Nat /\ lastSent'[o] \in Nat /\ data[o] \in Nat
    BY <1>1, SeqTypes, BoundsAssumption
  <2>5. ASSUME UnderWayIsCurrent(o) PROVE UnderWayIsCurrent(o)'
    <3>1. \A u \in Updates(o)' : u.version = data[o]
      BY <1>1, <2>3, <2>5 DEF UnderWayIsCurrent
    <3>2. \A u \in Threads : Holds(u, o)' => thread'[u].version = data[o]
      BY <1>2, <2>5 DEF UnderWayIsCurrent
    <3>3. ~isDirty[o] => lastSent'[o] = data[o]
      BY <1>1, <2>4, <2>5 DEF UnderWayIsCurrent
    <3> QED BY <3>1, <3>2, <3>3 DEF UnderWayIsCurrent
  <2> QED BY <2>1, <2>2, <2>5 DEF Current
<1> QED BY <1>3 DEF AllCurrent

LEMMA AnswerCurrent ==
  ASSUME TypeOK, AllCurrent, Answer
  PROVE  AllCurrent'
<1> DEFINE a == Head(answers)
           c == a.object
           others == ToSet(channel) \cup ToSet(queue) \cup ToSet(answers')
<1>1. /\ a \in Answers /\ c \in Objects /\ ToSet(answers) = {a} \cup ToSet(answers')
      /\ a.result \in BOOLEAN
  <2>1. answers \in Seq(Answers) /\ answers # <<>> /\ answers' = Tail(answers)
    BY SeqTypes DEF Answer
  <2>2. a \in Answers /\ ToSet(answers) = {a} \cup ToSet(answers') BY <2>1, ToSetHeadTail
  <2> QED BY <2>2 DEF Answers
<1>2. /\ isDirty' = [isDirty EXCEPT ![c] = @ /\ ~a.result]
      /\ \/ crossed' = crossed
         \/ /\ crossed' = crossed \ {c}
            /\ a.result /\ a.version = data[c]
            /\ \A u \in others : u.object # c
            /\ \A t \in Threads : ~Holds(t, c)
      /\ UNCHANGED <<data, thread, channel, queue, stored, lastSent, raced>>
  <2>1. answers' = Tail(answers) BY DEF Answer
  <2>2. /\ isDirty' = [isDirty EXCEPT ![c] = @ /\ ~a.result]
        /\ UNCHANGED <<data, thread, channel, queue, stored, lastSent, raced>>
    BY DEF Answer
  <2>3. crossed' = IF /\ a.result /\ a.version = data[c]
                      /\ \A u \in others : u.object # c
                      /\ \A t \in Threads : ~Holds(t, c)
                   THEN crossed \ {c} ELSE crossed
    BY <2>1 DEF Answer
  <2> QED BY <2>2, <2>3
<1> HIDE DEF a
<1>3. ASSUME NEW o \in Objects PROVE Current(o)'
  <2>1. Current(o) BY DEF AllCurrent
  <2>2. AnsweredIsStored(o) => AnsweredIsStored(o)' BY <1>1, <1>2 DEF AnsweredIsStored
  <2>3. Updates(o)' \subseteq Updates(o) /\ (o = c => a \in Updates(o))
    BY <1>1, <1>2 DEF Updates
  <2>4. \A t \in Threads : Holds(t, o)' <=> Holds(t, o) BY <1>2 DEF Holds, At
  <2>5. CASE o # c
    <3>1. isDirty'[o] = isDirty[o] /\ (o \in crossed' <=> o \in crossed)
      BY <1>2, <2>5 DEF TypeOK
    <3>2. UnderWayIsCurrent(o) => UnderWayIsCurrent(o)'
      BY <1>2, <2>3, <2>4, <3>1 DEF UnderWayIsCurrent
    <3> QED BY <1>2, <2>1, <2>2, <3>1, <3>2 DEF Current
  <2>6. CASE o = c
    <3>1. isDirty'[o] = (isDirty[o] /\ ~a.result) BY <1>2, <2>6 DEF TypeOK
    <3>2. /\ a.version <= lastSent[o] /\ lastSent[o] <= data[o] /\ stored[o] <= data[o]
          /\ a.version \in Nat /\ lastSent[o] \in Nat /\ data[o] \in Nat /\ stored[o] \in Nat
      BY <1>1, <2>6, SeqTypes
    <3>3. CASE o \in crossed /\ o \notin crossed'
      <4>1. a.result /\ a.version = data[o] /\ Updates(o)' = {} /\ \A t \in Threads : ~Holds(t, o)
        BY <1>2, <2>6, <3>3 DEF Updates
      <4>2. UnderWayIsCurrent(o)'
        BY <1>2, <2>4, <3>2, <4>1 DEF UnderWayIsCurrent
      <4>3. o \notin raced => stored[o] = data[o]
        BY <1>1, <2>1, <2>6, <3>2, <4>1 DEF Current, AnsweredIsStored
      <4> QED BY <1>2, <2>1, <2>2, <4>2, <4>3 DEF Current
    <3>4. CASE o \notin crossed
      <4>1. UnderWayIsCurrent(o) /\ a.version = data[o]
        BY <2>1, <2>3, <2>6, <3>4 DEF Current, UnderWayIsCurrent
      <4>2. UnderWayIsCurrent(o)'
        BY <1>2, <2>3, <2>4, <3>1, <3>2, <4>1 DEF UnderWayIsCurrent
      <4>3. o \notin raced /\ a.result => stored[o] = data[o]
        BY <1>1, <2>1, <2>6, <3>2, <4>1 DEF Current, AnsweredIsStored
      <4> QED BY <1>2, <2>1, <2>2, <3>1, <3>4, <4>2, <4>3 DEF Current
    <3>5. CASE o \in crossed /\ o \in crossed'
      BY <1>2, <2>1, <2>2, <3>5 DEF Current
    <3> QED BY <3>3, <3>4, <3>5
  <2> QED BY <2>5, <2>6
<1> QED BY <1>3 DEF AllCurrent

\* MongoDB stores the first update of the queue or keeps what it has, and the
\* answer says so; or the dbproxy crashes, and there is no answer.
LEMMA WriteCurrent ==
  ASSUME TypeOK, SentInOrder, AllCurrent, queue # <<>>,
         NEW writes \in BOOLEAN, NEW result \in BOOLEAN, result => writes,
         stored' = IF writes THEN [stored EXCEPT ![Head(queue).object] = Head(queue).version]
                   ELSE stored,
         \/ /\ queue' = Tail(queue)
            /\ answers' = Append(answers, [object |-> Head(queue).object,
                                 version |-> Head(queue).version, result |-> result])
         \/ queue' = <<>> /\ answers' = answers,
         UNCHANGED <<data, isDirty, thread, channel, lastSent, crossed, raced>>
  PROVE  AllCurrent'
<1> DEFINE m == Head(queue)
           a == [object |-> m.object, version |-> m.version, result |-> result]
<1>1. /\ m \in Update /\ ToSet(queue) = {m} \cup ToSet(Tail(queue)) /\ m.object \in Objects
      /\ m.version \in Nat
  BY ToSetHeadTail, SeqTypes, BoundsAssumption DEF Update
<1>2. \A o \in Objects : stored'[o] = IF writes /\ o = m.object THEN m.version ELSE stored[o]
  BY <1>1 DEF TypeOK
<1>3. a \in Answers /\ a.object = m.object /\ a.version = m.version /\ a.result = result
  BY <1>1 DEF Answers, Update
<1> HIDE DEF a
<1>4. ToSet(answers') \subseteq ToSet(answers) \cup {a}
  <2>1. answers \in Seq(Answers) /\ (answers' = answers \/ answers' = Append(answers, a))
    BY SeqTypes DEF a
  <2>2. ToSet(Append(answers, a)) = ToSet(answers) \cup {a} BY <1>3, <2>1, ToSetAppend
  <2>3. CASE answers' = answers BY <2>3
  <2>4. CASE answers' = Append(answers, a) BY <2>2, <2>4
  <2> QED BY <2>1, <2>3, <2>4
<1>5. ToSet(queue') \subseteq ToSet(queue) BY <1>1, ToSetEmpty
<1>6. \A o \in Objects \ raced : stored'[o] >= stored[o] BY WriteInOrder
<1> HIDE DEF m
<1>7. ASSUME NEW o \in Objects PROVE Current(o)'
  <2>1. Current(o) BY DEF AllCurrent
  <2>2. \A u \in Updates(o)' : u \in Updates(o) \/ (u = a /\ m \in Updates(o))
    BY <1>1, <1>3, <1>4, <1>5 DEF Updates
  <2>3. \A t \in Threads : Holds(t, o)' <=> Holds(t, o) BY DEF Holds, At
  <2>4. ASSUME UnderWayIsCurrent(o) PROVE UnderWayIsCurrent(o)'
    BY <1>3, <2>2, <2>3, <2>4 DEF UnderWayIsCurrent
  <2>5. ASSUME o \notin raced, AnsweredIsStored(o) PROVE AnsweredIsStored(o)'
    <3> SUFFICES ASSUME NEW b \in ToSet(answers'), b.object = o, b.result
                 PROVE  b.version <= stored'[o]
      BY DEF AnsweredIsStored
    <3>1. CASE b \in ToSet(answers)
      <4>1. b.version <= stored[o] /\ stored[o] <= stored'[o]
        BY <1>6, <2>5, <3>1 DEF AnsweredIsStored
      <4>2. b.version \in Nat /\ stored[o] \in Nat /\ stored'[o] \in Nat
        BY <1>1, <1>2, <3>1, SeqTypes
      <4> QED BY <4>1, <4>2
    <3>2. CASE b = a BY <1>1, <1>2, <1>3, <3>2
    <3> QED BY <1>4, <3>1, <3>2
  <2>6. ASSUME UnderWayIsCurrent(o), ~isDirty[o], stored[o] = data[o]
        PROVE  stored'[o] = data[o]
    <3>1. m.object = o => m \in Updates(o) BY <1>1 DEF Updates
    <3> QED BY <1>2, <2>6, <3>1 DEF UnderWayIsCurrent
  <2> QED BY <2>1, <2>4, <2>5, <2>6 DEF Current
<1> QED BY <1>7 DEF AllCurrent

LEMMA NextCurrent ==
  ASSUME TypeOK, Steps, SentInOrder, AllCurrent, [Next]_vars
  PROVE  AllCurrent'
<1>1. ASSUME UNCHANGED <<data, isDirty, channel, queue, stored, lastSent, answers, crossed>>,
             raced \subseteq raced',
             \A t \in Threads : thread'[t].at = "send" => thread'[t] = thread[t]
      PROVE  AllCurrent'
  <2>1. ASSUME NEW o \in Objects PROVE Current(o)'
    <3>1. Updates(o)' \subseteq Updates(o) BY <1>1 DEF Updates
    <3>2. \A t \in Threads : Holds(t, o)' => Holds(t, o) /\ thread'[t] = thread[t]
      BY <1>1 DEF Holds, At
    <3> QED BY <1>1, <3>1, <3>2, FrameCurrent DEF AllCurrent
  <2> QED BY <2>1 DEF AllCurrent
<1>3. ASSUME NEW o \in Objects, AddSaveEntity(o) PROVE AllCurrent'
  BY <1>1, <1>3 DEF AddSaveEntity, dbproxy, history
<1>4. ASSUME NEW o \in Objects, Visit(o) PROVE AllCurrent'
  <2>1. \A t \in Threads : thread'[t] = thread[t] \/ thread'[t] = Doing("store", o, 0)
    BY <1>4 DEF Visit, TypeOK
  <2> QED BY <1>1, <1>4, <2>1 DEF Visit, dbproxy, history, Doing
<1>5. ASSUME NEW t \in Threads, NEW o \in Objects, Change(t, o) PROVE AllCurrent'
  BY <1>5, ChangeCurrent
<1>6. ASSUME NEW t \in Threads, NEW o \in Objects, SaveEntity(t, o) PROVE AllCurrent'
  <2>1. \A u \in Threads : thread'[u] = thread[u] \/ thread'[u] = Doing("store", o, 0)
    BY <1>6 DEF SaveEntity, TypeOK
  <2> QED BY <1>1, <1>6, <2>1 DEF SaveEntity, dbproxy, history, Doing
<1>7. ASSUME NEW t \in Threads, Store(t) PROVE AllCurrent'
  <2> DEFINE c == thread[t].object
  <2>1. \A u \in Threads : thread'[u] = IF u = t THEN Doing("send", c, data[c]) ELSE thread[u]
    BY <1>7 DEF Store, TypeOK
  <2>2. ASSUME NEW o \in Objects PROVE Current(o)'
    <3>1. Updates(o)' \subseteq Updates(o) BY <1>7 DEF Store, dbproxy, Updates
    <3>2. ASSUME NEW u \in Threads, Holds(u, o)'
          PROVE  thread'[u].version = data[o] \/ (Holds(u, o) /\ thread'[u] = thread[u])
      BY <2>1, <3>2 DEF Holds, At, Doing
    <3>3. raced \subseteq raced' BY <1>7 DEF Store
    <3> QED BY <1>7, <3>1, <3>2, <3>3, FrameCurrent DEF AllCurrent, Store, dbproxy
  <2> QED BY <2>2 DEF AllCurrent
<1>8. ASSUME NEW t \in Threads, Send(t) \/ SendFails(t) PROVE AllCurrent'
  <2>1. PICK fails \in BOOLEAN : thread' = [thread EXCEPT ![t] = Returns(t, fails)]
    BY <1>8 DEF Send, SendFails
  <2>2. CASE Push(t)
    BY <1>8, <2>1, <2>2, PushCurrent DEF Send, SendFails
  <2>3. CASE UNCHANGED <<channel, lastSent>>
    <3>1. \A u \in Threads : u # t => thread'[u] = thread[u]
      BY <2>1 DEF TypeOK
    <3>2. thread'[t].at # "send" BY <2>1, ReturnsType DEF TypeOK
    <3> QED BY <1>1, <1>8, <2>3, <3>1, <3>2 DEF Send, SendFails
  <2> QED BY <1>8, <2>2, <2>3 DEF Send, SendFails
<1>9. CASE Answer
  BY <1>9, AnswerCurrent
<1>10. CASE Close
  <2>1. \A t \in Threads : thread'[t] = thread[t] \/ thread'[t].at = "exit"
    BY <1>10 DEF Close, TypeOK
  <2> QED BY <1>1, <1>10, <2>1 DEF Close, dbproxy, history
<1>11. CASE VisitsEnd
  <2>1. \A t \in Threads : thread'[t] = thread[t] \/ thread'[t].at \in {"done", "dead"}
    BY <1>11 DEF VisitsEnd, TypeOK
  <2> QED BY <1>1, <1>11, <2>1 DEF VisitsEnd, dbproxy, history
<1>12. CASE Receive
  <2>1. /\ Head(channel) \in Update /\ channel' = Tail(channel)
        /\ ToSet(channel) = {Head(channel)} \cup ToSet(channel')
    BY <1>12, ToSetHeadTail, SeqTypes DEF Receive
  <2>2. ToSet(queue') = ToSet(queue) \cup {Head(channel)}
    BY <1>12, <2>1, ToSetAppend, SeqTypes DEF Receive
  <2>3. ASSUME NEW o \in Objects PROVE Current(o)'
    <3>1. UNCHANGED <<data, isDirty, thread, stored, lastSent, answers, crossed, raced>>
      BY <1>12 DEF Receive, hub, history
    <3>2. Updates(o)' \subseteq Updates(o) BY <2>1, <2>2, <3>1 DEF Updates
    <3>3. \A t \in Threads : Holds(t, o)' => Holds(t, o) /\ thread'[t] = thread[t]
      BY <3>1 DEF Holds, At
    <3> QED BY <3>1, <3>2, <3>3, FrameCurrent DEF AllCurrent
  <2> QED BY <2>3 DEF AllCurrent
<1>13. ASSUME NEW writes \in BOOLEAN, NEW result \in BOOLEAN, Poll(writes, result)
       PROVE  AllCurrent'
  BY <1>13, WriteCurrent DEF Poll, hub, history
<1>14. ASSUME NEW writes \in BOOLEAN, Crash(writes) PROVE AllCurrent'
  <2>1. CASE queue = <<>>
    <3>1. queue' = queue /\ stored' = stored BY <1>14, <2>1 DEF Crash
    <3> QED BY <1>1, <1>14, <3>1 DEF Crash, hub, history
  <2>2. CASE queue # <<>>
    BY <1>14, <2>2, WriteCurrent DEF Crash, hub, history
  <2> QED BY <2>1, <2>2
<1>15. CASE UNCHANGED vars
  BY <1>1, <1>15 DEF vars, hub, dbproxy, history
<1> QED
  BY <1>3, <1>4, <1>5, <1>6, <1>7, <1>8, <1>9, <1>10, <1>11, <1>12, <1>13, <1>14, <1>15
  DEF Next

LEMMA InitCurrent == Init => AllCurrent
<1> SUFFICES ASSUME Init, NEW o \in Objects PROVE Current(o) BY DEF AllCurrent
<1> QED BY ToSetEmpty DEF Init, Current, UnderWayIsCurrent, AnsweredIsStored, Updates, Holds,
        At, Idle, Doing

LEMMA CurrentInvariant == Spec => []AllCurrent
<1>1. TypeOK /\ Steps /\ SentInOrder /\ AllCurrent /\ [Next]_vars => AllCurrent'
  BY NextCurrent
<1> QED BY <1>1, InitCurrent, TypeInvariant, UpdatesStayInOrder, PTL DEF Spec

\* An object that counts as clean is in the database as it is, whatever failed
\* or crashed, unless it changed while an update of it was under way or two
\* threads saved it at the same time.
THEOREM CleanObjectsAreStored == Spec => []CleanIsStored
<1>1. AllCurrent => CleanIsStored BY DEF AllCurrent, Current, CleanIsStored
<1> QED BY <1>1, CurrentInvariant, PTL

-----------------------------------------------------------------------------
(* The end of a hub saves all.                                             *)

Saving(o) == (At("main", "store") \/ At("main", "send")) /\ thread["main"].object = o

\* The main thread does not come back from its end; when it has gone through the
\* objects, what it has visited was sent or is about to be.
Ending ==
  /\ ~isRun => ~At("main", "idle")
  /\ At("main", "done") => ~isRun /\ left.todo = {}
  /\ At("main", "exit") => ~isRun
  /\ ~isRun /\ ~At("main", "dead") =>
       \A o \in saves \ (left.todo \cup late \cup crossed) :
         lastSent[o] = data[o] \/ Saving(o)

LEMMA NextEnding ==
  ASSUME TypeOK, Steps, AllCurrent, Ending, [Next]_vars
  PROVE  Ending'
<1> USE DEF Threads
<1>1. ASSUME NEW o \in Objects, AddSaveEntity(o) PROVE Ending'
  <2>1. lastSent[o] = data[o] BY <1>1, SeqTypes DEF AddSaveEntity, Steps
  <2> QED BY <1>1, <2>1 DEF AddSaveEntity, history, Ending, Saving, At
<1>2. ASSUME NEW o \in Objects, Visit(o) PROVE Ending'
  <2>1. At("main", "exit") /\ ~isRun /\ ~isRun' BY <1>2 DEF Visit, Ending
  <2>2. saves \subseteq Objects /\ \A p \in Objects : ~Saving(p)
    BY <2>1 DEF Saving, At, TypeOK
  <2>3. left'.todo = left.todo \ {o} BY <1>2 DEF Visit, TypeOK
  <2>4. CASE isDirty[o]
    <3>1. thread'["main"] = Doing("store", o, 0) BY <1>2, <2>4 DEF Visit, TypeOK
    <3>2. Saving(o)' BY <3>1 DEF Saving, At, Doing
    <3>3. thread'["main"].at = "store" BY <3>1 DEF Doing
    <3> QED BY <1>2, <2>1, <2>2, <2>3, <3>2, <3>3 DEF Visit, Ending, At, history
  <2>5. CASE ~isDirty[o]
    <3>1. o \notin crossed => lastSent[o] = data[o]
      BY <2>5 DEF AllCurrent, Current, UnderWayIsCurrent
    <3>2. UNCHANGED <<saves, data, isRun, thread, lastSent, late, crossed>>
      BY <1>2, <2>5 DEF Visit, history
    <3> QED BY <2>1, <2>2, <2>3, <3>1, <3>2 DEF Ending, At
  <2> QED BY <2>4, <2>5
<1>3. ASSUME NEW t \in Threads, NEW o \in Objects, Change(t, o) PROVE Ending'
  <2>1. /\ \A p \in Objects : p # o => data'[p] = data[p]
        /\ crossed \subseteq crossed' /\ late \subseteq late'
        /\ ~isRun => o \in left.todo \/ o \in late'
        /\ UNCHANGED <<saves, isRun, thread, left, lastSent>>
    BY <1>3 DEF Change, TypeOK
  <2> QED BY <2>1 DEF Ending, Saving, At, TypeOK
<1>4. ASSUME NEW t \in Threads, NEW o \in Objects, SaveEntity(t, o) PROVE Ending'
  <2>1. thread' = [thread EXCEPT ![t] = Doing("store", o, 0)] /\ At(t, "idle")
        /\ UNCHANGED <<saves, data, isRun, left, history>>
    BY <1>4 DEF SaveEntity
  <2>2. CASE t = "main"
    <3>1. isRun /\ isRun' BY <2>1, <2>2 DEF Ending
    <3>2. thread'["main"].at = "store" BY <2>1, <2>2 DEF TypeOK, Doing
    <3> QED BY <3>1, <3>2 DEF Ending, At
  <2>3. CASE t # "main"
    <3>1. thread'["main"] = thread["main"] BY <2>1, <2>3 DEF TypeOK
    <3> QED BY <2>1, <3>1 DEF Ending, Saving, At, history
  <2> QED BY <2>2, <2>3
<1>5. ASSUME NEW t \in Threads, Store(t) PROVE Ending'
  <2>1. /\ thread' = [thread EXCEPT ![t] = Doing("send", thread[t].object, data[thread[t].object])]
        /\ At(t, "store")
        /\ UNCHANGED <<saves, data, isRun, left, lastSent, crossed, late>>
    BY <1>5 DEF Store
  <2>2. CASE t = "main"
    <3>1. /\ thread'["main"].at = "send" /\ thread'["main"].object = thread["main"].object
          /\ thread["main"].at = "store"
      BY <2>1, <2>2 DEF TypeOK, Doing, At
    <3> QED BY <2>1, <3>1 DEF Ending, Saving, At
  <2>3. CASE t # "main"
    <3>1. thread'["main"] = thread["main"] BY <2>1, <2>3 DEF TypeOK
    <3> QED BY <2>1, <3>1 DEF Ending, Saving, At
  <2> QED BY <2>2, <2>3
<1>6. ASSUME NEW t \in Threads, Send(t) \/ SendFails(t) PROVE Ending'
  <2>1. /\ At(t, "send") /\ UNCHANGED <<saves, data, isRun, left, crossed, late>>
        /\ Push(t) \/ UNCHANGED <<channel, lastSent>>
    BY <1>6 DEF Send, SendFails
  <2>2. \A o \in Objects : lastSent[o] = data[o] => lastSent'[o] = data[o]
    <3>1. CASE Push(t) BY <2>1, <3>1, PushChanges, SeqTypes, BoundsAssumption
    <3>2. CASE UNCHANGED <<channel, lastSent>> BY <3>2
    <3> QED BY <2>1, <3>1, <3>2
  <2>3. CASE t # "main"
    <3>1. thread'["main"] = thread["main"] BY <1>6, <2>3 DEF Send, SendFails, TypeOK
    <3> QED BY <2>1, <2>2, <3>1 DEF Ending, Saving, At, TypeOK
  <2>4. CASE t = "main" /\ isRun
    <3>1. thread'["main"].at = "idle"
      BY <1>6, <2>4, ReturnsType DEF Send, SendFails, TypeOK
    <3> QED BY <2>1, <2>4, <3>1 DEF Ending, At
  <2>5. CASE t = "main" /\ ~isRun /\ Send(t)
    <3>1. thread'["main"].at \in {"exit", "dead"}
      BY <2>5, ReturnsType DEF Send, TypeOK
    <3>2. \A o \in Objects \ crossed : Saving(o) => lastSent'[o] = data[o]
      <4> SUFFICES ASSUME NEW o \in Objects \ crossed, Saving(o) PROVE lastSent'[o] = data[o]
        OBVIOUS
      <4>1. Holds(t, o) /\ Sent(t).object = o /\ Sent(t).version = thread[t].version
        BY <2>1, <2>5 DEF Saving, Holds, At, Sent
      <4>2. Sent(t).version = data[o]
        BY <4>1 DEF AllCurrent, Current, UnderWayIsCurrent
      <4>3. /\ lastSent'[o] <= data[o] /\ Sent(t).version <= lastSent'[o]
            /\ lastSent'[o] \in Nat
        BY <2>1, <2>5, <4>1, PushChanges, BoundsAssumption DEF Send
      <4>4. data[o] \in Nat BY SeqTypes
      <4> QED BY <4>2, <4>3, <4>4
    <3> QED BY <2>1, <2>2, <2>5, <3>1, <3>2 DEF Ending, At, TypeOK
  <2>6. CASE t = "main" /\ ~isRun /\ SendFails(t)
    <3>1. thread'["main"].at = "dead"
      BY <2>6, ReturnsType DEF SendFails, TypeOK, Returns, Doing
    <3> QED BY <2>1, <2>6, <3>1 DEF Ending, At
  <2> QED BY <1>6, <2>3, <2>4, <2>5, <2>6
<1>7. CASE Answer
  <2>1. UNCHANGED <<saves, data, isRun, thread, left, lastSent, late>>
    BY <1>7 DEF Answer
  <2>2. ASSUME NEW o \in Objects, o \in crossed \ crossed' PROVE lastSent[o] = data[o]
    <3>1. answers # <<>> /\ Head(answers).object = o /\ Head(answers).version = data[o]
      BY <1>7, <2>2 DEF Answer
    <3>2. Head(answers) \in Updates(o)
      BY <3>1, SeqTypes, ToSetHeadTail DEF Updates
    <3>3. data[o] <= lastSent[o] /\ lastSent[o] <= data[o] BY <3>1, <3>2 DEF TypeOK
    <3> QED BY <3>3, SeqTypes
  <2>3. saves \subseteq Objects BY DEF TypeOK
  <2> QED BY <2>1, <2>2, <2>3 DEF Ending, Saving, At
<1>8. CASE Close
  <2>1. thread'["main"].at = "exit" /\ ~isRun' /\ left'.todo = saves /\ saves' = saves
    BY <1>8 DEF Close, TypeOK
  <2> QED BY <2>1 DEF Ending, At
<1>9. CASE VisitsEnd
  <2>1. At("main", "exit") /\ UNCHANGED <<saves, data, isRun, left, history>>
    BY <1>9 DEF VisitsEnd
  <2>2. \/ thread'["main"].at = "dead"
        \/ thread'["main"].at = "done" /\ left.todo = {}
    BY <1>9 DEF VisitsEnd, TypeOK
  <2>3. \A o \in Objects : ~Saving(o) BY <2>1 DEF Saving, At
  <2> QED BY <2>1, <2>2, <2>3 DEF Ending, At, history, TypeOK
<1>10. CASE UNCHANGED <<hub, history>>
  BY <1>10 DEF hub, history, Ending, Saving, At
<1> QED
  BY <1>1, <1>2, <1>3, <1>4, <1>5, <1>6, <1>7, <1>8, <1>9, <1>10
  DEF Next, vars, Receive, Poll, Crash

LEMMA InitEnding == Init => Ending
BY DEF Init, Ending, At, Idle, Doing, Threads

\* When a hub has gone through its objects at its end without an exception, the
\* newest version of each has been sent, but for those a coroutine changed
\* afterwards and those that changed while an update of them was under way.
THEOREM EndSavesAllObjects == Spec => []ExitSavesAll
<1>1. TypeOK /\ Steps /\ AllCurrent /\ Ending /\ [Next]_vars => Ending' BY NextEnding
<1>2. Ending => ExitSavesAll BY DEF Ending, ExitSavesAll, Saving, At
<1> QED BY <1>1, <1>2, InitEnding, TypeInvariant, CurrentInvariant, PTL DEF Spec
=============================================================================
