---------------------------- MODULE HubCallsProofs ----------------------------
(***************************************************************************)
(* For any requests, notifications and hubs, and however the two threads,  *)
(* the migration, the answers and the timers interleave: no call is lost   *)
(* or sent twice, what the main thread calls leaves in order and for the   *)
(* owner, its answers find their handlers, and a request ends once, but    *)
(* for the time in which its answer is handled.                            *)
(***************************************************************************)
EXTENDS HubCalls, TLAPS

\* A thread that is making a call: about to send it, and then about to
\* register a callback for it.
Busy(t) == At(t, "direct") \/ At(t, "send")
Registers(t) == At(t, "register") \/ At(t, "callback") \/ At(t, "timeout")
Making(t) == Busy(t) \/ Registers(t)
Unset(t) == Busy(t) \/ At(t, "register") \/ At(t, "callback")

MadeCalls == MadeBy("main") \cup MadeBy("loop")

\* What a thread is at, and what is known of its call at each step.
StepOf(t) ==
  /\ Making(t) => thread[t].call \in MadeBy(t)
  /\ Registers(t) => thread[t].call \in Requests
  /\ At(t, "send") => thread[t].hub \in Hubs
  /\ Unset(t) => thread[t].call \notin ready
  /\ At(t, "timeout") => thread[t].call \in ready
  /\ Busy(t) \/ At(t, "register") => thread[t].call \notin hubCallback
  /\ At(t, "callback") => thread[t].call \in hubCallback

Steps ==
  /\ \A t \in Threads : StepOf(t)
  /\ At("loop", "idle") \/ Making("loop")
  /\ At("main", "answer") \/ At("main", "delete") => thread["main"].call \in ready
  /\ MadeBy("main") \cap MadeBy("loop") = {}
  /\ ready \subseteq MadeCalls /\ hubCallback \subseteq MadeCalls
  /\ \A c \in Requests : ended[c] # {} => c \in ready

Ats == {"idle", "direct", "send", "register", "callback", "timeout", "replay",
        "answer", "delete"}
Doing == [at : Ats, call : Calls \cup {NoCall}, hub : Hubs \cup {NoHub}]
Sent == [call : Calls, hub : Hubs]

-----------------------------------------------------------------------------
(* Sequences.                                                              *)

LEMMA ToSetEmpty == ToSet(<<>>) = {}
BY DEF ToSet

LEMMA ToSetAppend ==
  ASSUME NEW T, NEW s \in Seq(T), NEW m \in T
  PROVE  Append(s, m) \in Seq(T) /\ ToSet(Append(s, m)) = ToSet(s) \cup {m}
<1>1. Len(Append(s, m)) = Len(s) + 1 /\ Len(s) \in Nat OBVIOUS
<1>2. \A i \in 1 .. Len(s) : Append(s, m)[i] = s[i] OBVIOUS
<1>3. Append(s, m)[Len(s) + 1] = m OBVIOUS
<1> QED BY <1>1, <1>2, <1>3 DEF ToSet

LEMMA AppendPoints ==
  ASSUME NEW T, NEW s \in Seq(T), NEW m \in T
  PROVE  /\ Len(s) \in Nat /\ DOMAIN s = 1 .. Len(s)
         /\ DOMAIN Append(s, m) = 1 .. Len(s) + 1
         /\ \A i \in 1 .. Len(s) : Append(s, m)[i] = s[i] /\ s[i] \in ToSet(s)
         /\ Append(s, m)[Len(s) + 1] = m
BY DEF ToSet

LEMMA TailPoints ==
  ASSUME NEW T, NEW s \in Seq(T), s # <<>>
  PROVE  /\ Len(s) \in Nat \ {0} /\ DOMAIN s = 1 .. Len(s)
         /\ Tail(s) \in Seq(T) /\ DOMAIN Tail(s) = 1 .. Len(s) - 1
         /\ \A i \in 1 .. Len(s) - 1 : Tail(s)[i] = s[i + 1]
         /\ Head(s) = s[1] /\ s[1] \in T
<1>1. Len(s) \in Nat \ {0} /\ Len(Tail(s)) = Len(s) - 1 OBVIOUS
<1> QED BY <1>1

LEMMA InjectiveAppend ==
  ASSUME NEW T, NEW s \in Seq(T), NEW m \in T, m \notin ToSet(s), IsInjective(s)
  PROVE  IsInjective(Append(s, m))
<1>1. \A i \in 1 .. Len(s) : Append(s, m)[i] = s[i] /\ s[i] # m BY AppendPoints
<1> QED BY <1>1, AppendPoints DEF IsInjective

\* The head of a sequence without repetitions is gone with it.
LEMMA InjectiveTail ==
  ASSUME NEW T, NEW s \in Seq(T), s # <<>>, IsInjective(s)
  PROVE  /\ IsInjective(Tail(s)) /\ Head(s) \notin ToSet(Tail(s))
         /\ ToSet(s) = {Head(s)} \cup ToSet(Tail(s))
<1>1. /\ Len(s) \in Nat \ {0} /\ DOMAIN s = 1 .. Len(s)
      /\ DOMAIN Tail(s) = 1 .. Len(s) - 1
      /\ \A i \in 1 .. Len(s) - 1 : Tail(s)[i] = s[i + 1] /\ i + 1 \in 1 .. Len(s)
      /\ Head(s) = s[1] /\ 1 \in 1 .. Len(s)
  BY TailPoints
<1>2. \A i, j \in 1 .. Len(s) : s[i] = s[j] => i = j BY <1>1 DEF IsInjective
<1>3. IsInjective(Tail(s)) BY <1>1, <1>2 DEF IsInjective
<1>4. Head(s) \notin ToSet(Tail(s))
  <2> SUFFICES ASSUME NEW i \in 1 .. Len(s) - 1, Tail(s)[i] = Head(s) PROVE FALSE
    BY <1>1 DEF ToSet
  <2>1. s[i + 1] = s[1] /\ i + 1 \in 1 .. Len(s) BY <1>1
  <2> QED BY <1>1, <1>2, <2>1
<1>5. ASSUME NEW x \in ToSet(s) PROVE x = Head(s) \/ x \in ToSet(Tail(s))
  <2>1. PICK i \in 1 .. Len(s) : x = s[i] BY <1>1 DEF ToSet
  <2>2. CASE i = 1 BY <1>1, <2>1, <2>2
  <2>3. CASE i # 1
    <3>1. i - 1 \in 1 .. Len(s) - 1 /\ (i - 1) + 1 = i BY <1>1, <2>3
    <3>2. Tail(s)[i - 1] = x BY <1>1, <2>1, <3>1
    <3> QED BY <1>1, <3>1, <3>2 DEF ToSet
  <2> QED BY <2>2, <2>3
<1>6. ASSUME NEW x \in ToSet(Tail(s)) PROVE x \in ToSet(s)
  <2>1. PICK i \in 1 .. Len(s) - 1 : x = Tail(s)[i] BY <1>1 DEF ToSet
  <2> QED BY <1>1, <2>1 DEF ToSet
<1>7. Head(s) \in ToSet(s) BY <1>1 DEF ToSet
<1> QED BY <1>3, <1>4, <1>5, <1>6, <1>7

-----------------------------------------------------------------------------
(* What a step of a thread leaves.                                         *)

LEMMA ThreadNames == "main" \in Threads /\ "loop" \in Threads /\ "main" # "loop"
                     /\ \A t \in Threads : t = "main" \/ t = "loop"
BY DEF Threads

LEMMA Typed ==
  TypeOK <=> /\ isMigrate \in BOOLEAN /\ sourceHub \in Hubs
             /\ cacheMsg \in Seq(Calls)
             /\ hubCallback \subseteq Requests /\ ready \subseteq Requests
             /\ timers \subseteq ready
             /\ thread \in [Threads -> Doing]
             /\ made \in [Threads -> Seq(Calls)]
             /\ sent \in Seq(Sent)
             /\ answered \subseteq Requests /\ timed \subseteq Requests
             /\ ended \in [Requests -> SUBSET {"answer", "timeout"}]
BY DEF TypeOK, Doing, Ats, Sent

LEMMA TypedNext ==
  TypeOK' <=> /\ isMigrate' \in BOOLEAN /\ sourceHub' \in Hubs
              /\ cacheMsg' \in Seq(Calls)
              /\ hubCallback' \subseteq Requests /\ ready' \subseteq Requests
              /\ timers' \subseteq ready'
              /\ thread' \in [Threads -> Doing]
              /\ made' \in [Threads -> Seq(Calls)]
              /\ sent' \in Seq(Sent)
              /\ answered' \subseteq Requests /\ timed' \subseteq Requests
              /\ ended' \in [Requests -> SUBSET {"answer", "timeout"}]
BY DEF TypeOK, Doing, Ats, Sent

\* Thread t is at this step, with this call, and the other one where it was.
Now(t, step, c) ==
  /\ thread' \in [Threads -> Doing]
  /\ thread'[t].at = step /\ thread'[t].call = c
  /\ \A u \in Threads \ {t} : thread'[u] = thread[u]

LEMMA Gone ==
  ASSUME TypeOK, NEW t \in Threads, NEW step \in Ats, NEW c \in Calls \cup {NoCall},
         thread' = Goes(t, step, c)
  PROVE  Now(t, step, c)
<1> DEFINE d == [at |-> step, call |-> c, hub |-> NoHub]
<1>1. d \in Doing /\ d.at = step /\ d.call = c BY DEF Doing
<1>2. thread' = [thread EXCEPT ![t] = d] BY DEF Goes
<1> HIDE DEF d
<1> QED BY <1>1, <1>2, Typed DEF Now

LEMMA Stopped ==
  ASSUME TypeOK, NEW t \in Threads, thread' = Stops(t)
  PROVE  Now(t, "idle", NoCall)
<1>1. Idle \in Doing /\ Idle.at = "idle" /\ Idle.call = NoCall BY DEF Idle, Doing, Ats
<1> QED BY <1>1, Typed DEF Now, Stops

LEMMA CallLeft ==
  ASSUME TypeOK, NEW t \in Threads, NEW c \in Calls, thread' = AfterCall(t, c)
  PROVE  \/ c \in Requests /\ Now(t, "register", c)
         \/ c \notin Requests /\ Now(t, "idle", NoCall)
BY Gone, Stopped DEF AfterCall, Ats

\* A new call goes to the end of what its thread made.
LEMMA NewCall ==
  ASSUME TypeOK, NEW t \in Threads, NEW c \in Calls, c \in Unmade,
         made' = [made EXCEPT ![t] = Append(@, c)]
  PROVE  /\ made' \in [Threads -> Seq(Calls)] /\ made'[t] = Append(made[t], c)
         /\ \A u \in Threads \ {t} : made'[u] = made[u] /\ MadeBy(u)' = MadeBy(u)
         /\ MadeBy(t)' = MadeBy(t) \cup {c} /\ MadeCalls' = MadeCalls \cup {c}
         /\ c \notin MadeCalls /\ \A u \in Threads : c \notin MadeBy(u)
<1>1. made \in [Threads -> Seq(Calls)] /\ made[t] \in Seq(Calls) BY Typed
<1>2. /\ Append(made[t], c) \in Seq(Calls)
      /\ ToSet(Append(made[t], c)) = ToSet(made[t]) \cup {c}
  BY <1>1, ToSetAppend
<1>3. /\ made' \in [Threads -> Seq(Calls)] /\ made'[t] = Append(made[t], c)
      /\ \A u \in Threads \ {t} : made'[u] = made[u]
  BY <1>1, <1>2
<1>4. /\ \A u \in Threads \ {t} : MadeBy(u)' = MadeBy(u)
      /\ MadeBy(t)' = MadeBy(t) \cup {c}
  BY <1>2, <1>3 DEF MadeBy
<1>5. MadeCalls' = MadeCalls \cup {c} BY <1>4, ThreadNames DEF MadeCalls
<1>6. c \notin MadeCalls /\ \A u \in Threads : c \notin MadeBy(u)
  BY ThreadNames DEF Unmade, MadeCalls
<1> QED BY <1>3, <1>4, <1>5, <1>6

LEMMA CallStepChanges ==
  ASSUME TypeOK, NEW t \in Threads, NEW c \in Calls, Call(t, c)
  PROVE  /\ At(t, "idle") /\ c \in Unmade
         /\ made' = [made EXCEPT ![t] = Append(@, c)]
         /\ \/ /\ isMigrate /\ cacheMsg' = Append(cacheMsg, c)
               /\ \/ c \in Requests /\ Now(t, "register", c)
                  \/ c \notin Requests /\ Now(t, "idle", NoCall)
            \/ ~isMigrate /\ cacheMsg' = cacheMsg /\ Now(t, "direct", c)
         /\ UNCHANGED <<isMigrate, sourceHub, hubCallback, ready, timers, sent,
                        answered, ended, timed>>
<1>1. CASE isMigrate BY <1>1, CallLeft DEF Call, callbacks
<1>2. CASE ~isMigrate BY <1>2, Gone DEF Call, callbacks, Ats
<1> QED BY <1>1, <1>2

LEMMA ReadHubChanges ==
  ASSUME TypeOK, NEW t \in Threads, ReadHub(t)
  PROVE  /\ At(t, "direct") /\ Now(t, "send", thread[t].call)
         /\ thread'[t].hub = sourceHub
         /\ UNCHANGED <<isMigrate, sourceHub, cacheMsg, hubCallback, ready, timers,
                        made, sent, answered, ended, timed>>
<1> DEFINE d == [at |-> "send", call |-> thread[t].call, hub |-> sourceHub]
<1>1. thread[t] \in Doing /\ sourceHub \in Hubs BY Typed
<1>2. d \in Doing /\ d.at = "send" /\ d.call = thread[t].call /\ d.hub = sourceHub
  BY <1>1 DEF Doing, Ats
<1>3. thread' = [thread EXCEPT ![t] = d] BY DEF ReadHub
<1> HIDE DEF d
<1>4. Now(t, "send", thread[t].call) /\ thread'[t].hub = sourceHub
  BY <1>2, <1>3, Typed DEF Now
<1> QED BY <1>4 DEF ReadHub, subentity, callbacks, history

LEMMA SendChanges ==
  ASSUME TypeOK, Steps, NEW t \in Threads, Send(t)
  PROVE  LET c == thread[t].call
         IN /\ At(t, "send") /\ c \in Calls /\ c \in MadeBy(t)
            /\ thread[t].hub \in Hubs
            /\ sent' = Append(sent, [call |-> c, hub |-> thread[t].hub])
            /\ \/ c \in Requests /\ Now(t, "register", c)
               \/ c \notin Requests /\ Now(t, "idle", NoCall)
            /\ UNCHANGED <<isMigrate, sourceHub, cacheMsg, hubCallback, ready, timers,
                           made, answered, ended, timed>>
<1>1. At(t, "send") /\ thread' = AfterCall(t, thread[t].call) BY DEF Send
<1>2. thread[t].call \in MadeBy(t) /\ thread[t].hub \in Hubs
  BY <1>1 DEF Steps, StepOf, Making, Busy
<1>3. thread[t].call \in Calls BY <1>2, Typed DEF MadeBy, ToSet
<1>4. \/ thread[t].call \in Requests /\ Now(t, "register", thread[t].call)
      \/ thread[t].call \notin Requests /\ Now(t, "idle", NoCall)
  BY <1>1, <1>3, CallLeft
<1> QED BY <1>1, <1>2, <1>3, <1>4 DEF Send, subentity, callbacks

LEMMA RegisterChanges ==
  ASSUME TypeOK, Steps, NEW t \in Threads,
         RegHubCallback(t) \/ SetHandlers(t) \/ SetTimeout(t)
  PROVE  LET c == thread[t].call
         IN /\ c \in Requests /\ c \in MadeBy(t) /\ c \in Calls
            /\ \/ /\ At(t, "register") /\ Now(t, "callback", c)
                  /\ hubCallback' = hubCallback \cup {c} /\ UNCHANGED <<ready, timers, timed>>
               \/ /\ At(t, "callback") /\ Now(t, "timeout", c)
                  /\ ready' = ready \cup {c} /\ UNCHANGED <<hubCallback, timers, timed>>
               \/ /\ At(t, "timeout") /\ Now(t, "idle", NoCall)
                  /\ timers' \in {timers, timers \cup {c}} /\ timed' \subseteq timed \cup {c}
                  /\ UNCHANGED <<hubCallback, ready>>
            /\ UNCHANGED <<isMigrate, sourceHub, cacheMsg, made, sent, answered, ended>>
<1> DEFINE c == thread[t].call
<1>1. At(t, "register") \/ At(t, "callback") \/ At(t, "timeout")
  BY DEF RegHubCallback, SetHandlers, SetTimeout
<1>2. c \in Requests /\ c \in MadeBy(t) /\ c \in Calls
  BY <1>1 DEF Steps, StepOf, Registers, Making, Calls
<1>3. CASE RegHubCallback(t)
  <2>1. Now(t, "callback", c) BY <1>2, <1>3, Gone DEF RegHubCallback, Ats
  <2> QED BY <1>2, <1>3, <2>1 DEF RegHubCallback, subentity, history
<1>4. CASE SetHandlers(t)
  <2>1. Now(t, "timeout", c) BY <1>2, <1>4, Gone DEF SetHandlers, Ats
  <2> QED BY <1>2, <1>4, <2>1 DEF SetHandlers, subentity, history
<1>5. CASE SetTimeout(t)
  <2>1. Now(t, "idle", NoCall) BY <1>5, Stopped DEF SetTimeout
  <2> QED BY <1>2, <1>5, <2>1 DEF SetTimeout, subentity
<1> QED BY <1>3, <1>4, <1>5

LEMMA MigrationChanges ==
  ASSUME TypeOK, \/ OnWaitMigrateEntity
                 \/ \E h \in Hubs : OnMigrateEntityComplete(h)
                 \/ ReplayEnds
  PROVE  /\ \/ At("main", "idle") /\ isMigrate' /\ UNCHANGED <<sourceHub, thread>>
            \/ /\ At("main", "idle") /\ ~isMigrate' /\ sourceHub' \in Hubs
               /\ Now("main", "replay", NoCall)
            \/ /\ At("main", "replay") /\ cacheMsg = <<>> /\ Now("main", "idle", NoCall)
               /\ UNCHANGED <<isMigrate, sourceHub>>
         /\ isMigrate' \in BOOLEAN /\ sourceHub' \in Hubs /\ thread' \in [Threads -> Doing]
         /\ UNCHANGED <<cacheMsg, hubCallback, ready, timers, made, sent, answered,
                        ended, timed>>
<1>1. CASE OnWaitMigrateEntity
  BY <1>1, Typed DEF OnWaitMigrateEntity, callbacks, history
<1>2. ASSUME NEW h \in Hubs, OnMigrateEntityComplete(h)
      PROVE  /\ At("main", "idle") /\ isMigrate' = FALSE /\ sourceHub' = h
             /\ Now("main", "replay", NoCall)
             /\ UNCHANGED <<cacheMsg, hubCallback, ready, timers, made, sent, answered,
                            ended, timed>>
  <2>1. Now("main", "replay", NoCall)
    BY <1>2, Gone, ThreadNames DEF OnMigrateEntityComplete, Ats
  <2> QED BY <1>2, <2>1 DEF OnMigrateEntityComplete, callbacks, history
<1>3. CASE ReplayEnds
  <2>1. Now("main", "idle", NoCall) BY <1>3, Stopped, ThreadNames DEF ReplayEnds
  <2> QED BY <1>3, <2>1, Typed DEF ReplayEnds, subentity, callbacks, history, Now
<1>4. CASE \E h \in Hubs : OnMigrateEntityComplete(h)
  <2>1. PICK h \in Hubs : OnMigrateEntityComplete(h) BY <1>4
  <2>2. /\ At("main", "idle") /\ isMigrate' = FALSE /\ sourceHub' = h
        /\ Now("main", "replay", NoCall)
        /\ UNCHANGED <<cacheMsg, hubCallback, ready, timers, made, sent, answered,
                       ended, timed>>
    BY <1>2, <2>1
  <2> QED BY <2>2 DEF Now
<1> QED BY <1>1, <1>3, <1>4

LEMMA ReplayChanges ==
  ASSUME TypeOK, Replay
  PROVE  /\ At("main", "replay") /\ cacheMsg # <<>>
         /\ Head(cacheMsg) \in Calls /\ Tail(cacheMsg) \in Seq(Calls)
         /\ sent' = Append(sent, [call |-> Head(cacheMsg), hub |-> sourceHub])
         /\ cacheMsg' = Tail(cacheMsg)
         /\ UNCHANGED <<isMigrate, sourceHub, hubCallback, ready, timers, thread, made,
                        answered, ended, timed>>
BY TailPoints, Typed DEF Replay, callbacks

LEMMA AnswerChanges ==
  ASSUME TypeOK, NEW c \in Requests, Answer(c)
  PROVE  /\ At("main", "idle") /\ c \in SentCalls \ answered
         /\ answered' = answered \cup {c}
         /\ \/ c \in hubCallback \cap ready /\ Now("main", "answer", c)
            \/ c \notin hubCallback \cap ready /\ UNCHANGED thread
         /\ UNCHANGED <<isMigrate, sourceHub, cacheMsg, hubCallback, ready, timers, made,
                        sent, ended, timed>>
<1>1. CASE c \in hubCallback \cap ready
  <2>1. Now("main", "answer", c)
    BY <1>1, Gone, ThreadNames DEF Answer, Ats, Calls
  <2> QED BY <1>1, <2>1 DEF Answer, subentity, callbacks
<1>2. CASE c \notin hubCallback \cap ready
  BY <1>2 DEF Answer, subentity, callbacks
<1> QED BY <1>1, <1>2

LEMMA HandlerChanges ==
  ASSUME TypeOK, Steps, RunHandler \/ Delete
  PROVE  LET c == thread["main"].call
         IN /\ c \in ready /\ c \in Requests
            /\ \/ /\ At("main", "answer") /\ Now("main", "delete", c)
                  /\ ended' = [ended EXCEPT ![c] = @ \cup {"answer"}]
                  /\ UNCHANGED hubCallback
               \/ /\ At("main", "delete") /\ Now("main", "idle", NoCall)
                  /\ hubCallback' = hubCallback \ {c} /\ UNCHANGED ended
            /\ UNCHANGED <<isMigrate, sourceHub, cacheMsg, ready, timers, made, sent,
                           answered, timed>>
<1> DEFINE c == thread["main"].call
<1>1. c \in ready /\ c \in Requests
  <2>1. At("main", "answer") \/ At("main", "delete") BY DEF RunHandler, Delete
  <2> QED BY <2>1, Typed DEF Steps
<1>2. CASE RunHandler
  <2>1. Now("main", "delete", c)
    BY <1>1, <1>2, Gone, ThreadNames DEF RunHandler, Ats, Calls
  <2> QED BY <1>1, <1>2, <2>1 DEF RunHandler, subentity, callbacks
<1>3. CASE Delete
  <2>1. Now("main", "idle", NoCall) BY <1>3, Stopped, ThreadNames DEF Delete
  <2> QED BY <1>1, <1>3, <2>1 DEF Delete, subentity, history
<1> QED BY <1>2, <1>3

LEMMA ExpireChanges ==
  ASSUME TypeOK, NEW c \in Requests, Expire(c)
  PROVE  /\ c \in timers /\ c \in ready
         /\ timers' = timers \ {c} /\ hubCallback' = hubCallback \ {c}
         /\ ended' = IF c \in hubCallback
                     THEN [ended EXCEPT ![c] = @ \cup {"timeout"}] ELSE ended
         /\ UNCHANGED <<isMigrate, sourceHub, cacheMsg, ready, thread, made, sent,
                        answered, timed>>
BY Typed DEF Expire, subentity

-----------------------------------------------------------------------------
(* Types and steps.                                                        *)

LEMMA InitSteps == Init => TypeOK /\ Steps
<1> SUFFICES ASSUME Init PROVE TypeOK /\ Steps OBVIOUS
<1>1. Idle \in Doing /\ Idle.at = "idle" BY DEF Idle, Doing, Ats
<1>2. TypeOK BY <1>1, Typed DEF Init
<1>3. \A t \in Threads : At(t, "idle") /\ MadeBy(t) = {}
  BY <1>1, ToSetEmpty DEF Init, At, MadeBy
<1>4. \A t \in Threads : StepOf(t)
  BY <1>3 DEF StepOf, Making, Registers, Unset, Busy, At
<1>5. Steps BY <1>3, <1>4, ThreadNames DEF Init, Steps, At
<1> QED BY <1>2, <1>5

\* A thread that stays where it is, with what is known of its call.
LEMMA StaysAt ==
  ASSUME NEW u \in Threads, StepOf(u), thread'[u] = thread[u],
         MadeBy(u) \subseteq MadeBy(u)', ready \subseteq ready',
         hubCallback' \subseteq hubCallback \/ hubCallback \subseteq hubCallback',
         Unset(u) => thread[u].call \notin ready' \ ready,
         Busy(u) \/ At(u, "register") => thread[u].call \notin hubCallback' \ hubCallback,
         At(u, "callback") => thread[u].call \notin hubCallback \ hubCallback'
  PROVE  StepOf(u)'
BY DEF StepOf, Making, Registers, Unset, Busy, At

LEMMA CallKeepsSteps ==
  ASSUME TypeOK, Steps, NEW t \in Threads, NEW c \in Calls, Call(t, c)
  PROVE  TypeOK' /\ Steps'
<1>1. /\ At(t, "idle") /\ c \in Unmade
      /\ made' = [made EXCEPT ![t] = Append(@, c)]
      /\ \/ /\ isMigrate /\ cacheMsg' = Append(cacheMsg, c)
            /\ \/ c \in Requests /\ Now(t, "register", c)
               \/ c \notin Requests /\ Now(t, "idle", NoCall)
         \/ ~isMigrate /\ cacheMsg' = cacheMsg /\ Now(t, "direct", c)
      /\ UNCHANGED <<isMigrate, sourceHub, hubCallback, ready, timers, sent,
                     answered, ended, timed>>
  BY CallStepChanges
<1>2. /\ made' \in [Threads -> Seq(Calls)]
      /\ \A u \in Threads \ {t} : MadeBy(u)' = MadeBy(u)
      /\ MadeBy(t)' = MadeBy(t) \cup {c} /\ MadeCalls' = MadeCalls \cup {c}
      /\ c \notin MadeCalls /\ \A u \in Threads : c \notin MadeBy(u)
  BY <1>1, NewCall
<1>3. cacheMsg' \in Seq(Calls)
  <2>1. cacheMsg \in Seq(Calls) BY Typed
  <2>2. Append(cacheMsg, c) \in Seq(Calls) BY <2>1, ToSetAppend
  <2> QED BY <1>1, <2>1, <2>2
<1>4. TypeOK' BY <1>1, <1>2, <1>3, Typed, TypedNext DEF Now
<1>5. c \notin ready /\ c \notin hubCallback BY <1>2 DEF Steps
<1>6. \A u \in Threads \ {t} : StepOf(u)'
  BY <1>1, <1>2, StaysAt DEF Now, Steps
<1>7. StepOf(t)'
  BY <1>1, <1>2, <1>5 DEF Now, StepOf, Making, Registers, Unset, Busy, At
<1>8. (At("loop", "idle") \/ Making("loop"))'
  BY <1>1, ThreadNames DEF Now, Steps, Making, Registers, Busy, At
<1>9. (At("main", "answer") \/ At("main", "delete") => thread["main"].call \in ready)'
  BY <1>1, ThreadNames DEF Now, Steps, At
<1>10. (MadeBy("main") \cap MadeBy("loop") = {})' BY <1>2, ThreadNames DEF Steps
<1>11. (ready \subseteq MadeCalls /\ hubCallback \subseteq MadeCalls)'
  BY <1>1, <1>2 DEF Steps
<1> QED BY <1>1, <1>4, <1>6, <1>7, <1>8, <1>9, <1>10, <1>11 DEF Steps

\* Steps in which the tables of callbacks and what was made stay.
LEMMA MovesOn ==
  ASSUME TypeOK, Steps, NEW t \in Threads, NEW step \in Ats,
         NEW c \in Calls \cup {NoCall}, Now(t, step, c),
         UNCHANGED <<hubCallback, ready, made, ended>>,
         StepOf(t)', t = "loop" => step = "idle" \/ Making(t)',
         step \in {"answer", "delete"} => c \in ready
  PROVE  Steps'
<1>1. \A u \in Threads : MadeBy(u)' = MadeBy(u) BY DEF MadeBy
<1>2. \A u \in Threads \ {t} : StepOf(u)' BY <1>1, StaysAt DEF Now, Steps
<1>3. (At("loop", "idle") \/ Making("loop"))'
  BY ThreadNames DEF Now, Steps, Making, Registers, Busy, At
<1>4. (At("main", "answer") \/ At("main", "delete") => thread["main"].call \in ready)'
  BY ThreadNames DEF Now, Steps, At
<1> QED BY <1>1, <1>2, <1>3, <1>4, ThreadNames DEF Steps, MadeCalls

LEMMA ReadHubKeepsSteps ==
  ASSUME TypeOK, Steps, NEW t \in Threads, ReadHub(t)
  PROVE  TypeOK' /\ Steps'
<1> DEFINE c == thread[t].call
<1>1. /\ At(t, "direct") /\ Now(t, "send", c) /\ thread'[t].hub = sourceHub
      /\ UNCHANGED <<isMigrate, sourceHub, cacheMsg, hubCallback, ready, timers,
                     made, sent, answered, ended, timed>>
  BY ReadHubChanges
<1>2. TypeOK' BY <1>1, Typed, TypedNext DEF Now
<1>3. c \in MadeBy(t) /\ c \notin ready /\ c \notin hubCallback /\ sourceHub \in Hubs
  BY <1>1, Typed DEF Steps, StepOf, Making, Unset, Busy
<1>4. StepOf(t)'
  BY <1>1, <1>3 DEF Now, StepOf, Making, Registers, Unset, Busy, At, MadeBy
<1>5. Making(t)' BY <1>1 DEF Now, Making, Busy, At
<1>6. c \in Calls \cup {NoCall} BY Typed DEF Doing
<1> HIDE DEF c
<1> QED BY <1>1, <1>2, <1>4, <1>5, <1>6, MovesOn DEF Ats

LEMMA SendSteps ==
  ASSUME TypeOK, Steps, NEW t \in Threads, Send(t)
  PROVE  TypeOK' /\ Steps'
<1> DEFINE c == thread[t].call
           m == [call |-> c, hub |-> thread[t].hub]
<1>1. /\ At(t, "send") /\ c \in Calls /\ c \in MadeBy(t) /\ thread[t].hub \in Hubs
      /\ sent' = Append(sent, m)
      /\ \/ c \in Requests /\ Now(t, "register", c)
         \/ c \notin Requests /\ Now(t, "idle", NoCall)
      /\ UNCHANGED <<isMigrate, sourceHub, cacheMsg, hubCallback, ready, timers,
                     made, answered, ended, timed>>
  BY SendChanges
<1>2. m \in Sent BY <1>1 DEF Sent
<1>3. sent' \in Seq(Sent) BY <1>1, <1>2, ToSetAppend, Typed
<1>4. TypeOK' BY <1>1, <1>3, Typed, TypedNext DEF Now
<1>5. c \notin ready /\ c \notin hubCallback
  BY <1>1 DEF Steps, StepOf, Unset, Busy
<1>6. StepOf(t)'
  BY <1>1, <1>5 DEF Now, StepOf, Making, Registers, Unset, Busy, At, MadeBy
<1>7. CASE c \in Requests
  <2>1. Now(t, "register", c) /\ Making(t)'
    BY <1>1, <1>7 DEF Now, Making, Registers, At
  <2> HIDE DEF c, m
  <2> QED BY <1>1, <1>4, <1>6, <2>1, MovesOn DEF Ats
<1>8. CASE c \notin Requests
  <2> HIDE DEF c, m
  <2> QED BY <1>1, <1>4, <1>6, <1>8, MovesOn DEF Ats
<1> QED BY <1>7, <1>8

LEMMA RegisterSteps ==
  ASSUME TypeOK, Steps, NEW t \in Threads,
         RegHubCallback(t) \/ SetHandlers(t) \/ SetTimeout(t)
  PROVE  TypeOK' /\ Steps'
<1> DEFINE c == thread[t].call
<1>1. c \in Requests /\ c \in MadeBy(t) /\ c \in Calls BY RegisterChanges
<1>2. \/ /\ At(t, "register") /\ Now(t, "callback", c)
         /\ hubCallback' = hubCallback \cup {c} /\ UNCHANGED <<ready, timers, timed>>
      \/ /\ At(t, "callback") /\ Now(t, "timeout", c)
         /\ ready' = ready \cup {c} /\ UNCHANGED <<hubCallback, timers, timed>>
      \/ /\ At(t, "timeout") /\ Now(t, "idle", NoCall)
         /\ timers' \in {timers, timers \cup {c}} /\ timed' \subseteq timed \cup {c}
         /\ UNCHANGED <<hubCallback, ready>>
  BY RegisterChanges
<1>3. UNCHANGED <<isMigrate, sourceHub, cacheMsg, made, sent, answered, ended>>
  BY RegisterChanges
<1>4. StepOf(t) BY DEF Steps
<1>5. timers' \subseteq ready' BY <1>2, <1>4, Typed DEF StepOf
<1>6. TypeOK' BY <1>1, <1>2, <1>3, <1>5, Typed, TypedNext DEF Now
<1>7. \A u \in Threads : MadeBy(u)' = MadeBy(u) BY <1>3 DEF MadeBy
<1>8. ASSUME NEW u \in Threads \ {t}, Making(u) PROVE thread[u].call # c
  BY <1>1, <1>8, ThreadNames DEF Steps, StepOf
<1>9. \A u \in Threads \ {t} : StepOf(u)'
  <2> SUFFICES ASSUME NEW u \in Threads \ {t} PROVE StepOf(u)' OBVIOUS
  <2>1. Unset(u) => thread[u].call # c BY <1>8 DEF Unset, Making, Registers
  <2>2. Busy(u) \/ At(u, "register") => thread[u].call # c BY <2>1 DEF Unset
  <2>3. StepOf(u) /\ thread'[u] = thread[u] BY <1>2 DEF Now, Steps
  <2> QED BY <1>2, <1>7, <2>1, <2>2, <2>3, StaysAt
<1>10. StepOf(t)'
  BY <1>1, <1>2, <1>4, <1>7 DEF Now, StepOf, Making, Registers, Unset, Busy, At
<1>11. (At("loop", "idle") \/ Making("loop"))'
  BY <1>2, ThreadNames DEF Now, Steps, Making, Registers, Busy, At
<1>12. (At("main", "answer") \/ At("main", "delete") => thread["main"].call \in ready)'
  BY <1>2, ThreadNames DEF Now, Steps, At
<1>13. c \in MadeCalls /\ MadeCalls' = MadeCalls
  BY <1>1, <1>7, ThreadNames DEF MadeCalls
<1>14. (ready \subseteq MadeCalls /\ hubCallback \subseteq MadeCalls)'
  BY <1>2, <1>13 DEF Steps
<1>15. (\A x \in Requests : ended[x] # {} => x \in ready)' BY <1>2, <1>3 DEF Steps
<1> QED BY <1>6, <1>7, <1>9, <1>10, <1>11, <1>12, <1>14, <1>15, ThreadNames DEF Steps

LEMMA MigrationSteps ==
  ASSUME TypeOK, Steps, \/ OnWaitMigrateEntity
                        \/ \E h \in Hubs : OnMigrateEntityComplete(h)
                        \/ ReplayEnds
  PROVE  TypeOK' /\ Steps'
<1>1. /\ UNCHANGED thread \/ Now("main", "replay", NoCall) \/ Now("main", "idle", NoCall)
      /\ isMigrate' \in BOOLEAN /\ sourceHub' \in Hubs /\ thread' \in [Threads -> Doing]
      /\ UNCHANGED <<cacheMsg, hubCallback, ready, timers, made, sent, answered,
                     ended, timed>>
  BY MigrationChanges
<1>2. TypeOK' BY <1>1, Typed, TypedNext
<1>3. \A u \in Threads : MadeBy(u)' = MadeBy(u) BY <1>1 DEF MadeBy
<1>4. CASE UNCHANGED thread
  <2>1. \A u \in Threads : StepOf(u)' BY <1>1, <1>3, <1>4, StaysAt DEF Steps
  <2> QED
    BY <1>1, <1>2, <1>3, <1>4, <2>1, ThreadNames
    DEF Steps, MadeCalls, At, Making, Registers, Busy
<1>5. ASSUME NEW step \in {"replay", "idle"}, Now("main", step, NoCall) PROVE Steps'
  <2>1. StepOf("main")'
    BY <1>5 DEF Now, StepOf, Making, Registers, Unset, Busy, At
  <2> QED BY <1>1, <1>5, <2>1, MovesOn, ThreadNames DEF Ats
<1> QED BY <1>1, <1>2, <1>4, <1>5

LEMMA ReplaySteps ==
  ASSUME TypeOK, Steps, Replay
  PROVE  TypeOK' /\ Steps'
<1> DEFINE m == [call |-> Head(cacheMsg), hub |-> sourceHub]
<1>1. /\ Head(cacheMsg) \in Calls /\ Tail(cacheMsg) \in Seq(Calls)
      /\ sent' = Append(sent, m) /\ cacheMsg' = Tail(cacheMsg)
      /\ UNCHANGED <<isMigrate, sourceHub, hubCallback, ready, timers, thread, made,
                     answered, ended, timed>>
  BY ReplayChanges
<1>2. m \in Sent BY <1>1, Typed DEF Sent
<1>3. sent' \in Seq(Sent) BY <1>1, <1>2, ToSetAppend, Typed
<1>4. TypeOK' BY <1>1, <1>3, Typed, TypedNext
<1>5. \A u \in Threads : MadeBy(u)' = MadeBy(u) BY <1>1 DEF MadeBy
<1>6. \A u \in Threads : StepOf(u)' BY <1>1, <1>5, StaysAt DEF Steps
<1> QED
  BY <1>1, <1>4, <1>5, <1>6, ThreadNames
  DEF Steps, MadeCalls, At, Making, Registers, Busy

LEMMA AnswerSteps ==
  ASSUME TypeOK, Steps, NEW c \in Requests, Answer(c)
  PROVE  TypeOK' /\ Steps'
<1>1. /\ answered' = answered \cup {c}
      /\ \/ c \in hubCallback \cap ready /\ Now("main", "answer", c)
         \/ UNCHANGED thread
      /\ UNCHANGED <<isMigrate, sourceHub, cacheMsg, hubCallback, ready, timers, made,
                     sent, ended, timed>>
  BY AnswerChanges
<1>2. TypeOK' BY <1>1, Typed, TypedNext DEF Now
<1>3. \A u \in Threads : MadeBy(u)' = MadeBy(u) BY <1>1 DEF MadeBy
<1>4. CASE UNCHANGED thread
  <2>1. \A u \in Threads : StepOf(u)' BY <1>1, <1>3, <1>4, StaysAt DEF Steps
  <2> QED
    BY <1>1, <1>2, <1>3, <1>4, <2>1, ThreadNames
    DEF Steps, MadeCalls, At, Making, Registers, Busy
<1>5. CASE c \in hubCallback \cap ready /\ Now("main", "answer", c)
  <2>1. StepOf("main")'
    BY <1>5 DEF Now, StepOf, Making, Registers, Unset, Busy, At
  <2> QED BY <1>1, <1>2, <1>5, <2>1, MovesOn, ThreadNames DEF Ats, Calls
<1> QED BY <1>1, <1>4, <1>5

LEMMA HandlerSteps ==
  ASSUME TypeOK, Steps, RunHandler \/ Delete
  PROVE  TypeOK' /\ Steps'
<1> DEFINE c == thread["main"].call
<1>1. c \in ready /\ c \in Requests BY HandlerChanges
<1>2. \/ /\ At("main", "answer") /\ Now("main", "delete", c)
         /\ ended' = [ended EXCEPT ![c] = @ \cup {"answer"}]
         /\ UNCHANGED hubCallback
      \/ /\ At("main", "delete") /\ Now("main", "idle", NoCall)
         /\ hubCallback' = hubCallback \ {c} /\ UNCHANGED ended
  BY HandlerChanges
<1>3. UNCHANGED <<isMigrate, sourceHub, cacheMsg, ready, timers, made, sent,
                  answered, timed>>
  BY HandlerChanges
<1> HIDE DEF c
<1>4. ended' \in [Requests -> SUBSET {"answer", "timeout"}] BY <1>1, <1>2, Typed
<1>5. TypeOK' BY <1>2, <1>3, <1>4, Typed, TypedNext DEF Now
<1>6. \A u \in Threads : MadeBy(u)' = MadeBy(u) BY <1>3 DEF MadeBy
<1>7. \A u \in Threads \ {"main"} : StepOf(u)'
  <2> SUFFICES ASSUME NEW u \in Threads \ {"main"} PROVE StepOf(u)' OBVIOUS
  <2>1. StepOf(u) /\ thread'[u] = thread[u] BY <1>2 DEF Now, Steps
  <2>2. At(u, "callback") => thread[u].call # c
    BY <1>1, <2>1 DEF StepOf, Unset
  <2> QED BY <1>2, <1>3, <1>6, <2>1, <2>2, StaysAt
<1>8. StepOf("main")'
  BY <1>2 DEF Now, StepOf, Making, Registers, Unset, Busy, At
<1>9. (At("loop", "idle") \/ Making("loop"))'
  BY <1>2, ThreadNames DEF Now, Steps, Making, Registers, Busy, At
<1>10. (At("main", "answer") \/ At("main", "delete") => thread["main"].call \in ready)'
  BY <1>1, <1>2, <1>3 DEF Now, At
<1>11. (ready \subseteq MadeCalls /\ hubCallback \subseteq MadeCalls)'
  BY <1>2, <1>3, <1>6, ThreadNames DEF Steps, MadeCalls
<1>12. (\A x \in Requests : ended[x] # {} => x \in ready)'
  BY <1>1, <1>2, <1>3, Typed DEF Steps
<1> QED BY <1>5, <1>6, <1>7, <1>8, <1>9, <1>10, <1>11, <1>12, ThreadNames DEF Steps

LEMMA ExpireSteps ==
  ASSUME TypeOK, Steps, NEW c \in Requests, Expire(c)
  PROVE  TypeOK' /\ Steps'
<1>1. /\ c \in timers /\ c \in ready
      /\ timers' = timers \ {c} /\ hubCallback' = hubCallback \ {c}
      /\ ended' = IF c \in hubCallback
                  THEN [ended EXCEPT ![c] = @ \cup {"timeout"}] ELSE ended
      /\ UNCHANGED <<isMigrate, sourceHub, cacheMsg, ready, thread, made, sent,
                     answered, timed>>
  BY ExpireChanges
<1>2. ended' \in [Requests -> SUBSET {"answer", "timeout"}] BY <1>1, Typed
<1>3. TypeOK' BY <1>1, <1>2, Typed, TypedNext
<1>4. \A u \in Threads : MadeBy(u)' = MadeBy(u) BY <1>1 DEF MadeBy
<1>5. \A u \in Threads : StepOf(u)'
  <2> SUFFICES ASSUME NEW u \in Threads PROVE StepOf(u)' OBVIOUS
  <2>1. StepOf(u) /\ thread'[u] = thread[u] BY <1>1 DEF Steps
  <2>2. At(u, "callback") => thread[u].call # c
    BY <1>1, <2>1 DEF StepOf, Unset
  <2> QED BY <1>1, <1>4, <2>1, <2>2, StaysAt
<1>6. (\A x \in Requests : ended[x] # {} => x \in ready)' BY <1>1, Typed DEF Steps
<1> QED
  BY <1>1, <1>3, <1>4, <1>5, <1>6, ThreadNames
  DEF Steps, MadeCalls, At, Making, Registers, Busy

\* The steps of Next, one by one.
LEMMA StepIsOneOf ==
  ASSUME [Next]_vars
  PROVE  \/ \E t \in Threads, c \in Calls : Call(t, c)
         \/ \E t \in Threads : ReadHub(t) \/ Send(t)
         \/ \E t \in Threads : RegHubCallback(t) \/ SetHandlers(t) \/ SetTimeout(t)
         \/ OnWaitMigrateEntity \/ (\E h \in Hubs : OnMigrateEntityComplete(h))
         \/ ReplayEnds \/ Replay
         \/ RunHandler \/ Delete
         \/ \E c \in Requests : Answer(c) \/ Expire(c)
         \/ UNCHANGED vars
BY ThreadNames DEF Next, MainSteps, CallSteps

LEMMA StepsStep == TypeOK /\ Steps /\ [Next]_vars => TypeOK' /\ Steps'
<1> SUFFICES ASSUME TypeOK, Steps, [Next]_vars PROVE TypeOK' /\ Steps' OBVIOUS
<1>1. ASSUME UNCHANGED vars PROVE TypeOK' /\ Steps'
  <2>1. TypeOK' BY <1>1, Typed, TypedNext DEF vars, subentity, callbacks, history
  <2>2. \A u \in Threads : MadeBy(u)' = MadeBy(u) BY <1>1 DEF vars, history, MadeBy
  <2>3. UNCHANGED <<thread, ready, hubCallback, ended>>
    BY <1>1 DEF vars, callbacks, history
  <2>4. \A u \in Threads : StepOf(u)' BY <2>2, <2>3, StaysAt DEF Steps
  <2> QED
    BY <2>1, <2>2, <2>3, <2>4, ThreadNames
    DEF Steps, MadeCalls, At, Making, Registers, Busy
<1> QED
  BY <1>1, StepIsOneOf, CallKeepsSteps, ReadHubKeepsSteps, SendSteps, RegisterSteps,
     MigrationSteps, ReplaySteps, AnswerSteps, HandlerSteps, ExpireSteps

\* The tables, the list of parked calls and what the threads are at keep their
\* kinds, and a timer runs only for a request that has its handlers.
THEOREM CallsTypeCorrect == Spec => []TypeOK
<1>1. Spec => [](TypeOK /\ Steps) BY InitSteps, StepsStep, PTL DEF Spec
<1> QED BY <1>1, PTL

-----------------------------------------------------------------------------
(* No call is lost or sent twice.                                          *)

\* A call is parked, with a thread, or has left.
Carried(c) ==
  \/ c \in ToSet(cacheMsg) \/ c \in SentCalls
  \/ \E t \in Threads : Busy(t) /\ thread[t].call = c

Once ==
  /\ \A c \in Calls : c \in MadeCalls <=> Carried(c)
  /\ ToSet(cacheMsg) \cap SentCalls = {}
  /\ \A t \in Threads :
       Busy(t) => thread[t].call \notin ToSet(cacheMsg) /\ thread[t].call \notin SentCalls
  /\ IsInjective(cacheMsg)
  /\ \A i, j \in DOMAIN sent : sent[i].call = sent[j].call => i = j

LEMMA SentAppended ==
  ASSUME TypeOK, NEW c \in Calls, NEW h \in Hubs,
         sent' = Append(sent, [call |-> c, hub |-> h])
  PROVE  /\ Len(sent) \in Nat /\ DOMAIN sent = 1 .. Len(sent)
         /\ DOMAIN sent' = 1 .. Len(sent) + 1
         /\ \A i \in 1 .. Len(sent) : sent'[i] = sent[i] /\ sent[i].call \in SentCalls
         /\ sent'[Len(sent) + 1].call = c /\ sent'[Len(sent) + 1].hub = h
         /\ Last(sent') = sent'[Len(sent) + 1]
         /\ SentCalls' = SentCalls \cup {c}
<1> DEFINE m == [call |-> c, hub |-> h]
<1>1. m \in Sent /\ m.call = c /\ m.hub = h /\ sent \in Seq(Sent)
  BY Typed DEF Sent
<1> HIDE DEF m
<1>2. /\ Len(sent) \in Nat /\ DOMAIN sent = 1 .. Len(sent)
      /\ DOMAIN sent' = 1 .. Len(sent) + 1
      /\ \A i \in 1 .. Len(sent) : sent'[i] = sent[i]
      /\ sent'[Len(sent) + 1] = m
  <2>1. sent' = Append(sent, m) BY DEF m
  <2> QED BY <1>1, <2>1, AppendPoints
<1>3. Last(sent') = sent'[Len(sent) + 1]
  <2>1. Len(sent') = Len(sent) + 1
    <3>1. sent' = Append(sent, m) BY DEF m
    <3> QED BY <1>1, <3>1
  <2> QED BY <2>1 DEF Last
<1>4. \A i \in 1 .. Len(sent) : sent[i].call \in SentCalls
  BY <1>2 DEF SentCalls
<1>5. /\ Len(sent) + 1 \in 1 .. Len(sent) + 1
      /\ \A i \in 1 .. Len(sent) + 1 : i \in 1 .. Len(sent) \/ i = Len(sent) + 1
      /\ \A i \in 1 .. Len(sent) : i \in 1 .. Len(sent) + 1
  BY <1>2
<1>6. SentCalls' = SentCalls \cup {c} BY <1>1, <1>2, <1>5 DEF SentCalls
<1> QED BY <1>1, <1>2, <1>3, <1>4, <1>6

LEMMA InitOnce == Init => Once
<1> SUFFICES ASSUME Init PROVE Once OBVIOUS
<1>1. Idle.at = "idle" BY DEF Idle
<1>2. \A t \in Threads : ~Busy(t) /\ MadeBy(t) = {}
  BY <1>1, ToSetEmpty DEF Init, At, MadeBy, Busy
<1>3. SentCalls = {} /\ DOMAIN sent = {} /\ DOMAIN cacheMsg = {} /\ ToSet(cacheMsg) = {}
  BY ToSetEmpty DEF Init, SentCalls
<1> QED BY <1>2, <1>3, ThreadNames DEF Once, Carried, MadeCalls, IsInjective

\* Steps that neither make a call, nor park, take up or send one.
LEMMA OnceKept ==
  ASSUME Once, UNCHANGED <<made, cacheMsg, sent>>,
         \A t \in Threads : /\ Busy(t)' <=> Busy(t)
                            /\ Busy(t) => thread'[t].call = thread[t].call
  PROVE  Once'
<1>1. MadeCalls' = MadeCalls /\ SentCalls' = SentCalls
  BY DEF MadeCalls, MadeBy, SentCalls
<1>2. \A c \in Calls : Carried(c)' <=> Carried(c) BY <1>1 DEF Carried
<1> QED BY <1>1, <1>2 DEF Once

LEMMA CallOnce ==
  ASSUME TypeOK, Steps, Once, NEW t \in Threads, NEW c \in Calls, Call(t, c)
  PROVE  Once'
<1>1. /\ At(t, "idle") /\ c \in Unmade
      /\ made' = [made EXCEPT ![t] = Append(@, c)]
      /\ \/ /\ cacheMsg' = Append(cacheMsg, c)
            /\ \/ c \in Requests /\ Now(t, "register", c)
               \/ c \notin Requests /\ Now(t, "idle", NoCall)
         \/ cacheMsg' = cacheMsg /\ Now(t, "direct", c)
      /\ UNCHANGED sent
  BY CallStepChanges
<1>2. MadeCalls' = MadeCalls \cup {c} /\ c \notin MadeCalls BY <1>1, NewCall
<1>3. SentCalls' = SentCalls BY <1>1 DEF SentCalls
<1>4. /\ c \notin ToSet(cacheMsg) /\ c \notin SentCalls
      /\ \A u \in Threads : Busy(u) => thread[u].call # c
  BY <1>2 DEF Once, Carried
<1>5. ~Busy(t) BY <1>1 DEF Busy, At
<1>6. \A u \in Threads \ {t} : thread'[u] = thread[u] /\ (Busy(u)' <=> Busy(u))
  BY <1>1 DEF Now, Busy, At
<1>7. cacheMsg \in Seq(Calls) BY Typed
<1>8. CASE cacheMsg' = Append(cacheMsg, c) /\ ~Busy(t)'
  <2>1. ToSet(cacheMsg)' = ToSet(cacheMsg) \cup {c} BY <1>7, <1>8, ToSetAppend
  <2>2. IsInjective(cacheMsg)' BY <1>4, <1>7, <1>8, InjectiveAppend DEF Once
  <2>3. \A x \in Calls : Carried(x)' <=> Carried(x) \/ x = c
    BY <1>3, <1>5, <1>6, <1>8, <2>1 DEF Carried
  <2> QED
    BY <1>1, <1>2, <1>3, <1>4, <1>5, <1>6, <1>8, <2>1, <2>2, <2>3 DEF Once
<1>9. CASE cacheMsg' = cacheMsg /\ Busy(t)' /\ thread'[t].call = c
  <2>1. \A x \in Calls : Carried(x)' <=> Carried(x) \/ x = c
    BY <1>3, <1>5, <1>6, <1>9 DEF Carried
  <2> QED BY <1>1, <1>2, <1>3, <1>4, <1>5, <1>6, <1>9, <2>1 DEF Once
<1> QED BY <1>1, <1>8, <1>9 DEF Now, Busy, At

LEMMA SendOnce ==
  ASSUME TypeOK, Steps, Once, NEW t \in Threads, Send(t)
  PROVE  Once'
<1> DEFINE c == thread[t].call
           n == Len(sent)
<1>1. /\ At(t, "send") /\ c \in Calls /\ c \in MadeBy(t) /\ thread[t].hub \in Hubs
      /\ sent' = Append(sent, [call |-> c, hub |-> thread[t].hub])
      /\ Now(t, "register", c) \/ Now(t, "idle", NoCall)
      /\ UNCHANGED <<cacheMsg, made>>
  BY SendChanges
<1>2. /\ n \in Nat /\ DOMAIN sent = 1 .. n /\ DOMAIN sent' = 1 .. n + 1
      /\ \A i \in 1 .. n : sent'[i] = sent[i] /\ sent[i].call \in SentCalls
      /\ sent'[n + 1].call = c
      /\ SentCalls' = SentCalls \cup {c}
  BY <1>1, SentAppended
<1>3. Busy(t) /\ ~Busy(t)' BY <1>1 DEF Now, Busy, At
<1>4. \A u \in Threads \ {t} : /\ thread'[u] = thread[u] /\ (Busy(u)' <=> Busy(u))
                               /\ Busy(u) => thread[u].call # c
  <2>1. \A u \in Threads \ {t} : thread'[u] = thread[u] /\ (Busy(u)' <=> Busy(u))
    BY <1>1 DEF Now, Busy, At
  <2>2. \A u \in Threads \ {t} : Busy(u) => thread[u].call # c
    BY <1>1, ThreadNames DEF Steps, StepOf, Making
  <2> QED BY <2>1, <2>2
<1>5. c \notin ToSet(cacheMsg) /\ c \notin SentCalls BY <1>3 DEF Once
<1> HIDE DEF c, n
<1>6. \A x \in Calls : Carried(x)' <=> Carried(x)
  <2> SUFFICES ASSUME NEW x \in Calls PROVE Carried(x)' <=> Carried(x) OBVIOUS
  <2>1. CASE x = c BY <1>2, <1>3, <2>1 DEF Carried, c
  <2>2. CASE x # c
    <3>1. (x \in ToSet(cacheMsg)' <=> x \in ToSet(cacheMsg))
          /\ (x \in SentCalls' <=> x \in SentCalls)
      BY <1>1, <1>2, <2>2
    <3>2. ASSUME NEW u \in Threads
          PROVE  Busy(u)' /\ thread'[u].call = x <=> Busy(u) /\ thread[u].call = x
      BY <1>3, <1>4, <2>2 DEF c
    <3> QED BY <3>1, <3>2 DEF Carried
  <2> QED BY <2>1, <2>2
<1>7. MadeCalls' = MadeCalls BY <1>1 DEF MadeCalls, MadeBy
<1>8. \A i, j \in DOMAIN sent' : sent'[i].call = sent'[j].call => i = j
  <2>1. \A i \in 1 .. n + 1 : i \in 1 .. n \/ i = n + 1 BY <1>2
  <2> QED BY <1>2, <1>5, <2>1 DEF Once
<1> QED BY <1>1, <1>2, <1>3, <1>4, <1>5, <1>6, <1>7, <1>8 DEF Once

LEMMA ReplayOnce ==
  ASSUME TypeOK, Steps, Once, Replay
  PROVE  Once'
<1> DEFINE c == Head(cacheMsg)
           n == Len(sent)
<1>1. /\ cacheMsg # <<>> /\ c \in Calls /\ cacheMsg \in Seq(Calls) /\ sourceHub \in Hubs
      /\ sent' = Append(sent, [call |-> c, hub |-> sourceHub])
      /\ cacheMsg' = Tail(cacheMsg)
      /\ UNCHANGED <<thread, made>>
  BY ReplayChanges, Typed
<1>2. /\ n \in Nat /\ DOMAIN sent = 1 .. n /\ DOMAIN sent' = 1 .. n + 1
      /\ \A i \in 1 .. n : sent'[i] = sent[i] /\ sent[i].call \in SentCalls
      /\ sent'[n + 1].call = c
      /\ SentCalls' = SentCalls \cup {c}
  BY <1>1, SentAppended
<1>3. /\ IsInjective(cacheMsg)' /\ c \notin ToSet(cacheMsg)'
      /\ ToSet(cacheMsg) = {c} \cup ToSet(cacheMsg)'
  BY <1>1, InjectiveTail DEF Once
<1>4. \A u \in Threads : Busy(u)' <=> Busy(u) BY <1>1 DEF Busy, At
<1>5. c \notin SentCalls BY <1>3 DEF Once
<1> HIDE DEF c, n
<1>6. \A x \in Calls : Carried(x)' <=> Carried(x)
  BY <1>1, <1>2, <1>3, <1>4 DEF Carried
<1>7. MadeCalls' = MadeCalls BY <1>1 DEF MadeCalls, MadeBy
<1>8. \A i, j \in DOMAIN sent' : sent'[i].call = sent'[j].call => i = j
  <2>1. \A i \in 1 .. n + 1 : i \in 1 .. n \/ i = n + 1 BY <1>2
  <2> QED BY <1>2, <1>5, <2>1 DEF Once
<1>9. \A u \in Threads : Busy(u)' => /\ thread'[u].call \notin ToSet(cacheMsg)'
                                     /\ thread'[u].call \notin SentCalls'
  BY <1>1, <1>2, <1>3, <1>4 DEF Once
<1> QED BY <1>1, <1>2, <1>3, <1>6, <1>7, <1>8, <1>9 DEF Once

\* A thread that is not about to send a call, before and after its step.
LEMMA NotBusy ==
  ASSUME NEW t \in Threads, NEW step, NEW c, Now(t, step, c), ~Busy(t),
         step \notin {"direct", "send"}
  PROVE  \A u \in Threads : /\ Busy(u)' <=> Busy(u)
                            /\ Busy(u) => thread'[u].call = thread[u].call
BY DEF Now, Busy, At

LEMMA OnceStep == TypeOK /\ Steps /\ Once /\ [Next]_vars => Once'
<1> SUFFICES ASSUME TypeOK, Steps, Once, [Next]_vars PROVE Once' OBVIOUS
<1>1. ASSUME UNCHANGED thread, UNCHANGED <<made, cacheMsg, sent>> PROVE Once'
  BY <1>1, OnceKept DEF Busy, At
<1>2. ASSUME NEW t \in Threads, ReadHub(t) PROVE Once'
  <2>1. /\ At(t, "direct") /\ Now(t, "send", thread[t].call)
        /\ UNCHANGED <<made, cacheMsg, sent>>
    BY <1>2, ReadHubChanges
  <2> QED BY <2>1, OnceKept DEF Now, Busy, At
<1>3. ASSUME NEW t \in Threads, RegHubCallback(t) \/ SetHandlers(t) \/ SetTimeout(t)
      PROVE  Once'
  <2>1. PICK step \in {"callback", "timeout", "idle"}, c \in Calls \cup {NoCall} :
          Now(t, step, c) /\ ~Busy(t)
    BY <1>3, RegisterChanges DEF Busy, At
  <2>2. UNCHANGED <<made, cacheMsg, sent>> BY <1>3, RegisterChanges
  <2> QED BY <2>1, <2>2, OnceKept, NotBusy
<1>4. ASSUME \/ OnWaitMigrateEntity \/ (\E h \in Hubs : OnMigrateEntityComplete(h))
             \/ ReplayEnds
      PROVE  Once'
  <2>1. /\ \/ UNCHANGED thread
           \/ ~Busy("main") /\ Now("main", "replay", NoCall)
           \/ ~Busy("main") /\ Now("main", "idle", NoCall)
        /\ UNCHANGED <<made, cacheMsg, sent>>
    BY <1>4, MigrationChanges DEF Busy, At
  <2> QED BY <1>1, <2>1, OnceKept, NotBusy, ThreadNames
<1>5. ASSUME NEW c \in Requests, Answer(c) PROVE Once'
  <2>1. /\ UNCHANGED thread \/ (~Busy("main") /\ Now("main", "answer", c))
        /\ UNCHANGED <<made, cacheMsg, sent>>
    BY <1>5, AnswerChanges DEF Busy, At
  <2> QED BY <1>1, <2>1, OnceKept, NotBusy, ThreadNames
<1>6. ASSUME RunHandler \/ Delete PROVE Once'
  <2>1. PICK step \in {"delete", "idle"}, c \in Calls \cup {NoCall} :
          Now("main", step, c) /\ ~Busy("main")
    BY <1>6, HandlerChanges DEF Busy, At, Calls
  <2>2. UNCHANGED <<made, cacheMsg, sent>> BY <1>6, HandlerChanges
  <2> QED BY <2>1, <2>2, OnceKept, NotBusy, ThreadNames
<1>7. ASSUME NEW c \in Requests, Expire(c) PROVE Once' BY <1>1, <1>7, ExpireChanges
<1>8. ASSUME UNCHANGED vars PROVE Once' BY <1>1, <1>8 DEF vars, subentity, history
<1> QED
  BY <1>2, <1>3, <1>4, <1>5, <1>6, <1>7, <1>8, StepIsOneOf, CallOnce, SendOnce, ReplayOnce

LEMMA OnceIsSentOnce == TypeOK /\ Steps /\ Once => SentOnce
<1> SUFFICES ASSUME TypeOK, Steps, Once PROVE SentOnce OBVIOUS
<1>1. \A c : c \in OnTheWay <=>
        \/ c \in ToSet(cacheMsg)
        \/ \E t \in Threads : Busy(t) /\ thread[t].call = c
  BY DEF OnTheWay, Busy
<1>2. OnTheWay \cap SentCalls = {} BY <1>1 DEF Once
<1>3. OnTheWay \cup SentCalls \subseteq Calls
  <2>1. ToSet(cacheMsg) \subseteq Calls BY Typed DEF ToSet
  <2>2. SentCalls \subseteq Calls
    <3>1. \A i \in DOMAIN sent : sent[i] \in Sent BY Typed
    <3> QED BY <3>1 DEF SentCalls, Sent
  <2>3. \A t \in Threads : Busy(t) => thread[t].call \in Calls
    <3>1. \A t \in Threads : MadeBy(t) \subseteq Calls BY Typed DEF MadeBy, ToSet
    <3> QED BY <3>1 DEF Steps, StepOf, Making
  <2> QED BY <1>1, <2>1, <2>2, <2>3
<1>4. \A c \in Calls : c \in OnTheWay \cup SentCalls <=> c \in Calls \ Unmade
  <2>1. \A c \in Calls : c \in OnTheWay \cup SentCalls <=> Carried(c)
    BY <1>1 DEF Carried
  <2>2. \A c \in Calls : c \in MadeCalls <=> c \in Calls \ Unmade
    BY DEF MadeCalls, Unmade
  <2> QED BY <2>1, <2>2 DEF Once
<1>5. OnTheWay \cup SentCalls = Calls \ Unmade BY <1>3, <1>4
<1> QED BY <1>2, <1>5 DEF Once, SentOnce

\* However the migration, the replay of what was parked and the calls of two
\* threads interleave, every call that was made is parked, or with its thread,
\* or has left this hub, and just one of these, and it leaves once.
THEOREM CallsLeaveOnce == Spec => []SentOnce
<1>1. Spec => [](TypeOK /\ Steps) BY InitSteps, StepsStep, PTL DEF Spec
<1>2. Spec => []Once BY <1>1, InitOnce, OnceStep, PTL DEF Spec
<1> QED BY <1>1, <1>2, OnceIsSentOnce, PTL

-----------------------------------------------------------------------------
(* The order of the main thread's calls, and where they go.                *)

\* While the main thread sends a call or the parked ones the entity does not
\* migrate, and but for the replay nothing is parked then.
Still ==
  /\ Busy("main") => ~isMigrate /\ cacheMsg = <<>>
  /\ At("main", "replay") => ~isMigrate
  /\ ~isMigrate /\ ~At("main", "replay") => cacheMsg = <<>>
  /\ At("main", "send") => thread["main"].hub = sourceHub

LEMMA InitStill == Init => Still
BY DEF Init, Still, Busy, At, Idle, Threads

\* Steps that leave the migration and what is parked alone, and leave the main
\* thread out of what Still is about.
LEMMA StillKept ==
  ASSUME Still, UNCHANGED <<isMigrate, sourceHub, cacheMsg>>,
         \/ thread'["main"] = thread["main"]
         \/ /\ thread'["main"].at \notin {"direct", "send", "replay"}
            /\ ~At("main", "replay")
  PROVE  Still'
BY DEF Still, Busy, At

LEMMA StillStep == TypeOK /\ Steps /\ Still /\ [Next]_vars => Still'
<1> SUFFICES ASSUME TypeOK, Steps, Still, [Next]_vars PROVE Still' OBVIOUS
<1>1. ASSUME NEW t \in Threads, NEW c \in Calls, Call(t, c) PROVE Still'
  <2>1. /\ At(t, "idle") /\ UNCHANGED <<isMigrate, sourceHub>>
        /\ \/ isMigrate /\ (Now(t, "register", c) \/ Now(t, "idle", NoCall))
           \/ ~isMigrate /\ cacheMsg' = cacheMsg /\ Now(t, "direct", c)
    BY <1>1, CallStepChanges
  <2>2. CASE t = "main" BY <2>1, <2>2 DEF Now, Still, Busy, At
  <2>3. CASE t # "main"
    <3>1. thread'["main"] = thread["main"] BY <2>1, <2>3, ThreadNames DEF Now
    <3> QED BY <2>1, <3>1 DEF Still, Busy, At
  <2> QED BY <2>2, <2>3
<1>2. ASSUME NEW t \in Threads, ReadHub(t) PROVE Still'
  <2>1. /\ At(t, "direct") /\ Now(t, "send", thread[t].call)
        /\ thread'[t].hub = sourceHub
        /\ UNCHANGED <<isMigrate, sourceHub, cacheMsg>>
    BY <1>2, ReadHubChanges
  <2>2. CASE t = "main" BY <2>1, <2>2 DEF Now, Still, Busy, At
  <2>3. CASE t # "main" BY <2>1, <2>3, StillKept, ThreadNames DEF Now
  <2> QED BY <2>2, <2>3
<1>3. ASSUME NEW t \in Threads, Send(t) PROVE Still'
  <2>1. /\ At(t, "send") /\ UNCHANGED <<isMigrate, sourceHub, cacheMsg>>
        /\ Now(t, "register", thread[t].call) \/ Now(t, "idle", NoCall)
    BY <1>3, SendChanges
  <2>2. CASE t = "main" BY <2>1, <2>2, StillKept DEF Now, At
  <2>3. CASE t # "main" BY <2>1, <2>3, StillKept, ThreadNames DEF Now
  <2> QED BY <2>2, <2>3
<1>4. ASSUME NEW t \in Threads, RegHubCallback(t) \/ SetHandlers(t) \/ SetTimeout(t)
      PROVE  Still'
  <2>1. PICK step \in {"callback", "timeout", "idle"}, c \in Calls \cup {NoCall} :
          Now(t, step, c) /\ ~At(t, "replay")
    BY <1>4, RegisterChanges DEF At
  <2>2. UNCHANGED <<isMigrate, sourceHub, cacheMsg>> BY <1>4, RegisterChanges
  <2>3. CASE t = "main" BY <2>1, <2>2, <2>3, StillKept DEF Now
  <2>4. CASE t # "main" BY <2>1, <2>2, <2>4, StillKept, ThreadNames DEF Now
  <2> QED BY <2>3, <2>4
<1>5. ASSUME \/ OnWaitMigrateEntity \/ (\E h \in Hubs : OnMigrateEntityComplete(h))
             \/ ReplayEnds
      PROVE  Still'
  BY <1>5, MigrationChanges DEF Now, Still, Busy, At
<1>6. ASSUME Replay PROVE Still'
  BY <1>6, ReplayChanges DEF Still, Busy, At
<1>7. ASSUME NEW c \in Requests, Answer(c) PROVE Still'
  BY <1>7, AnswerChanges, StillKept DEF Now, At
<1>8. ASSUME RunHandler \/ Delete PROVE Still'
  BY <1>8, HandlerChanges, StillKept DEF Now, At
<1>9. ASSUME NEW c \in Requests, Expire(c) PROVE Still'
  BY <1>9, ExpireChanges, StillKept
<1>10. ASSUME UNCHANGED vars PROVE Still' BY <1>10, StillKept DEF vars, subentity
<1> QED
  BY <1>1, <1>2, <1>3, <1>4, <1>5, <1>6, <1>7, <1>8, <1>9, <1>10, StepIsOneOf

\* No call of the main thread that was parked is behind a later one.
ParkedInOrder ==
  \A i \in DOMAIN cacheMsg, k \in DOMAIN made["main"] : cacheMsg[i] = made["main"][k] =>
    \A earlier \in 1 .. k - 1 :
      \/ made["main"][earlier] \in SentCalls
      \/ \E j \in 1 .. i - 1 : cacheMsg[j] = made["main"][earlier]

Order == MainKeepsOrder /\ ParkedInOrder /\ IsInjective(made["main"])

LEMMA InitOrder == Init => Order
<1> SUFFICES ASSUME Init PROVE Order OBVIOUS
<1>1. DOMAIN sent = {} /\ DOMAIN cacheMsg = {} /\ DOMAIN made["main"] = {}
  BY ThreadNames DEF Init
<1> QED BY <1>1 DEF Order, MainKeepsOrder, ParkedInOrder, IsInjective

LEMMA OrderKept ==
  ASSUME Order, made'["main"] = made["main"], UNCHANGED <<cacheMsg, sent>>
  PROVE  Order'
BY DEF Order, MainKeepsOrder, ParkedInOrder, SentCalls

\* The calls of the main thread, by their places.
LEMMA MainCalls ==
  ASSUME TypeOK
  PROVE  /\ made["main"] \in Seq(Calls) /\ Len(made["main"]) \in Nat
         /\ DOMAIN made["main"] = 1 .. Len(made["main"])
         /\ \A k \in DOMAIN made["main"] :
              /\ made["main"][k] \in MadeBy("main") /\ made["main"][k] \in Calls
              /\ made["main"][k] \in MadeCalls
              /\ \A e \in 1 .. k - 1 : e \in DOMAIN made["main"] /\ e # k
<1>1. made["main"] \in Seq(Calls) BY Typed, ThreadNames
<1>2. Len(made["main"]) \in Nat /\ DOMAIN made["main"] = 1 .. Len(made["main"])
  BY <1>1
<1>3. \A k \in DOMAIN made["main"] :
        made["main"][k] \in MadeBy("main") /\ made["main"][k] \in Calls
  BY <1>1 DEF MadeBy, ToSet
<1> QED BY <1>1, <1>2, <1>3 DEF MadeCalls

\* Where an earlier call of the main thread is when the thread has another one.
LEMMA EarlierIs ==
  ASSUME TypeOK, Steps, Once, NEW x \in MadeBy("main"), x \in Calls,
         ~Busy("main") \/ thread["main"].call # x
  PROVE  x \in ToSet(cacheMsg) \/ x \in SentCalls
<1>1. Carried(x) BY DEF Once, MadeCalls
<1>2. ASSUME NEW t \in Threads, Busy(t), thread[t].call = x PROVE FALSE
  <2>1. t = "loop" BY <1>2, ThreadNames
  <2>2. x \in MadeBy("loop") BY <1>2, <2>1 DEF Steps, StepOf, Making
  <2> QED BY <2>2 DEF Steps
<1> QED BY <1>1, <1>2 DEF Carried

LEMMA CallOrder ==
  ASSUME TypeOK, Steps, Once, Order, NEW t \in Threads, NEW c \in Calls, Call(t, c)
  PROVE  Order'
<1> DEFINE s == made["main"]
           n == Len(made["main"])
           m == Len(cacheMsg)
<1>1. /\ At(t, "idle") /\ c \in Unmade
      /\ made' = [made EXCEPT ![t] = Append(@, c)]
  BY CallStepChanges
<1>1a. sent' = sent /\ (cacheMsg' = Append(cacheMsg, c) \/ cacheMsg' = cacheMsg)
  BY CallStepChanges
<1>1b. sent' = sent BY <1>1a
<1>2. /\ made'[t] = Append(made[t], c) /\ \A u \in Threads \ {t} : made'[u] = made[u]
      /\ c \notin MadeCalls /\ c \notin MadeBy("main")
  BY <1>1, NewCall, ThreadNames
<1>3. c \notin ToSet(cacheMsg) /\ c \notin SentCalls BY <1>2 DEF Once, Carried
<1>4. /\ s \in Seq(Calls) /\ n \in Nat /\ DOMAIN s = 1 .. n
      /\ \A k \in 1 .. n : s[k] \in MadeBy("main") /\ s[k] \in Calls
  BY MainCalls
<1>5. /\ cacheMsg \in Seq(Calls) /\ m \in Nat /\ DOMAIN cacheMsg = 1 .. m
      /\ \A i \in 1 .. m : cacheMsg[i] \in ToSet(cacheMsg)
  BY Typed DEF ToSet
<1>6. SentCalls' = SentCalls /\ \A i \in DOMAIN sent : sent[i].call \in SentCalls
  BY <1>1b DEF SentCalls
<1>7. \/ DOMAIN cacheMsg' = 1 .. m /\ cacheMsg' = cacheMsg
      \/ /\ DOMAIN cacheMsg' = 1 .. m + 1 /\ cacheMsg'[m + 1] = c
         /\ \A i \in 1 .. m : cacheMsg'[i] = cacheMsg[i]
  BY <1>5, <1>1a, AppendPoints
<1> HIDE DEF s, n, m
<1>8. CASE t # "main"
  <2>1. made'["main"] = s BY <1>2, <1>8, ThreadNames DEF s
  <2>2. MainKeepsOrder' BY <1>1b, <2>1 DEF Order, MainKeepsOrder, s
  <2>3. ParkedInOrder'
    <3> SUFFICES ASSUME NEW i \in DOMAIN cacheMsg', NEW k \in 1 .. n,
                        cacheMsg'[i] = s[k], NEW e \in 1 .. k - 1
                 PROVE  s[e] \in SentCalls \/ \E j \in 1 .. i - 1 : cacheMsg'[j] = s[e]
      BY <1>4, <1>6, <2>1 DEF ParkedInOrder
    <3>1. i \in 1 .. m /\ cacheMsg[i] = s[k] BY <1>2, <1>4, <1>5, <1>7
    <3>2. s[e] \in SentCalls \/ \E j \in 1 .. i - 1 : cacheMsg[j] = s[e]
      BY <1>4, <1>5, <3>1 DEF Order, ParkedInOrder, s
    <3>3. \A j \in 1 .. i - 1 : j \in 1 .. m BY <1>5, <3>1
    <3> QED BY <1>7, <3>2, <3>3
  <2> QED BY <2>1, <2>2, <2>3 DEF Order, s
<1>9. CASE t = "main"
  <2>1. /\ DOMAIN made'["main"] = 1 .. n + 1 /\ made'["main"][n + 1] = c
        /\ \A k \in 1 .. n : made'["main"][k] = s[k]
    <3>1. made'["main"] = Append(s, c) BY <1>2, <1>9 DEF s
    <3>2. n = Len(s) BY DEF s, n
    <3> QED BY <1>4, <3>1, <3>2, AppendPoints
  <2>2. IsInjective(made["main"])'
    <3>1. \A k \in 1 .. n + 1 : k \in 1 .. n \/ k = n + 1 BY <1>4
    <3>2. \A k \in 1 .. n : s[k] # c BY <1>2, <1>4
    <3>3. \A j, k \in 1 .. n : s[j] = s[k] => j = k BY <1>4 DEF Order, IsInjective, s
    <3> QED BY <2>1, <3>1, <3>2, <3>3 DEF IsInjective
  <2>3. MainKeepsOrder'
    <3> SUFFICES ASSUME NEW i \in DOMAIN sent, NEW k \in 1 .. n + 1,
                        sent[i].call = made'["main"][k], NEW e \in 1 .. k - 1
                 PROVE  \E j \in 1 .. i - 1 : sent[j].call = made'["main"][e]
      BY <1>1b, <2>1 DEF MainKeepsOrder
    <3>1. k # n + 1 BY <1>3, <1>6, <2>1
    <3>2. k \in 1 .. n /\ e \in 1 .. n BY <1>4, <3>1
    <3>3. sent[i].call = s[k] BY <2>1, <3>2
    <3>4. \E j \in 1 .. i - 1 : sent[j].call = s[e]
      BY <1>4, <3>2, <3>3 DEF Order, MainKeepsOrder, s
    <3> QED BY <2>1, <3>2, <3>4
  <2>4. ParkedInOrder'
    <3> SUFFICES ASSUME NEW i \in DOMAIN cacheMsg', NEW k \in 1 .. n + 1,
                        cacheMsg'[i] = made'["main"][k], NEW e \in 1 .. k - 1
                 PROVE  \/ made'["main"][e] \in SentCalls
                        \/ \E j \in 1 .. i - 1 : cacheMsg'[j] = made'["main"][e]
      BY <1>6, <2>1 DEF ParkedInOrder
    <3>1. e \in 1 .. n /\ made'["main"][e] = s[e] BY <1>4, <2>1
    <3>2. CASE i \in 1 .. m
      <4>1. cacheMsg'[i] = cacheMsg[i] /\ cacheMsg[i] # c BY <1>3, <1>5, <1>7, <3>2
      <4>2. k \in 1 .. n /\ cacheMsg[i] = s[k]
        <5>1. k \in 1 .. n \/ k = n + 1 BY <1>4
        <5> QED BY <2>1, <4>1, <5>1
      <4>3. s[e] \in SentCalls \/ \E j \in 1 .. i - 1 : cacheMsg[j] = s[e]
        BY <1>4, <1>5, <3>2, <4>2 DEF Order, ParkedInOrder, s
      <4>4. \A j \in 1 .. i - 1 : j \in 1 .. m BY <1>5, <3>2
      <4> QED BY <1>7, <3>1, <4>3, <4>4
    <3>3. CASE i \notin 1 .. m
      <4>1. i = m + 1 /\ \A j \in 1 .. m : cacheMsg'[j] = cacheMsg[j]
        BY <1>5, <1>7, <3>3
      <4>2. s[e] \in MadeBy("main") /\ s[e] \in Calls BY <1>4, <3>1
      <4>3. ~Busy("main") BY <1>1, <1>9 DEF Busy, At
      <4>4. s[e] \in ToSet(cacheMsg) \/ s[e] \in SentCalls BY <4>2, <4>3, EarlierIs
      <4>5. s[e] \in ToSet(cacheMsg) => \E j \in 1 .. m : cacheMsg[j] = s[e]
        BY <1>5 DEF ToSet
      <4>6. (m + 1) - 1 = m BY <1>5
      <4> QED BY <3>1, <4>1, <4>4, <4>5, <4>6
    <3> QED BY <3>2, <3>3
  <2> QED BY <2>2, <2>3, <2>4 DEF Order
<1> QED BY <1>8, <1>9

\* A call x leaves when all that the main thread called before it have left.
LEMMA LeavesInOrder ==
  ASSUME TypeOK, MainKeepsOrder, NEW x \in Calls, NEW h \in Hubs,
         sent' = Append(sent, [call |-> x, hub |-> h]),
         made'["main"] = made["main"],
         \A k \in DOMAIN made["main"] : made["main"][k] = x =>
           \A e \in 1 .. k - 1 : made["main"][e] \in SentCalls
  PROVE  MainKeepsOrder'
<1> DEFINE n == Len(sent)
<1>1. /\ n \in Nat /\ DOMAIN sent = 1 .. n /\ DOMAIN sent' = 1 .. n + 1
      /\ \A i \in 1 .. n : sent'[i] = sent[i]
      /\ sent'[n + 1].call = x
  BY SentAppended
<1>2. ASSUME NEW y \in SentCalls PROVE \E j \in 1 .. n : sent[j].call = y
  BY <1>1 DEF SentCalls
<1> HIDE DEF n
<1> SUFFICES ASSUME NEW i \in 1 .. n + 1, NEW k \in DOMAIN made["main"],
                    sent'[i].call = made["main"][k], NEW e \in 1 .. k - 1
             PROVE  \E j \in 1 .. i - 1 : sent'[j].call = made["main"][e]
  BY <1>1 DEF MainKeepsOrder
<1>3. CASE i \in 1 .. n
  <2>1. sent[i].call = made["main"][k] BY <1>1, <1>3
  <2>2. \E j \in 1 .. i - 1 : sent[j].call = made["main"][e]
    BY <1>1, <1>3, <2>1 DEF MainKeepsOrder
  <2>3. \A j \in 1 .. i - 1 : j \in 1 .. n BY <1>1, <1>3
  <2> QED BY <1>1, <2>2, <2>3
<1>4. CASE i \notin 1 .. n
  <2>1. i = n + 1 /\ i - 1 = n BY <1>1, <1>4
  <2>2. made["main"][e] \in SentCalls BY <1>1, <2>1
  <2>3. \E j \in 1 .. n : sent[j].call = made["main"][e] BY <1>2, <2>2
  <2> QED BY <1>1, <2>1, <2>3
<1> QED BY <1>3, <1>4

LEMMA SendOrder ==
  ASSUME TypeOK, Steps, Once, Still, Order, NEW t \in Threads, Send(t)
  PROVE  Order'
<1> DEFINE c == thread[t].call
           s == made["main"]
<1>1. /\ At(t, "send") /\ c \in Calls /\ c \in MadeBy(t) /\ thread[t].hub \in Hubs
      /\ sent' = Append(sent, [call |-> c, hub |-> thread[t].hub])
      /\ UNCHANGED <<cacheMsg, made>>
  BY SendChanges
<1>2. SentCalls' = SentCalls \cup {c} BY <1>1, SentAppended
<1>3. ASSUME NEW k \in DOMAIN s, s[k] = c, NEW e \in 1 .. k - 1
      PROVE  s[e] \in SentCalls
  <2>1. /\ s[k] \in MadeBy("main") /\ e \in DOMAIN s /\ e # k
        /\ s[e] \in MadeBy("main") /\ s[e] \in Calls
    BY <1>3, MainCalls
  <2>2. t = "main" BY <1>1, <1>3, <2>1, ThreadNames DEF Steps
  <2>3. Busy("main") BY <1>1, <2>2 DEF Busy
  <2>4. s[e] # c BY <1>3, <2>1 DEF Order, IsInjective
  <2>5. s[e] \in ToSet(cacheMsg) \/ s[e] \in SentCalls
    BY <2>1, <2>2, <2>4, EarlierIs
  <2> QED BY <2>3, <2>5, ToSetEmpty DEF Still
<1> HIDE DEF c
<1>4. MainKeepsOrder' BY <1>1, <1>3, LeavesInOrder DEF Order
<1>5. ParkedInOrder' BY <1>1, <1>2 DEF Order, ParkedInOrder
<1> QED BY <1>1, <1>4, <1>5 DEF Order

LEMMA ReplayOrder ==
  ASSUME TypeOK, Steps, Once, Order, Replay
  PROVE  Order'
<1> DEFINE c == Head(cacheMsg)
           s == made["main"]
           m == Len(cacheMsg)
<1>1. /\ cacheMsg # <<>> /\ c \in Calls /\ cacheMsg \in Seq(Calls) /\ sourceHub \in Hubs
      /\ sent' = Append(sent, [call |-> c, hub |-> sourceHub])
      /\ cacheMsg' = Tail(cacheMsg)
      /\ UNCHANGED made
  BY ReplayChanges, Typed
<1>2. SentCalls' = SentCalls \cup {c} BY <1>1, SentAppended
<1>3. /\ m \in Nat \ {0} /\ DOMAIN cacheMsg = 1 .. m
      /\ DOMAIN cacheMsg' = 1 .. m - 1
      /\ \A i \in 1 .. m - 1 : cacheMsg'[i] = cacheMsg[i + 1]
      /\ c = cacheMsg[1]
  BY <1>1, TailPoints
<1> HIDE DEF c, m
<1>4. ASSUME NEW k \in DOMAIN s, s[k] = c, NEW e \in 1 .. k - 1
      PROVE  s[e] \in SentCalls
  <2>1. 1 \in DOMAIN cacheMsg /\ 1 .. 1 - 1 = {} BY <1>3
  <2> QED BY <1>3, <1>4, <2>1 DEF Order, ParkedInOrder
<1>5. MainKeepsOrder' BY <1>1, <1>4, LeavesInOrder DEF Order
<1>6. ParkedInOrder'
  <2> SUFFICES ASSUME NEW i \in 1 .. m - 1, NEW k \in DOMAIN s,
                      cacheMsg'[i] = s[k], NEW e \in 1 .. k - 1
               PROVE  s[e] \in SentCalls' \/ \E j \in 1 .. i - 1 : cacheMsg'[j] = s[e]
    <3>1. DOMAIN cacheMsg' = 1 .. m - 1 BY <1>3
    <3>2. made' = made BY <1>1
    <3> QED BY <3>1, <3>2 DEF ParkedInOrder
  <2>1. i + 1 \in 1 .. m /\ cacheMsg[i + 1] = s[k] /\ (i + 1) - 1 = i BY <1>3
  <2>2. s[e] \in SentCalls \/ \E j \in 1 .. i : cacheMsg[j] = s[e]
    BY <1>3, <2>1 DEF Order, ParkedInOrder
  <2>3. ASSUME NEW j \in 1 .. i, cacheMsg[j] = s[e]
        PROVE  s[e] = c \/ \E l \in 1 .. i - 1 : cacheMsg'[l] = s[e]
    <3>1. CASE j = 1 BY <1>3, <2>3, <3>1
    <3>2. CASE j # 1
      <4>1. j - 1 \in 1 .. i - 1 /\ j - 1 \in 1 .. m - 1 /\ (j - 1) + 1 = j
        BY <1>3, <3>2
      <4>2. cacheMsg'[j - 1] = s[e] BY <1>3, <2>3, <4>1
      <4> QED BY <4>1, <4>2
    <3> QED BY <3>1, <3>2
  <2> QED BY <1>2, <2>2, <2>3
<1> QED BY <1>1, <1>5, <1>6 DEF Order

LEMMA OrderStep == TypeOK /\ Steps /\ Once /\ Still /\ Order /\ [Next]_vars => Order'
<1> SUFFICES ASSUME TypeOK, Steps, Once, Still, Order, [Next]_vars PROVE Order' OBVIOUS
<1>1. ASSUME NEW t \in Threads, ReadHub(t) PROVE Order'
  BY <1>1, ReadHubChanges, OrderKept
<1>2. ASSUME NEW t \in Threads, RegHubCallback(t) \/ SetHandlers(t) \/ SetTimeout(t)
      PROVE  Order'
  <2>1. UNCHANGED <<made, cacheMsg, sent>> BY <1>2, RegisterChanges
  <2> QED BY <2>1, OrderKept
<1>3. ASSUME \/ OnWaitMigrateEntity \/ (\E h \in Hubs : OnMigrateEntityComplete(h))
             \/ ReplayEnds
      PROVE  Order'
  BY <1>3, MigrationChanges, OrderKept
<1>4. ASSUME NEW c \in Requests, Answer(c) PROVE Order'
  BY <1>4, AnswerChanges, OrderKept
<1>5. ASSUME RunHandler \/ Delete PROVE Order'
  <2>1. UNCHANGED <<made, cacheMsg, sent>> BY <1>5, HandlerChanges
  <2> QED BY <2>1, OrderKept
<1>6. ASSUME NEW c \in Requests, Expire(c) PROVE Order'
  BY <1>6, ExpireChanges, OrderKept
<1>7. ASSUME UNCHANGED vars PROVE Order'
  BY <1>7, OrderKept DEF vars, subentity, history
<1> QED
  BY <1>1, <1>2, <1>3, <1>4, <1>5, <1>6, <1>7, StepIsOneOf, CallOrder, SendOrder,
     ReplayOrder

LEMMA AllOfCalls == Spec => [](TypeOK /\ Steps /\ Once /\ Still /\ Order)
<1>1. Init => TypeOK /\ Steps /\ Once /\ Still /\ Order
  BY InitSteps, InitOnce, InitStill, InitOrder
<1>2. TypeOK /\ Steps /\ Once /\ Still /\ Order /\ [Next]_vars =>
        (TypeOK /\ Steps /\ Once /\ Still /\ Order)'
  BY StepsStep, OnceStep, StillStep, OrderStep
<1> QED BY <1>1, <1>2, PTL DEF Spec

\* What the main thread calls leaves in the order of its calls, also when some of
\* it was parked and the loop thread makes calls during the replay.
THEOREM MainCallsInOrder == Spec => []MainKeepsOrder
<1>1. Order => MainKeepsOrder BY DEF Order
<1> QED BY <1>1, AllOfCalls, PTL

\* A step that sends a call of the main thread sends it to the hub that the entity
\* was last announced at, and not while it migrates.
LEMMA StepSendsToOwner ==
  ASSUME TypeOK, Steps, Once, Still, [Next]_vars, sent' # sent,
         Last(sent').call \in MadeBy("main")
  PROVE  ~isMigrate /\ Last(sent').hub = sourceHub
<1>1. ASSUME NEW t \in Threads, Send(t)
      PROVE  ~isMigrate /\ Last(sent').hub = sourceHub
  <2>1. /\ At(t, "send") /\ thread[t].call \in Calls /\ thread[t].call \in MadeBy(t)
        /\ thread[t].hub \in Hubs
        /\ sent' = Append(sent, [call |-> thread[t].call, hub |-> thread[t].hub])
    BY <1>1, SendChanges
  <2>2. Last(sent').call = thread[t].call /\ Last(sent').hub = thread[t].hub
    BY <2>1, SentAppended
  <2>3. t = "main" BY <2>1, <2>2, ThreadNames DEF Steps
  <2> QED BY <2>1, <2>2, <2>3 DEF Still, Busy
<1>2. ASSUME Replay PROVE ~isMigrate /\ Last(sent').hub = sourceHub
  <2>1. /\ At("main", "replay") /\ Head(cacheMsg) \in Calls /\ sourceHub \in Hubs
        /\ sent' = Append(sent, [call |-> Head(cacheMsg), hub |-> sourceHub])
    BY <1>2, ReplayChanges, Typed
  <2>2. Last(sent').hub = sourceHub BY <2>1, SentAppended
  <2> QED BY <2>1, <2>2 DEF Still
<1>3. ASSUME NEW t \in Threads, NEW c \in Calls, Call(t, c) PROVE sent' = sent
  BY <1>3, CallStepChanges
<1>4. ASSUME NEW t \in Threads,
             \/ ReadHub(t) \/ RegHubCallback(t) \/ SetHandlers(t) \/ SetTimeout(t)
      PROVE  sent' = sent
  BY <1>4, ReadHubChanges, RegisterChanges
<1>5. ASSUME \/ OnWaitMigrateEntity \/ (\E h \in Hubs : OnMigrateEntityComplete(h))
             \/ ReplayEnds
      PROVE  sent' = sent
  BY <1>5, MigrationChanges
<1>6. ASSUME RunHandler \/ Delete PROVE sent' = sent BY <1>6, HandlerChanges
<1>7. ASSUME NEW c \in Requests, Answer(c) \/ Expire(c) PROVE sent' = sent
  BY <1>7, AnswerChanges, ExpireChanges
<1>8. ASSUME UNCHANGED vars PROVE sent' = sent BY <1>8 DEF vars, history
<1> QED BY <1>1, <1>2, <1>3, <1>4, <1>5, <1>6, <1>7, <1>8, StepIsOneOf

\* Between the look at is_migrate, the look at source_hub_name and the sending of
\* a call of the main thread nothing comes that would make them old.
THEOREM MainCallsGoToOwner == Spec => MainSendsToOwner
<1>1. TypeOK /\ Steps /\ Once /\ Still /\ [Next]_vars =>
        [sent' # sent /\ Last(sent').call \in MadeBy("main") =>
           ~isMigrate /\ Last(sent').hub = sourceHub]_vars
  BY StepSendsToOwner
<1> QED BY <1>1, AllOfCalls, PTL DEF Spec, MainSendsToOwner

-----------------------------------------------------------------------------
(* Callbacks and answers.                                                  *)

\* A request of the main thread that is not being made has its handlers; handlers
\* stay in the table until one of them runs, and then until the answer is handled.
Registered ==
  /\ \A c \in Requests : c \in MadeBy("main") =>
       c \in ready \/ (Making("main") /\ thread["main"].call = c)
  /\ \A c \in ready : c \in hubCallback \/ ended[c] # {}
  /\ At("main", "delete") => ended[thread["main"].call] # {}
  /\ \A c \in hubCallback : ended[c] # {} =>
       At("main", "delete") /\ thread["main"].call = c
  /\ answered \subseteq MadeCalls
  /\ MainGetsAnswers

LEMMA InitRegistered == Init => Registered
<1> SUFFICES ASSUME Init PROVE Registered OBVIOUS
<1>1. MadeBy("main") = {} BY ToSetEmpty, ThreadNames DEF Init, MadeBy
<1>2. ~At("main", "delete") BY ThreadNames DEF Init, At, Idle
<1> QED BY <1>1, <1>2 DEF Init, Registered, MainGetsAnswers

\* While the main thread neither makes a call nor handles an answer.
LEMMA AtRest ==
  ASSUME TypeOK, Registered, ~Making("main"), ~At("main", "answer"), ~At("main", "delete")
  PROVE  /\ \A c \in Requests : c \in MadeBy("main") => c \in ready
         /\ \A c \in hubCallback : ended[c] = {}
         /\ \A c \in answered : c \in MadeBy("main") => ended[c] # {}
BY DEF Registered, MainGetsAnswers

LEMMA RegisteredKept ==
  ASSUME Registered, thread'["main"] = thread["main"],
         UNCHANGED <<made, hubCallback, ready, answered, ended>>
  PROVE  Registered'
BY DEF Registered, MainGetsAnswers, MadeCalls, MadeBy, Making, Busy, Registers, At

LEMMA CallRegistered ==
  ASSUME TypeOK, Steps, Registered, NEW t \in Threads, NEW c \in Calls, Call(t, c)
  PROVE  Registered'
<1>1. /\ At(t, "idle") /\ c \in Unmade
      /\ made' = [made EXCEPT ![t] = Append(@, c)]
      /\ \/ c \in Requests /\ Now(t, "register", c)
         \/ c \notin Requests /\ Now(t, "idle", NoCall)
         \/ Now(t, "direct", c)
      /\ UNCHANGED <<hubCallback, ready, answered, ended>>
  BY CallStepChanges
<1>2. /\ \A u \in Threads \ {t} : MadeBy(u)' = MadeBy(u)
      /\ MadeBy(t)' = MadeBy(t) \cup {c} /\ MadeCalls' = MadeCalls \cup {c}
      /\ c \notin MadeCalls
  BY <1>1, NewCall
<1>3. c \notin answered /\ answered' \subseteq MadeCalls'
  BY <1>1, <1>2 DEF Registered
<1>4. CASE t = "main"
  <2>1. ~Making("main") /\ ~At("main", "answer") /\ ~At("main", "delete")
    BY <1>1, <1>4 DEF Making, Busy, Registers, At
  <2>2. ~At("main", "answer")' /\ ~At("main", "delete")'
    BY <1>1, <1>4 DEF Now, At
  <2>3. c \in Requests => Making("main")' /\ thread'["main"].call = c
    BY <1>1, <1>4 DEF Now, Making, Busy, Registers, At
  <2>4. MadeBy("main")' = MadeBy("main") \cup {c} BY <1>2, <1>4
  <2>5. /\ \A x \in Requests : x \in MadeBy("main") => x \in ready
        /\ \A x \in hubCallback : ended[x] = {}
        /\ \A x \in answered : x \in MadeBy("main") => ended[x] # {}
    BY <2>1, AtRest
  <2>6. MainGetsAnswers' BY <1>1, <1>3, <2>4, <2>5 DEF MainGetsAnswers
  <2>7. \A x \in ready : x \in hubCallback \/ ended[x] # {} BY DEF Registered
  <2>8. UNCHANGED <<hubCallback, ready, ended>> BY <1>1
  <2> QED BY <1>3, <2>2, <2>3, <2>4, <2>5, <2>6, <2>7, <2>8 DEF Registered
<1>5. CASE t # "main"
  <2>1. thread'["main"] = thread["main"] /\ MadeBy("main")' = MadeBy("main")
    BY <1>1, <1>2, <1>5, ThreadNames DEF Now
  <2>2. UNCHANGED <<hubCallback, ready, answered, ended>> BY <1>1
  <2> QED BY <1>3, <2>1, <2>2
      DEF Registered, MainGetsAnswers, Making, Busy, Registers, At
<1> QED BY <1>4, <1>5

\* Thread t goes on with its call, or is done with it.
LEMMA MovesRegistered ==
  ASSUME TypeOK, Steps, Registered, NEW t \in Threads, NEW step \in Ats,
         NEW c \in Calls \cup {NoCall}, Now(t, step, c), Making(t),
         step \notin {"answer", "delete"},
         \/ c = thread[t].call /\ step \in {"direct", "send", "register", "callback", "timeout"}
         \/ thread[t].call \in Requests => thread[t].call \in ready,
         UNCHANGED <<made, hubCallback, ready, answered, ended>>
  PROVE  Registered'
<1>1. CASE t # "main"
  BY <1>1, RegisteredKept, ThreadNames DEF Now
<1>2. CASE t = "main"
  <2>1. /\ ~At("main", "answer") /\ ~At("main", "delete") /\ Making("main")
        /\ ~At("main", "answer")' /\ ~At("main", "delete")'
    BY <1>2 DEF Now, Making, Busy, Registers, At
  <2>2. \A x \in Requests : x \in MadeBy("main") =>
          x \in ready \/ (Making("main") /\ thread["main"].call = x)'
    <3>1. ASSUME NEW x \in Requests, x \in MadeBy("main"), x \notin ready
          PROVE  (Making("main") /\ thread["main"].call = x)'
      <4>1. thread["main"].call = x BY <3>1 DEF Registered
      <4> QED BY <1>2, <3>1, <4>1 DEF Now, Making, Busy, Registers, At
    <3> QED BY <3>1
  <2>3. /\ MadeBy("main")' = MadeBy("main") /\ MadeCalls' = MadeCalls
        /\ UNCHANGED <<hubCallback, ready, answered, ended>>
    BY DEF MadeBy, MadeCalls
  <2> QED BY <2>1, <2>2, <2>3 DEF Registered, MainGetsAnswers
<1> QED BY <1>1, <1>2

LEMMA ReadHubRegistered ==
  ASSUME TypeOK, Steps, Registered, NEW t \in Threads, ReadHub(t)
  PROVE  Registered'
<1>1. At(t, "direct") /\ Now(t, "send", thread[t].call) BY ReadHubChanges
<1>2. UNCHANGED <<made, hubCallback, ready, answered, ended>> BY ReadHubChanges
<1>3. Making(t) BY <1>1 DEF Making, Busy
<1>4. thread[t].call \in Calls \cup {NoCall} BY Typed DEF Doing
<1> QED BY <1>1, <1>2, <1>3, <1>4, MovesRegistered DEF Ats

LEMMA SendRegistered ==
  ASSUME TypeOK, Steps, Registered, NEW t \in Threads, Send(t)
  PROVE  Registered'
<1> DEFINE c == thread[t].call
<1>1. At(t, "send") /\ c \in Calls BY SendChanges
<1>2. \/ c \in Requests /\ Now(t, "register", c)
      \/ c \notin Requests /\ Now(t, "idle", NoCall)
  BY SendChanges
<1>3. UNCHANGED <<made, hubCallback, ready, answered, ended>> BY SendChanges
<1>4. Making(t) BY <1>1 DEF Making, Busy
<1> QED BY <1>1, <1>2, <1>3, <1>4, MovesRegistered DEF Ats

LEMMA RegisterRegistered ==
  ASSUME TypeOK, Steps, Registered, NEW t \in Threads,
         RegHubCallback(t) \/ SetHandlers(t) \/ SetTimeout(t)
  PROVE  Registered'
<1> DEFINE c == thread[t].call
<1>1. c \in Requests /\ c \in MadeBy(t) /\ c \in Calls BY RegisterChanges
<1>2. \/ /\ At(t, "register") /\ Now(t, "callback", c)
         /\ hubCallback' = hubCallback \cup {c} /\ ready' = ready
      \/ /\ At(t, "callback") /\ Now(t, "timeout", c)
         /\ ready' = ready \cup {c} /\ hubCallback' = hubCallback
      \/ /\ At(t, "timeout") /\ Now(t, "idle", NoCall)
         /\ hubCallback' = hubCallback /\ ready' = ready
  BY RegisterChanges
<1>3. UNCHANGED <<made, answered, ended>> BY RegisterChanges
<1>4. StepOf(t) BY DEF Steps
<1>5. Making(t) BY <1>2 DEF Making, Registers
<1>6. MadeBy("main")' = MadeBy("main") /\ MadeCalls' = MadeCalls
  BY <1>3 DEF MadeBy, MadeCalls
<1>7. CASE At(t, "timeout")
  <2>1. c \in ready BY <1>4, <1>7 DEF StepOf
  <2>2. Now(t, "idle", NoCall) /\ UNCHANGED <<made, hubCallback, ready, answered, ended>>
    BY <1>2, <1>3, <1>7 DEF At
  <2> QED BY <1>5, <2>1, <2>2, MovesRegistered DEF Ats
<1>8. CASE ~At(t, "timeout")
  <2>1. /\ hubCallback \subseteq hubCallback' /\ hubCallback' \subseteq hubCallback \cup {c}
        /\ ready \subseteq ready' /\ ready' \subseteq ready \cup {c}
    BY <1>2, <1>8
  <2>2. c \notin ready BY <1>2, <1>4, <1>8 DEF StepOf, Unset
  <2>3. ended[c] = {} BY <1>1, <2>2 DEF Steps
  <2>4. c \in ready' => c \in hubCallback BY <1>2, <1>4, <1>8, <2>2 DEF StepOf
  <2>5. \A x \in ready' : x \in hubCallback' \/ ended'[x] # {}
    BY <1>3, <2>1, <2>4 DEF Registered
  <2>6. CASE t = "main"
    <3>1. /\ ~At("main", "answer") /\ ~At("main", "delete") /\ Making("main")
          /\ ~At("main", "answer")' /\ ~At("main", "delete")' /\ Making("main")'
          /\ thread'["main"].call = thread["main"].call
      BY <1>2, <1>8, <2>6 DEF Now, Making, Busy, Registers, At
    <3>2. \A x \in Requests : x \in MadeBy("main") =>
            x \in ready' \/ thread'["main"].call = x
      BY <2>1, <3>1 DEF Registered
    <3>3. \A x \in hubCallback' : ended[x] = {} BY <2>1, <2>3, <3>1 DEF Registered
    <3>4. MainGetsAnswers' BY <1>3, <1>6, <3>1 DEF Registered, MainGetsAnswers
    <3> QED BY <1>3, <1>6, <2>5, <3>1, <3>2, <3>3, <3>4 DEF Registered
  <2>7. CASE t # "main"
    <3>1. thread'["main"] = thread["main"] BY <1>2, <2>7, ThreadNames DEF Now
    <3>2. /\ At("main", "answer")' = At("main", "answer")
          /\ At("main", "delete")' = At("main", "delete")
          /\ Making("main")' = Making("main")
      BY <3>1 DEF Making, Busy, Registers, At
    <3>3. \A x \in Requests : x \in MadeBy("main") =>
            x \in ready' \/ (Making("main") /\ thread["main"].call = x)
      BY <2>1 DEF Registered
    <3>4. \A x \in hubCallback' : ended[x] # {} =>
            At("main", "delete") /\ thread["main"].call = x
      BY <2>1, <2>3 DEF Registered
    <3>5. MainGetsAnswers' BY <1>3, <1>6, <3>1, <3>2 DEF Registered, MainGetsAnswers
    <3>6. At("main", "delete") => ended[thread["main"].call] # {} BY DEF Registered
    <3>7. answered \subseteq MadeCalls BY DEF Registered
    <3> QED BY <1>3, <1>6, <2>5, <3>1, <3>2, <3>3, <3>4, <3>5, <3>6, <3>7 DEF Registered
  <2> QED BY <2>6, <2>7
<1> QED BY <1>7, <1>8

LEMMA MigrationRegistered ==
  ASSUME TypeOK, Registered, \/ OnWaitMigrateEntity
                             \/ \E h \in Hubs : OnMigrateEntityComplete(h)
                             \/ ReplayEnds
  PROVE  Registered'
<1>1. \/ At("main", "idle") /\ thread' = thread
      \/ At("main", "idle") /\ Now("main", "replay", NoCall)
      \/ At("main", "replay") /\ Now("main", "idle", NoCall)
  BY MigrationChanges
<1>2. UNCHANGED <<made, hubCallback, ready, answered, ended>> BY MigrationChanges
<1>3. /\ ~Making("main") /\ ~At("main", "answer") /\ ~At("main", "delete")
      /\ ~At("main", "answer")' /\ ~At("main", "delete")'
  BY <1>1 DEF Now, Making, Busy, Registers, At
<1>4. /\ \A c \in Requests : c \in MadeBy("main") => c \in ready
      /\ \A c \in hubCallback : ended[c] = {}
      /\ \A c \in answered : c \in MadeBy("main") => ended[c] # {}
  BY <1>3, AtRest
<1>5. MadeBy("main")' = MadeBy("main") /\ MadeCalls' = MadeCalls
  BY <1>2 DEF MadeBy, MadeCalls
<1>6. \A c \in ready : c \in hubCallback \/ ended[c] # {} BY DEF Registered
<1>7. answered \subseteq MadeCalls BY DEF Registered
<1> QED BY <1>2, <1>3, <1>4, <1>5, <1>6, <1>7 DEF Registered, MainGetsAnswers

\* The main thread is at rest: the answer finds the handlers, or they have run.
LEMMA AnswerRegistered ==
  ASSUME TypeOK, Steps, Once, Registered, NEW c \in Requests, Answer(c)
  PROVE  Registered'
<1>1. At("main", "idle") /\ c \in SentCalls /\ answered' = answered \cup {c}
  BY AnswerChanges
<1>2. \/ c \in hubCallback \cap ready /\ Now("main", "answer", c)
      \/ c \notin hubCallback \cap ready /\ thread' = thread
  BY AnswerChanges
<1>3. UNCHANGED <<made, hubCallback, ready, ended>> BY AnswerChanges
<1>4. ~Making("main") /\ ~At("main", "answer") /\ ~At("main", "delete")
  BY <1>1 DEF Making, Busy, Registers, At
<1>5. /\ \A x \in Requests : x \in MadeBy("main") => x \in ready
      /\ \A x \in hubCallback : ended[x] = {}
      /\ \A x \in answered : x \in MadeBy("main") => ended[x] # {}
  BY <1>4, AtRest
<1>6. ~At("main", "delete")' BY <1>1, <1>2 DEF Now, At
<1>7. c \in MadeCalls BY <1>1 DEF Once, Carried, Calls
<1>8. MadeBy("main")' = MadeBy("main") /\ MadeCalls' = MadeCalls
  BY <1>3 DEF MadeBy, MadeCalls
<1>9. \A x \in ready : x \in hubCallback \/ ended[x] # {} BY DEF Registered
<1>10. c \in MadeBy("main") =>
         ended[c] # {} \/ (At("main", "answer")' /\ thread'["main"].call = c)
  BY <1>2, <1>5, <1>9 DEF Now, At
<1>11. MainGetsAnswers' BY <1>1, <1>3, <1>5, <1>8, <1>10 DEF MainGetsAnswers
<1>12. answered \subseteq MadeCalls BY DEF Registered
<1> QED
  BY <1>1, <1>3, <1>5, <1>6, <1>7, <1>8, <1>9, <1>11, <1>12 DEF Registered

LEMMA HandlerRegistered ==
  ASSUME TypeOK, Steps, Registered, RunHandler \/ Delete
  PROVE  Registered'
<1> DEFINE c == thread["main"].call
<1>1. c \in ready /\ c \in Requests BY HandlerChanges
<1>2. \/ /\ At("main", "answer") /\ Now("main", "delete", c)
         /\ ended' = [ended EXCEPT ![c] = @ \cup {"answer"}] /\ hubCallback' = hubCallback
      \/ /\ At("main", "delete") /\ Now("main", "idle", NoCall)
         /\ hubCallback' = hubCallback \ {c} /\ ended' = ended
  BY HandlerChanges
<1>3. UNCHANGED <<made, ready, answered>> BY HandlerChanges
<1>4. ended \in [Requests -> SUBSET {"answer", "timeout"}] /\ hubCallback \subseteq Requests
      /\ ready \subseteq Requests /\ answered \subseteq Requests
  BY Typed
<1>5. MadeBy("main")' = MadeBy("main") /\ MadeCalls' = MadeCalls
  BY <1>3 DEF MadeBy, MadeCalls
<1>6. /\ answered \subseteq MadeCalls
      /\ \A x \in ready : x \in hubCallback \/ ended[x] # {}
      /\ \A x \in hubCallback : ended[x] # {} =>
           At("main", "delete") /\ thread["main"].call = x
  BY DEF Registered
<1>7. ~Making("main") BY <1>2 DEF Making, Busy, Registers, At
<1>8. \A x \in Requests : x \in MadeBy("main") => x \in ready
  BY <1>7 DEF Registered
<1> HIDE DEF c
<1>9. CASE At("main", "answer")
  <2>1. ~At("main", "delete") BY <1>9 DEF At
  <2>2. /\ Now("main", "delete", c) /\ hubCallback' = hubCallback
        /\ ended' = [ended EXCEPT ![c] = @ \cup {"answer"}]
    BY <1>2, <2>1
  <2>3. ended'[c] # {} /\ \A x \in Requests \ {c} : ended'[x] = ended[x]
    BY <1>1, <1>4, <2>2
  <2>4. At("main", "delete")' /\ thread'["main"].call = c /\ ~At("main", "answer")'
    BY <2>2 DEF Now, At
  <2>5. \A x \in answered : x \in MadeBy("main") => ended[x] # {} \/ x = c
    BY DEF Registered, MainGetsAnswers, c
  <2>6. \A x \in answered : x \in MadeBy("main") => ended'[x] # {}
    BY <1>4, <2>3, <2>5
  <2>7. \A x \in hubCallback : ended'[x] # {} => x = c BY <1>4, <1>6, <2>1, <2>3
  <2>8. \A x \in ready : x \in hubCallback \/ ended'[x] # {} BY <1>4, <1>6, <2>3
  <2> QED
    BY <1>3, <1>5, <1>6, <1>8, <2>2, <2>3, <2>4, <2>6, <2>7, <2>8
    DEF Registered, MainGetsAnswers
<1>10. CASE ~At("main", "answer")
  <2>1. /\ At("main", "delete") /\ Now("main", "idle", NoCall)
        /\ hubCallback' = hubCallback \ {c} /\ ended' = ended
    BY <1>2, <1>10
  <2>2. ended[c] # {} BY <2>1 DEF Registered, c
  <2>3. ~At("main", "delete")' BY <2>1 DEF Now, At
  <2>4. \A x \in answered : x \in MadeBy("main") => ended[x] # {}
    BY <1>10 DEF Registered, MainGetsAnswers
  <2>5. \A x \in hubCallback' : ended[x] = {} BY <1>6, <2>1 DEF c
  <2>6. \A x \in ready : x \in hubCallback' \/ ended[x] # {} BY <1>6, <2>1, <2>2
  <2> QED
    BY <1>3, <1>5, <1>6, <1>8, <2>1, <2>3, <2>4, <2>5, <2>6
    DEF Registered, MainGetsAnswers
<1> QED BY <1>9, <1>10

\* What a timer takes out of the table has ended.
LEMMA ExpireRegistered ==
  ASSUME TypeOK, Registered, NEW c \in Requests, Expire(c)
  PROVE  Registered'
<1>1. /\ hubCallback' = hubCallback \ {c}
      /\ ended' = IF c \in hubCallback
                  THEN [ended EXCEPT ![c] = @ \cup {"timeout"}] ELSE ended
  BY ExpireChanges
<1>2. UNCHANGED <<thread, made, ready, answered>> BY ExpireChanges
<1>3. ended \in [Requests -> SUBSET {"answer", "timeout"}] /\ hubCallback \subseteq Requests
      /\ ready \subseteq Requests /\ answered \subseteq Requests
  BY Typed
<1>4. /\ \A x \in Requests \ {c} : ended'[x] = ended[x]
      /\ c \in hubCallback => ended'[c] # {}
      /\ c \notin hubCallback => ended' = ended
  BY <1>1, <1>3
<1>5. \A x \in Requests : ended[x] # {} => ended'[x] # {} BY <1>4
<1>6. /\ MadeBy("main")' = MadeBy("main") /\ MadeCalls' = MadeCalls
      /\ Making("main")' = Making("main")
      /\ At("main", "answer")' = At("main", "answer")
      /\ At("main", "delete")' = At("main", "delete")
  BY <1>2 DEF MadeBy, MadeCalls, Making, Busy, Registers, At
<1>7. /\ answered \subseteq MadeCalls
      /\ \A x \in ready : x \in hubCallback \/ ended[x] # {}
      /\ \A x \in hubCallback : ended[x] # {} =>
           At("main", "delete") /\ thread["main"].call = x
      /\ \A x \in Requests : x \in MadeBy("main") =>
           x \in ready \/ (Making("main") /\ thread["main"].call = x)
  BY DEF Registered
<1>8. \A x \in ready : x \in hubCallback' \/ ended'[x] # {}
  BY <1>1, <1>3, <1>4, <1>5, <1>7
<1>9. \A x \in hubCallback' : ended'[x] # {} =>
        At("main", "delete") /\ thread["main"].call = x
  BY <1>1, <1>3, <1>4, <1>7
<1>10. MainGetsAnswers'
  BY <1>2, <1>3, <1>5, <1>6 DEF Registered, MainGetsAnswers
<1>11. At("main", "delete") => ended'[thread["main"].call] # {}
  <2> SUFFICES ASSUME At("main", "delete") PROVE ended'[thread["main"].call] # {}
    OBVIOUS
  <2>1. ended[thread["main"].call] # {} BY DEF Registered
  <2>2. CASE thread["main"].call = c BY <1>4, <2>1, <2>2
  <2>3. CASE thread["main"].call # c
    <3>1. CASE c \in hubCallback
      <4>1. ended' = [ended EXCEPT ![c] = @ \cup {"timeout"}] BY <1>1, <3>1
      <4> QED BY <1>3, <2>1, <2>3, <4>1
    <3> QED BY <1>4, <2>1, <3>1
  <2> QED BY <2>2, <2>3
<1> QED BY <1>2, <1>6, <1>7, <1>8, <1>9, <1>10, <1>11 DEF Registered

LEMMA RegisteredStep ==
  TypeOK /\ Steps /\ Once /\ Registered /\ [Next]_vars => Registered'
<1> SUFFICES ASSUME TypeOK, Steps, Once, Registered, [Next]_vars PROVE Registered'
  OBVIOUS
<1>1. ASSUME Replay PROVE Registered'
  <2>1. thread' = thread /\ UNCHANGED <<made, hubCallback, ready, answered, ended>>
    BY <1>1, ReplayChanges
  <2> QED BY <2>1, RegisteredKept
<1>2. ASSUME UNCHANGED vars PROVE Registered'
  BY <1>2, RegisteredKept DEF vars, callbacks, history
<1> QED
  BY <1>1, <1>2, StepIsOneOf, CallRegistered, ReadHubRegistered, SendRegistered,
     RegisterRegistered, MigrationRegistered, AnswerRegistered, HandlerRegistered,
     ExpireRegistered

LEMMA AnswersHandled == Spec => [](TypeOK /\ Steps /\ Once /\ Registered)
<1>1. Init => TypeOK /\ Steps /\ Once /\ Registered
  BY InitSteps, InitOnce, InitRegistered
<1>2. TypeOK /\ Steps /\ Once /\ Registered /\ [Next]_vars =>
        (TypeOK /\ Steps /\ Once /\ Registered)'
  BY StepsStep, OnceStep, RegisteredStep
<1> QED BY <1>1, <1>2, PTL DEF Spec

\* A call of the main thread has its handlers before the thread takes up another
\* message: its answer finds them, or finds that it timed out.
THEOREM AnswersFindHandlers == Spec => []MainGetsAnswers
<1>1. Registered => MainGetsAnswers BY DEF Registered
<1> QED BY <1>1, AnswersHandled, PTL

\* A handler of a request that has ended runs only between the look-up of the
\* answer's handler and the deletion of the entry.
LEMMA StepEnds ==
  ASSUME TypeOK, Steps, Registered, [Next]_vars,
         NEW c \in Requests, ended[c] # {}, ended'[c] # ended[c]
  PROVE  thread["main"].call = c /\ (At("main", "answer") \/ At("main", "delete"))
<1>1. ASSUME RunHandler
      PROVE  thread["main"].call = c /\ At("main", "answer")
  <2>1. /\ At("main", "answer")
        /\ ended' = [ended EXCEPT ![thread["main"].call] = @ \cup {"answer"}]
    BY <1>1 DEF RunHandler
  <2> QED BY <2>1, Typed
<1>2. ASSUME NEW x \in Requests, Expire(x)
      PROVE  thread["main"].call = c /\ At("main", "delete")
  <2>1. ended' = IF x \in hubCallback
                 THEN [ended EXCEPT ![x] = @ \cup {"timeout"}] ELSE ended
    BY <1>2, ExpireChanges
  <2>2. c = x /\ c \in hubCallback BY <2>1, Typed
  <2> QED BY <2>2 DEF Registered
<1>3. ASSUME Delete PROVE ended' = ended BY <1>3 DEF Delete, history
<1>4. ASSUME NEW t \in Threads, NEW x \in Calls, Call(t, x) PROVE ended' = ended
  BY <1>4, CallStepChanges
<1>5. ASSUME NEW t \in Threads, ReadHub(t) \/ Send(t) PROVE ended' = ended
  BY <1>5, ReadHubChanges, SendChanges
<1>6. ASSUME NEW t \in Threads, RegHubCallback(t) \/ SetHandlers(t) \/ SetTimeout(t)
      PROVE  ended' = ended
  BY <1>6, RegisterChanges
<1>7. ASSUME \/ OnWaitMigrateEntity \/ (\E h \in Hubs : OnMigrateEntityComplete(h))
             \/ ReplayEnds
      PROVE  ended' = ended
  BY <1>7, MigrationChanges
<1>8. ASSUME Replay PROVE ended' = ended BY <1>8, ReplayChanges
<1>9. ASSUME NEW x \in Requests, Answer(x) PROVE ended' = ended BY <1>9, AnswerChanges
<1>10. ASSUME UNCHANGED vars PROVE ended' = ended BY <1>10 DEF vars, history
<1> QED
  BY <1>1, <1>2, <1>3, <1>4, <1>5, <1>6, <1>7, <1>8, <1>9, <1>10, StepIsOneOf

\* The timer and the answer of a request both end it only in that gap.
THEOREM RequestsEndOnce == Spec => EndsOnce
<1>1. TypeOK /\ Steps /\ Registered /\ [Next]_vars =>
        [\A c \in Requests : ended[c] # {} /\ ended'[c] # ended[c] =>
           thread["main"].call = c /\ (At("main", "answer") \/ At("main", "delete"))]_vars
  BY StepEnds
<1> QED BY <1>1, AnswersHandled, PTL DEF Spec, EndsOnce
=============================================================================
