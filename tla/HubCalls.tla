------------------------------- MODULE HubCalls -------------------------------
(***************************************************************************)
(* The calls that a hub makes of an entity of another hub through the      *)
(* subentity that stands for it: parking while the entity migrates, the    *)
(* table of callbacks, answers and timers. Games make calls on the main    *)
(* thread and in coroutines, which run on a thread of their own; timers    *)
(* have a thread each. Nothing is locked. An action is the code from one   *)
(* point where CPython (3.11 and later) may switch threads to the next: a  *)
(* Python function is entered, a C function returns, a loop goes round.    *)
(*                                                                         *)
(* The other hubs are the environment. They announce a migration, complete *)
(* it, and answer a call at most once (is_rsp of the generated code) or    *)
(* never. Answers and errors take the same way; both are answers here. The *)
(* handlers that a game registers return; they make calls of their own     *)
(* when the message has been handled.                                      *)
(***************************************************************************)
EXTENDS Naturals, SequencesExt

CONSTANTS
  Requests,  \* ids of requests, request_msg_cb_id; each is used once
  Notifies,  \* notifications, which nobody answers
  Hubs,      \* where the entity can be
  NoCall, NoHub

ASSUME CallsAssumption ==
  /\ Requests \cap Notifies = {}
  /\ NoCall \notin Requests \cup Notifies
  /\ NoHub \notin Hubs

Calls == Requests \cup Notifies
Threads == {"main", "loop"}

VARIABLES
  isMigrate, sourceHub, cacheMsg,  \* of the subentity
  hubCallback,  \* requests in the subentity's table of callbacks
  ready,        \* requests whose callback object has its handlers
  timers,       \* requests whose Timer runs
  thread,       \* what each thread is at
  made,         \* history: the calls that each thread made
  sent,         \* history: calls that left this hub, and where to
  answered,     \* history: requests whose answer arrived
  ended,        \* history: which of a request's handlers ran
  timed         \* history: requests that were given a timeout

subentity == <<isMigrate, sourceHub, cacheMsg>>
callbacks == <<hubCallback, ready, timers>>
history == <<made, sent, answered, ended, timed>>
vars == <<subentity, callbacks, thread, history>>

Idle == [at |-> "idle", call |-> NoCall, hub |-> NoHub]
At(t, step) == thread[t].at = step
Goes(t, step, call) == [thread EXCEPT ![t] = [at |-> step, call |-> call, hub |-> NoHub]]
Stops(t) == [thread EXCEPT ![t] = Idle]
MadeBy(t) == ToSet(made[t])
Unmade == Calls \ (MadeBy("main") \cup MadeBy("loop"))
SentCalls == {sent[i].call : i \in DOMAIN sent}

Init ==
  /\ isMigrate \in BOOLEAN /\ sourceHub \in Hubs /\ cacheMsg = <<>>
  /\ hubCallback = {} /\ ready = {} /\ timers = {}
  /\ thread = [t \in Threads |-> Idle]
  /\ made = [t \in Threads |-> <<>>]
  /\ sent = <<>> /\ answered = {} /\ timed = {}
  /\ ended = [c \in Requests |-> {}]

-----------------------------------------------------------------------------
(* Making a call.                                                          *)

\* What is left to do for a call that was sent or parked: the generated code
\* registers a callback for a request.
AfterCall(t, c) == IF c \in Requests THEN Goes(t, "register", c) ELSE Stops(t)

\* Mutant of Call: calls are never parked.
CallNow(t, c) ==
  /\ At(t, "idle") /\ c \in Unmade
  /\ made' = [made EXCEPT ![t] = Append(@, c)]
  /\ thread' = Goes(t, "direct", c)
  /\ UNCHANGED <<subentity, callbacks, sent, answered, ended, timed>>

\* call_hub_request, call_hub_notify: the check of is_migrate and the append are
\* not interrupted.
Call(t, c) ==
  /\ At(t, "idle") /\ c \in Unmade
  /\ made' = [made EXCEPT ![t] = Append(@, c)]
  /\ IF isMigrate
     THEN thread' = AfterCall(t, c) /\ cacheMsg' = Append(cacheMsg, c)
     ELSE thread' = Goes(t, "direct", c) /\ UNCHANGED cacheMsg
  /\ UNCHANGED <<isMigrate, sourceHub, callbacks, sent, answered, ended, timed>>

\* The hub's name is read when app() has returned,
ReadHub(t) ==
  /\ At(t, "direct")
  /\ thread' = [thread EXCEPT ![t] =
                  [at |-> "send", call |-> @.call, hub |-> sourceHub]]
  /\ UNCHANGED <<subentity, callbacks, history>>

\* and the call sent when the wrapper has been entered.
Send(t) ==
  /\ At(t, "send")
  /\ sent' = Append(sent, [call |-> thread[t].call, hub |-> thread[t].hub])
  /\ thread' = AfterCall(t, thread[t].call)
  /\ UNCHANGED <<subentity, callbacks, made, answered, ended, timed>>

\* reg_hub_callback: the callback object has no handlers yet.
RegHubCallback(t) ==
  /\ At(t, "register")
  /\ hubCallback' = hubCallback \cup {thread[t].call}
  /\ thread' = Goes(t, "callback", thread[t].call)
  /\ UNCHANGED <<subentity, ready, timers, history>>

\* Mutant of SetHandlers: the game's thread goes on before they are set.
LeaveUnset(t) ==
  /\ At(t, "callback")
  /\ thread' = Goes(t, "timeout", thread[t].call)
  /\ UNCHANGED <<subentity, callbacks, history>>

\* callBack.
SetHandlers(t) ==
  /\ At(t, "callback")
  /\ ready' = ready \cup {thread[t].call}
  /\ thread' = Goes(t, "timeout", thread[t].call)
  /\ UNCHANGED <<subentity, hubCallback, timers, history>>

\* timeout, if the game wants one.
SetTimeout(t) ==
  /\ At(t, "timeout")
  /\ thread' = Stops(t)
  /\ \/ UNCHANGED <<timers, timed>>
     \/ /\ timers' = timers \cup {thread[t].call}
        /\ timed' = timed \cup {thread[t].call}
  /\ UNCHANGED <<subentity, hubCallback, ready, made, sent, answered, ended>>

-----------------------------------------------------------------------------
(* Migration of the entity.                                                *)

\* on_wait_migrate_entity.
OnWaitMigrateEntity ==
  /\ At("main", "idle")
  /\ isMigrate' = TRUE
  /\ UNCHANGED <<sourceHub, cacheMsg, callbacks, thread, history>>

\* on_migrate_entity_complete: do_cache_msg ends the migration and begins to send
\* what was parked. Both announcements come from the hub that the entity leaves,
\* over one link.
OnMigrateEntityComplete(h) ==
  /\ At("main", "idle") /\ isMigrate
  /\ isMigrate' = FALSE /\ sourceHub' = h
  /\ thread' = Goes("main", "replay", NoCall)
  /\ UNCHANGED <<cacheMsg, callbacks, history>>

\* Mutant of Replay: what was parked last is sent first.
ReplayLast ==
  /\ At("main", "replay") /\ cacheMsg # <<>>
  /\ sent' = Append(sent, [call |-> Last(cacheMsg), hub |-> sourceHub])
  /\ cacheMsg' = Front(cacheMsg)
  /\ UNCHANGED <<isMigrate, sourceHub, callbacks, thread, made, answered, ended, timed>>

\* Mutant of Replay: the list is cleared when the first was sent.
ReplayFirst ==
  /\ At("main", "replay") /\ cacheMsg # <<>>
  /\ sent' = Append(sent, [call |-> Head(cacheMsg), hub |-> sourceHub])
  /\ cacheMsg' = <<>>
  /\ UNCHANGED <<isMigrate, sourceHub, callbacks, thread, made, answered, ended, timed>>

\* One parked call after the other. (The code clears the list after the loop:
\* what was sent and is still on it counts as gone.)
Replay ==
  /\ At("main", "replay") /\ cacheMsg # <<>>
  /\ sent' = Append(sent, [call |-> Head(cacheMsg), hub |-> sourceHub])
  /\ cacheMsg' = Tail(cacheMsg)
  /\ UNCHANGED <<isMigrate, sourceHub, callbacks, thread, made, answered, ended, timed>>

ReplayEnds ==
  /\ At("main", "replay") /\ cacheMsg = <<>>
  /\ thread' = Stops("main")
  /\ UNCHANGED <<subentity, callbacks, history>>

-----------------------------------------------------------------------------
(* Answers and timers.                                                     *)

\* handle_hub_response finds the callback of a request that arrived somewhere, or
\* a KeyError drops the answer. A callback without handlers raises, too, and
\* keeps its entry.
Answer(c) ==
  /\ At("main", "idle") /\ c \in Requests
  /\ c \in SentCalls \ answered
  /\ answered' = answered \cup {c}
  /\ thread' = IF c \in hubCallback \cap ready THEN Goes("main", "answer", c) ELSE thread
  /\ UNCHANGED <<subentity, callbacks, made, sent, ended, timed>>

\* The game's handler runs,
RunHandler ==
  /\ At("main", "answer")
  /\ ended' = [ended EXCEPT ![thread["main"].call] = @ \cup {"answer"}]
  /\ thread' = Goes("main", "delete", thread["main"].call)
  /\ UNCHANGED <<subentity, callbacks, made, sent, answered, timed>>

\* Mutant of Delete: the entry is left to the timer.
KeepEntry ==
  /\ At("main", "delete")
  /\ thread' = Stops("main")
  /\ UNCHANGED <<subentity, callbacks, history>>

\* and the entry is deleted. (A KeyError when the timer was faster ends the
\* handler just the same.)
Delete ==
  /\ At("main", "delete")
  /\ hubCallback' = hubCallback \ {thread["main"].call}
  /\ thread' = Stops("main")
  /\ UNCHANGED <<subentity, ready, timers, history>>

\* Mutant of Expire: the timer takes the entry and tells nobody.
ExpireSilently(c) ==
  /\ c \in timers
  /\ timers' = timers \ {c}
  /\ hubCallback' = hubCallback \ {c}
  /\ UNCHANGED <<subentity, ready, thread, history>>

\* __call_timeout__: the game is told of a timeout if del_callback finds the entry.
Expire(c) ==
  /\ c \in timers
  /\ timers' = timers \ {c}
  /\ hubCallback' = hubCallback \ {c}
  /\ ended' = IF c \in hubCallback THEN [ended EXCEPT ![c] = @ \cup {"timeout"}] ELSE ended
  /\ UNCHANGED <<subentity, ready, thread, made, sent, answered, timed>>

-----------------------------------------------------------------------------
CallSteps(t) ==
  ReadHub(t) \/ Send(t) \/ RegHubCallback(t) \/ SetHandlers(t) \/ SetTimeout(t)
MainSteps == CallSteps("main") \/ Replay \/ ReplayEnds \/ RunHandler \/ Delete

Next ==
  \/ \E t \in Threads, c \in Calls : Call(t, c)
  \/ CallSteps("loop") \/ MainSteps
  \/ OnWaitMigrateEntity \/ \E h \in Hubs : OnMigrateEntityComplete(h)
  \/ \E c \in Requests : Answer(c) \/ Expire(c)

\* Threads finish what they are in, and timers run out. Nobody has to call,
\* migrate or answer.
Fairness ==
  /\ WF_vars(MainSteps) /\ WF_vars(CallSteps("loop"))
  /\ \A c \in Requests : WF_vars(Expire(c))

Spec == Init /\ [][Next]_vars /\ Fairness

-----------------------------------------------------------------------------
\* Types. A timer runs only for a request whose handlers are set.
TypeOK ==
  /\ isMigrate \in BOOLEAN /\ sourceHub \in Hubs
  /\ cacheMsg \in Seq(Calls)
  /\ hubCallback \subseteq Requests /\ ready \subseteq Requests
  /\ timers \subseteq ready
  /\ thread \in [Threads -> [at : {"idle", "direct", "send", "register", "callback",
                                   "timeout", "replay", "answer", "delete"},
                             call : Calls \cup {NoCall}, hub : Hubs \cup {NoHub}]]
  /\ made \in [Threads -> Seq(Calls)]
  /\ sent \in Seq([call : Calls, hub : Hubs])
  /\ answered \subseteq Requests /\ timed \subseteq Requests
  /\ ended \in [Requests -> SUBSET {"answer", "timeout"}]

\* The calls on their way: parked, or about to be sent by a thread.
OnTheWay == ToSet(cacheMsg) \cup
            {thread[t].call : t \in {u \in Threads : At(u, "direct") \/ At(u, "send")}}

\* However two threads make calls while the migration begins and ends, no call
\* is lost and none is sent twice.
SentOnce ==
  /\ OnTheWay \cap SentCalls = {}
  /\ OnTheWay \cup SentCalls = Calls \ Unmade
  /\ IsInjective(cacheMsg)
  /\ \A i, j \in DOMAIN sent : sent[i].call = sent[j].call => i = j

\* What the main thread sends arrives in the order in which it made the calls,
\* whether they were parked or not. (Calls of coroutines can overtake calls that
\* the same coroutine made earlier and that are being replayed.)
MainKeepsOrder ==
  \A i \in DOMAIN sent, k \in DOMAIN made["main"] : sent[i].call = made["main"][k] =>
    \A earlier \in 1 .. k - 1 :
      \E j \in 1 .. i - 1 : sent[j].call = made["main"][earlier]

\* No call that the main thread made leaves while the entity migrates, or for
\* another hub than the one last announced.
MainSendsToOwner ==
  [][sent' # sent /\ Last(sent').call \in MadeBy("main") =>
       ~isMigrate /\ Last(sent').hub = sourceHub]_vars

\* A request ends once, by its answer or its timeout. The hole is the time in
\* which the answer's handler is looked up, runs, and its entry is deleted.
EndsOnce ==
  [][\A c \in Requests : ended[c] # {} /\ ended'[c] # ended[c] =>
       thread["main"].call = c /\ (At("main", "answer") \/ At("main", "delete"))]_vars

\* An answer finds the handlers of a request that the main thread made, unless it
\* timed out. (The answer to a request of a coroutine may arrive before its
\* callback is in the table.)
MainGetsAnswers ==
  \A c \in answered \cap MadeBy("main") :
    ended[c] # {} \/ (At("main", "answer") /\ thread["main"].call = c)

\* A request with a timeout ends, also when its answer was lost or came too early.
TimedRequestsEnd == \A c \in Requests : c \in timed ~> ended[c] # {}
=============================================================================
