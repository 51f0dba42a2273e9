-------------------------------- MODULE Locks --------------------------------
(***************************************************************************)
(* Tasks that hold several locks at a time: the gate and the hub guard     *)
(* their tables with mutexes (tokio::sync::Mutex, and std::sync::Mutex for *)
(* the message handles of a hub), and a handler often takes one while it   *)
(* holds others. A plan is what one run of a handler holds as it goes on,  *)
(* a sequence of sets of locks: from one set to the next it takes a lock,  *)
(* or guards go out of scope. A step that repeats the set before it asks   *)
(* again for a lock it holds: no mutex here is reentrant, so the task      *)
(* waits for itself. After the last step it holds nothing. Task t runs the *)
(* plans in Plans[t], one after the other. Against are the plans that take *)
(* a lock against the order that all the others follow. What a handler     *)
(* does with what it has locked is the subject of other modules.           *)
(***************************************************************************)
EXTENDS Naturals, Sequences

CONSTANTS Tasks, Plans, Against

VARIABLES
  plan, \* the plan each task runs, or <<>>
  at    \* the number of steps of it that it has done

vars == <<plan, at>>

Running(t) == plan[t] # <<>>
Holds(t) == IF at[t] = 0 THEN {} ELSE plan[t][at[t]]
Wants(t) ==
  IF at[t] = Len(plan[t]) THEN {}
  ELSE IF plan[t][at[t] + 1] = Holds(t) THEN Holds(t)
  ELSE plan[t][at[t] + 1] \ Holds(t)

Waits(t, u) == Wants(t) \cap Holds(u) # {}

\* A task is at a step of one of its plans; a task without one is at no step.
TypeOK ==
  /\ DOMAIN plan = Tasks /\ DOMAIN at = Tasks
  /\ \A t \in Tasks : /\ plan[t] \in Plans[t] \cup {<<>>}
                      /\ at[t] \in 0..Len(plan[t])

Init == plan = [t \in Tasks |-> <<>>] /\ at = [t \in Tasks |-> 0]

\* A message arrives, a timer expires, a connection is made or lost.
Begin(t) ==
  /\ ~Running(t)
  /\ \E p \in Plans[t] : plan' = [plan EXCEPT ![t] = p]
  /\ UNCHANGED at

\* The task takes the lock it wants, when nobody holds it, or lets go of some.
Advance(t) ==
  /\ at[t] < Len(plan[t])
  /\ \A u \in Tasks : ~Waits(t, u)
  /\ at' = [at EXCEPT ![t] = @ + 1]
  /\ UNCHANGED plan

\* The handler returns, and everything it holds is free.
Finish(t) ==
  /\ Running(t) /\ at[t] = Len(plan[t])
  /\ plan' = [plan EXCEPT ![t] = <<>>]
  /\ at' = [at EXCEPT ![t] = 0]

Next == \E t \in Tasks : Begin(t) \/ Advance(t) \/ Finish(t)

\* Mutexes of tokio are handed over in the order they were asked for: a task
\* gets a lock that is free again and again. A handler that has its locks runs.
Fairness == \A t \in Tasks : SF_vars(Advance(t) \/ Finish(t))

Spec == Init /\ [][Next]_vars
FairSpec == Spec /\ Fairness

-----------------------------------------------------------------------------
\* Tasks each of which waits for one of them, another or itself: they, and
\* soon everything else, wait for ever.
Deadlocked(S) == S # {} /\ \A t \in S : \E u \in S : Waits(t, u)

\* No tasks wait for each other in a circle of two or more.
NoDeadlock ==
  \A S \in SUBSET Tasks : S # {} => \E t \in S : \A u \in S \ {t} : ~Waits(t, u)

\* A set of tasks that is deadlocked has one among it that runs a handler of
\* Against: all the others, in whatever numbers, get along with each other.
CirclesBreakOrder ==
  \A S \in SUBSET Tasks : Deadlocked(S) => \E t \in S : plan[t] \in Against

\* Task t waits for ever, in a circle or behind one, and all that keeps it from
\* going on is such a handler.
Waiting == {t \in Tasks : \E u \in Tasks : Waits(t, u)}
StuckBy(t, S) == t \in S /\ Deadlocked(S)
Stuck(t) ==
  /\ t \in Waiting
  /\ \E S \in SUBSET Waiting :
       /\ StuckBy(t, S)
       /\ \A R \in SUBSET S : StuckBy(t, R) => \E u \in R : plan[u] \in Against

\* A handler of the task ends, and its locks are free, unless the task waits
\* for ever because of a handler of Against.
EndsUnlessStuck(t) == Running(t) ~> (~Running(t) \/ Stuck(t))
=============================================================================
