----------------------------- MODULE LocksProofs -----------------------------
(***************************************************************************)
(* When locks have ranks and every plan but those of Against takes a lock  *)
(* only while all those it holds have lower ranks, tasks that wait for     *)
(* each other have one among them that runs a plan of Against. The         *)
(* argument is that of the highest rank: of the locks that tasks of S wait *)
(* for and other tasks of S hold, one would be highest, but its holder     *)
(* waits for a higher one. The handlers of a gate and those of a hub have  *)
(* such ranks, whatever the number of clients, hubs, links and futures.    *)
(***************************************************************************)
EXTENDS Locks, TLAPS

CONSTANTS Clients, Hubs, Accepted, Dialed, Dialers

Gate == INSTANCE GateLocks
Hub == INSTANCE HubLocks

Ranks == 0..7

\* From one step to the next a plan takes only locks above all it holds, and
\* it does not ask again for one that it holds.
ClimbsTo(x, y, Rank) == x # y /\ \A h \in x, w \in y \ x : Rank[h] < Rank[w]
Climbs(p, Rank) == \A i \in 1..Len(p) - 1 : ClimbsTo(p[i], p[i + 1], Rank)

\* Plans are finite, and the locks they take are among those that have ranks.
PlansOf(L, Rank) == {p \in Seq(SUBSET L) : Climbs(p, Rank)}

-----------------------------------------------------------------------------
(* Type correctness.                                                       *)

LEMMA InitTypeOK == Init => TypeOK
<1> SUFFICES ASSUME Init PROVE TypeOK OBVIOUS
<1>1. Len(<<>>) = 0 OBVIOUS
<1>2. ASSUME NEW t \in Tasks PROVE plan[t] = <<>> /\ at[t] = 0 BY DEF Init
<1>3. ASSUME NEW t \in Tasks PROVE at[t] \in 0..Len(plan[t]) BY <1>1, <1>2
<1>4. DOMAIN plan = Tasks /\ DOMAIN at = Tasks BY DEF Init
<1> QED BY <1>2, <1>3, <1>4 DEF TypeOK

LEMMA NextTypeOK ==
  ASSUME TypeOK, [Next]_vars, \A t \in Tasks : \A p \in Plans[t] : Len(p) \in Nat
  PROVE  TypeOK'
<1>1. ASSUME NEW t \in Tasks, Begin(t) PROVE TypeOK'
  <2>1. PICK p \in Plans[t] : plan' = [plan EXCEPT ![t] = p]
    BY <1>1 DEF Begin
  <2>2. plan[t] = <<>> /\ at[t] = 0
    BY <1>1, Len(<<>>) = 0 DEF Begin, Running, TypeOK
  <2> QED BY <1>1, <2>1, <2>2 DEF TypeOK, Begin
<1>2. ASSUME NEW t \in Tasks, Advance(t) PROVE TypeOK'
  <2>1. Len(plan[t]) \in Nat BY Len(<<>>) = 0 DEF TypeOK
  <2> QED BY <1>2, <2>1 DEF TypeOK, Advance
<1>3. ASSUME NEW t \in Tasks, Finish(t) PROVE TypeOK'
  <2>1. ASSUME NEW u \in Tasks
        PROVE  /\ plan'[u] \in Plans[u] \cup {<<>>}
               /\ at'[u] \in 0..Len(plan'[u])
    <3>1. CASE u = t
      <4>1. plan'[u] = <<>> /\ at'[u] = 0 BY <1>3, <3>1 DEF Finish, TypeOK
      <4>2. Len(<<>>) = 0 OBVIOUS
      <4> QED BY <4>1, <4>2
    <3>2. CASE u # t BY <1>3, <3>2 DEF TypeOK, Finish
    <3> QED BY <3>1, <3>2
  <2>2. DOMAIN plan' = Tasks /\ DOMAIN at' = Tasks BY <1>3 DEF Finish, TypeOK
  <2> QED BY <2>1, <2>2 DEF TypeOK
<1>4. CASE UNCHANGED vars
  BY <1>4 DEF TypeOK, vars
<1> QED BY <1>1, <1>2, <1>3, <1>4 DEF Next

-----------------------------------------------------------------------------
(* No circle without a plan of Against.                                    *)

\* What a task holds is below what it wants.
LEMMA HoldsBelowWants ==
  ASSUME NEW L, NEW Rank \in [L -> Ranks], TypeOK, NEW t \in Tasks,
         Plans[t] \ Against \subseteq PlansOf(L, Rank), plan[t] \notin Against
  PROVE  /\ Holds(t) \subseteq L
         /\ Wants(t) \subseteq L
         /\ \A h \in Holds(t), w \in Wants(t) : Rank[h] < Rank[w]
<1>1. plan[t] \in Seq(SUBSET L) /\ Climbs(plan[t], Rank)
  <2>1. CASE plan[t] \in Plans[t] BY <2>1 DEF PlansOf
  <2>2. CASE plan[t] = <<>>
    <3>1. Len(plan[t]) = 0 /\ plan[t] \in Seq(SUBSET L) BY <2>2
    <3> QED BY <3>1 DEF Climbs
  <2> QED BY <2>1, <2>2 DEF TypeOK
<1>2. at[t] \in 0..Len(plan[t]) /\ Len(plan[t]) \in Nat BY <1>1 DEF TypeOK
<1>3. \A i \in 1..Len(plan[t]) : plan[t][i] \subseteq L BY <1>1
<1>4. Holds(t) \subseteq L BY <1>2, <1>3 DEF Holds
<1>5. Wants(t) \subseteq L BY <1>2, <1>3 DEF Wants
<1>6. ASSUME NEW h \in Holds(t), NEW w \in Wants(t) PROVE Rank[h] < Rank[w]
  <2>1. at[t] # 0 /\ h \in plan[t][at[t]] BY <1>6 DEF Holds
  <2>2. at[t] < Len(plan[t]) BY <1>2, <1>6 DEF Wants
  <2>3. at[t] \in 1..Len(plan[t]) - 1 BY <1>2, <2>1, <2>2
  <2>4. ClimbsTo(plan[t][at[t]], plan[t][at[t] + 1], Rank) BY <1>1, <2>3 DEF Climbs
  <2>5. w \in plan[t][at[t] + 1] \ plan[t][at[t]]
    BY <1>6, <2>1, <2>2, <2>4 DEF Wants, Holds, ClimbsTo
  <2> QED BY <2>1, <2>4, <2>5 DEF ClimbsTo
<1> QED BY <1>4, <1>5, <1>6

\* A lock that some task of S waits for, and some task of S holds.
Contended(S, l) == \E t, u \in S : l \in Wants(t) /\ l \in Holds(u)

\* One step of the argument: the holder of a contended lock waits for a
\* contended lock of a higher rank.
LEMMA HigherContended ==
  ASSUME NEW L, NEW Rank \in [L -> Ranks], TypeOK, NEW S \in SUBSET Tasks,
         \A t \in Tasks : Plans[t] \ Against \subseteq PlansOf(L, Rank),
         \A t \in S : plan[t] \notin Against,
         Deadlocked(S), NEW l, Contended(S, l)
  PROVE  /\ l \in L
         /\ \E m \in L : Contended(S, m) /\ Rank[l] < Rank[m]
<1>1. PICK u \in S : l \in Holds(u) BY DEF Contended
<1>2. PICK v \in S : Wants(u) \cap Holds(v) # {} BY <1>1 DEF Deadlocked, Waits
<1>3. PICK m \in Wants(u) : m \in Holds(v) BY <1>2
<1>4. l \in L /\ m \in L /\ Rank[l] < Rank[m] BY <1>1, <1>3, HoldsBelowWants
<1>5. Contended(S, m) BY <1>2, <1>3 DEF Contended
<1> QED BY <1>4, <1>5

\* With ranks that all plans but those of Against climb, tasks that wait for
\* each other in a circle have one among them that runs a plan of Against.
THEOREM RankedPlansDoNotCircle ==
  ASSUME NEW L, NEW Rank \in [L -> Ranks], TypeOK,
         \A t \in Tasks : Plans[t] \ Against \subseteq PlansOf(L, Rank)
  PROVE  CirclesBreakOrder
<1> SUFFICES ASSUME NEW S \in SUBSET Tasks, Deadlocked(S),
                    \A t \in S : plan[t] \notin Against
             PROVE  FALSE
  BY DEF CirclesBreakOrder
<1> DEFINE Bounds == {k \in 0..8 : \A l \in L : Contended(S, l) => Rank[l] < k}
<1>1. ASSUME NEW l, Contended(S, l)
      PROVE  /\ l \in L /\ Rank[l] \in Ranks
             /\ \E m \in L : Contended(S, m) /\ Rank[l] < Rank[m] /\ Rank[m] \in Ranks
  BY <1>1, HigherContended
<1>2. 8 \in Bounds BY <1>1 DEF Ranks
<1>3. ASSUME NEW k \in Bounds, k # 0 PROVE k - 1 \in Bounds
  <2> SUFFICES ASSUME NEW l \in L, Contended(S, l) PROVE Rank[l] < k - 1
    BY <1>3
  <2>1. PICK m \in L : Contended(S, m) /\ Rank[l] < Rank[m] /\ Rank[m] \in Ranks
    BY <1>1
  <2>2. Rank[m] < k /\ Rank[l] \in Ranks BY <2>1, <1>1
  <2> QED BY <2>1, <2>2 DEF Ranks
<1>4. 0 \in Bounds
  <2> HIDE DEF Bounds
  <2>1. 8 - 1 \in Bounds /\ 7 - 1 \in Bounds BY <1>2, <1>3, 8 - 1 = 7
  <2>2. 6 - 1 \in Bounds /\ 5 - 1 \in Bounds BY <2>1, <1>3, 7 - 1 = 6, 6 - 1 = 5
  <2>3. 4 - 1 \in Bounds /\ 3 - 1 \in Bounds BY <2>2, <1>3, 5 - 1 = 4, 4 - 1 = 3
  <2>4. 2 - 1 \in Bounds /\ 1 - 1 \in Bounds BY <2>3, <1>3, 3 - 1 = 2, 2 - 1 = 1
  <2> QED BY <2>4, 1 - 1 = 0
<1>5. PICK t \in S : TRUE BY DEF Deadlocked
<1>6. PICK u \in S : Wants(t) \cap Holds(u) # {} BY <1>5 DEF Deadlocked, Waits
<1>7. PICK l \in Wants(t) : Contended(S, l) BY <1>6 DEF Contended
<1> QED BY <1>1, <1>4, <1>7 DEF Ranks

-----------------------------------------------------------------------------
(* The gate. *)

GateAllLocks == Gate!SharedLocks \cup Clients \cup Hubs

\* The order that the handlers of the gate follow.
GateLockRank == [l \in GateAllLocks |->
  IF l \in {Gate!HubMsgs, Gate!ClientMsgs} THEN 0
  ELSE IF l \in {Gate!ConnMgr, Gate!CloseHandle} THEN 1
  ELSE IF l = Gate!Consul THEN 2
  ELSE IF l = Gate!Redis THEN 3
  ELSE IF l \in Clients THEN 4
  ELSE IF l \in Hubs THEN 5
  ELSE 6]

GateClimbing == PlansOf(GateAllLocks, GateLockRank)

LEMMA GateRankType == GateLockRank \in [GateAllLocks -> Ranks]
BY DEF GateLockRank, Ranks

LEMMA GateSharedRanks ==
  ASSUME Gate!NamesDiffer
  PROVE  /\ {Gate!HubMsgs, Gate!ClientMsgs, Gate!ConnMgr, Gate!CloseHandle, Gate!Consul, Gate!Redis,
             Gate!Offset} \subseteq GateAllLocks
         /\ GateLockRank[Gate!HubMsgs] = 0 /\ GateLockRank[Gate!ClientMsgs] = 0
         /\ GateLockRank[Gate!ConnMgr] = 1 /\ GateLockRank[Gate!CloseHandle] = 1
         /\ GateLockRank[Gate!Consul] = 2 /\ GateLockRank[Gate!Redis] = 3 /\ GateLockRank[Gate!Offset] = 6
<1>1. Gate!SharedLocks \subseteq GateAllLocks BY DEF GateAllLocks
<1>2. Gate!SharedLocks \cap (Clients \cup Hubs) = {} BY DEF Gate!NamesDiffer
<1> QED BY <1>1, <1>2 DEF GateLockRank, Gate!SharedLocks, Gate!HubMsgs,
     Gate!ClientMsgs, Gate!ConnMgr, Gate!CloseHandle, Gate!Consul, Gate!Redis, Gate!Offset

LEMMA GateProxyRanks ==
  ASSUME Gate!NamesDiffer
  PROVE  /\ \A c \in Clients : c \in GateAllLocks /\ GateLockRank[c] = 4
         /\ \A h \in Hubs : h \in GateAllLocks /\ GateLockRank[h] = 5
<1>1. Gate!SharedLocks \cap (Clients \cup Hubs) = {} /\ Clients \cap Hubs = {}
  BY DEF Gate!NamesDiffer
<1> QED BY <1>1 DEF GateAllLocks, GateLockRank, Gate!SharedLocks, Gate!HubMsgs,
     Gate!ClientMsgs, Gate!ConnMgr, Gate!CloseHandle, Gate!Consul, Gate!Redis, Gate!Offset

-----------------------------------------------------------------------------
(* Every plan climbs.                                                      *)

LEMMA GateRegHubClimbs ==
  ASSUME Gate!NamesDiffer, NEW h \in Hubs
  PROVE  Gate!RegHub(h) \in GateClimbing
<1> USE GateSharedRanks, GateProxyRanks DEF Gate!RegHub
<1>1. Gate!RegHub(h) \in Seq(SUBSET GateAllLocks) OBVIOUS
<1>2. Climbs(Gate!RegHub(h), GateLockRank) BY DEF Climbs, ClimbsTo
<1> QED BY <1>1, <1>2 DEF PlansOf, GateClimbing

LEMMA GateRegCallbackClimbs ==
  ASSUME Gate!NamesDiffer, NEW h \in Hubs
  PROVE  Gate!RegCallback(h) \in GateClimbing
<1> USE GateSharedRanks, GateProxyRanks DEF Gate!RegCallback
<1>1. Gate!RegCallback(h) \in Seq(SUBSET GateAllLocks) OBVIOUS
<1>2. Climbs(Gate!RegCallback(h), GateLockRank) BY DEF Climbs, ClimbsTo
<1> QED BY <1>1, <1>2 DEF PlansOf, GateClimbing

LEMMA GateToClientClimbs ==
  ASSUME Gate!NamesDiffer, NEW h \in Hubs, NEW c \in Clients
  PROVE  Gate!ToClient(h, c) \in GateClimbing
<1> USE GateSharedRanks, GateProxyRanks DEF Gate!ToClient
<1>1. Gate!ToClient(h, c) \in Seq(SUBSET GateAllLocks) OBVIOUS
<1>2. Climbs(Gate!ToClient(h, c), GateLockRank) BY DEF Climbs, ClimbsTo
<1> QED BY <1>1, <1>2 DEF PlansOf, GateClimbing

LEMMA GateNotifyClientClimbs ==
  ASSUME Gate!NamesDiffer, NEW h \in Hubs, NEW c \in Clients
  PROVE  Gate!NotifyClient(h, c) \in GateClimbing
<1> USE GateSharedRanks, GateProxyRanks DEF Gate!NotifyClient
<1>1. Gate!NotifyClient(h, c) \in Seq(SUBSET GateAllLocks) OBVIOUS
<1>2. Climbs(Gate!NotifyClient(h, c), GateLockRank) BY DEF Climbs, ClimbsTo
<1> QED BY <1>1, <1>2 DEF PlansOf, GateClimbing

LEMMA GateLeaveClientClimbs ==
  ASSUME Gate!NamesDiffer, NEW h \in Hubs, NEW c \in Clients, NEW k \in Hubs
  PROVE  Gate!LeaveClient(h, c, k) \in GateClimbing
<1> USE GateSharedRanks, GateProxyRanks DEF Gate!LeaveClient
<1>1. Gate!LeaveClient(h, c, k) \in Seq(SUBSET GateAllLocks) OBVIOUS
<1>2. Climbs(Gate!LeaveClient(h, c, k), GateLockRank) BY DEF Climbs, ClimbsTo
<1> QED BY <1>1, <1>2 DEF PlansOf, GateClimbing

LEMMA GateCallHubClimbs ==
  ASSUME Gate!NamesDiffer, NEW c \in Clients, NEW h \in Hubs
  PROVE  Gate!CallHub(c, h) \in GateClimbing
<1> USE GateSharedRanks, GateProxyRanks DEF Gate!CallHub
<1>1. Gate!CallHub(c, h) \in Seq(SUBSET GateAllLocks) OBVIOUS
<1>2. Climbs(Gate!CallHub(c, h), GateLockRank) BY DEF Climbs, ClimbsTo
<1> QED BY <1>1, <1>2 DEF PlansOf, GateClimbing

LEMMA GateEnterServiceClimbs ==
  ASSUME Gate!NamesDiffer, NEW c \in Clients, NEW h \in Hubs
  PROVE  Gate!EnterService(c, h) \in GateClimbing
<1> USE GateSharedRanks, GateProxyRanks DEF Gate!EnterService
<1>1. Gate!EnterService(c, h) \in Seq(SUBSET GateAllLocks) OBVIOUS
<1>2. Climbs(Gate!EnterService(c, h), GateLockRank) BY DEF Climbs, ClimbsTo
<1> QED BY <1>1, <1>2 DEF PlansOf, GateClimbing

LEMMA GateRoundClimbs == ASSUME Gate!NamesDiffer PROVE Gate!Round \in GateClimbing
<1> USE GateSharedRanks, GateProxyRanks DEF Gate!Round
<1>1. Gate!Round \in Seq(SUBSET GateAllLocks) OBVIOUS
<1>2. Climbs(Gate!Round, GateLockRank) BY DEF Climbs, ClimbsTo
<1> QED BY <1>1, <1>2 DEF PlansOf, GateClimbing

LEMMA GateCollectClimbs ==
  ASSUME Gate!NamesDiffer, NEW c \in Clients
  PROVE  Gate!Collect(c) \in GateClimbing
<1> USE GateSharedRanks, GateProxyRanks DEF Gate!Collect
<1>1. Gate!Collect(c) \in Seq(SUBSET GateAllLocks) OBVIOUS
<1>2. Climbs(Gate!Collect(c), GateLockRank) BY DEF Climbs, ClimbsTo
<1> QED BY <1>1, <1>2 DEF PlansOf, GateClimbing

LEMMA GateCloseStaleClimbs ==
  ASSUME Gate!NamesDiffer, NEW c \in Clients, NEW h \in Hubs
  PROVE  Gate!CloseStale(c, h) \in GateClimbing
<1> USE GateSharedRanks, GateProxyRanks DEF Gate!CloseStale
<1>1. Gate!CloseStale(c, h) \in Seq(SUBSET GateAllLocks) OBVIOUS
<1>2. Climbs(Gate!CloseStale(c, h), GateLockRank) BY DEF Climbs, ClimbsTo
<1> QED BY <1>1, <1>2 DEF PlansOf, GateClimbing

LEMMA GateAcceptClientClimbs ==
  ASSUME Gate!NamesDiffer, NEW c \in Clients
  PROVE  Gate!AcceptClient(c) \in GateClimbing
<1> USE GateSharedRanks, GateProxyRanks DEF Gate!AcceptClient
<1>1. Gate!AcceptClient(c) \in Seq(SUBSET GateAllLocks) OBVIOUS
<1>2. Climbs(Gate!AcceptClient(c), GateLockRank) BY DEF Climbs, ClimbsTo
<1> QED BY <1>1, <1>2 DEF PlansOf, GateClimbing

LEMMA GateAcceptHubClimbs == ASSUME Gate!NamesDiffer PROVE Gate!AcceptHub \in GateClimbing
<1> USE GateSharedRanks, GateProxyRanks DEF Gate!AcceptHub
<1>1. Gate!AcceptHub \in Seq(SUBSET GateAllLocks) OBVIOUS
<1>2. Climbs(Gate!AcceptHub, GateLockRank) BY DEF Climbs, ClimbsTo
<1> QED BY <1>1, <1>2 DEF PlansOf, GateClimbing

LEMMA GateReadClientClimbs == ASSUME Gate!NamesDiffer PROVE Gate!ReadClient \in GateClimbing
<1> USE GateSharedRanks, GateProxyRanks DEF Gate!ReadClient
<1>1. Gate!ReadClient \in Seq(SUBSET GateAllLocks) OBVIOUS
<1>2. Climbs(Gate!ReadClient, GateLockRank) BY DEF Climbs, ClimbsTo
<1> QED BY <1>1, <1>2 DEF PlansOf, GateClimbing

LEMMA GateCloseClientClimbs ==
  ASSUME Gate!NamesDiffer, NEW c \in Clients
  PROVE  Gate!CloseClient(c) \in GateClimbing
<1> USE GateSharedRanks, GateProxyRanks DEF Gate!CloseClient
<1>1. Gate!CloseClient(c) \in Seq(SUBSET GateAllLocks) OBVIOUS
<1>2. Climbs(Gate!CloseClient(c), GateLockRank) BY DEF Climbs, ClimbsTo
<1> QED BY <1>1, <1>2 DEF PlansOf, GateClimbing

LEMMA GateReadHubClimbs == ASSUME Gate!NamesDiffer PROVE Gate!ReadHub \in GateClimbing
<1> USE GateSharedRanks, GateProxyRanks DEF Gate!ReadHub
<1>1. Gate!ReadHub \in Seq(SUBSET GateAllLocks) OBVIOUS
<1>2. Climbs(Gate!ReadHub, GateLockRank) BY DEF Climbs, ClimbsTo
<1> QED BY <1>1, <1>2 DEF PlansOf, GateClimbing

LEMMA GateCloseHubClimbs ==
  ASSUME Gate!NamesDiffer, NEW h \in Hubs
  PROVE  Gate!CloseHub(h) \in GateClimbing
<1> USE GateSharedRanks, GateProxyRanks DEF Gate!CloseHub
<1>1. Gate!CloseHub(h) \in Seq(SUBSET GateAllLocks) OBVIOUS
<1>2. Climbs(Gate!CloseHub(h), GateLockRank) BY DEF Climbs, ClimbsTo
<1> QED BY <1>1, <1>2 DEF PlansOf, GateClimbing

\* The plans out of order are plans all the same.
LEMMA GateOutOfOrderType ==
  ASSUME Gate!NamesDiffer PROVE Gate!OutOfOrder \subseteq Seq(SUBSET GateAllLocks)
<1> USE GateSharedRanks, GateProxyRanks
<1>1. \A h \in Hubs : Gate!WaitMigrate(h) \in Seq(SUBSET GateAllLocks) BY DEF Gate!WaitMigrate
<1>2. \A h \in Hubs, c \in Clients : Gate!Complete(h, c) \in Seq(SUBSET GateAllLocks)
  BY DEF Gate!Complete
<1>3. \A c \in Clients : Gate!Heartbeat(c) \in Seq(SUBSET GateAllLocks) BY DEF Gate!Heartbeat
<1>4. \A h \in Hubs : Gate!ReplayParked(h) \in Seq(SUBSET GateAllLocks)
  BY DEF Gate!ReplayParked
<1>5. \A h \in Hubs, c \in Clients : Gate!CompleteLast(h, c) \in Seq(SUBSET GateAllLocks)
  BY DEF Gate!CompleteLast
<1>6. \A h \in Hubs, c \in Clients : Gate!KickAlone(h, c) \in Seq(SUBSET GateAllLocks)
  BY DEF Gate!KickAlone
<1> QED BY <1>1, <1>2, <1>3, <1>4, <1>5, <1>6 DEF Gate!OutOfOrder

LEMMA GatePlansClimb ==
  ASSUME Gate!NamesDiffer, Gate!IsGate, NEW t \in Tasks
  PROVE  Plans[t] \ Against \subseteq GateClimbing
<1>1. Gate!MainPlans \ Gate!OutOfOrder \subseteq GateClimbing
  BY GateRoundClimbs, GateRegHubClimbs, GateRegCallbackClimbs, GateToClientClimbs,
     GateNotifyClientClimbs,
     GateLeaveClientClimbs, GateCallHubClimbs, GateEnterServiceClimbs DEF Gate!MainPlans
<1>2. t \in Gate!GateTasks /\ Plans[t] = Gate!GatePlans[t] /\ Against = Gate!OutOfOrder
  BY DEF Gate!IsGate
<1>3. CASE t = Gate!Main BY <1>1, <1>2, <1>3 DEF Gate!GatePlans
<1>4. CASE t = Gate!Sweeper
  BY <1>2, <1>4, GateCollectClimbs, GateCloseStaleClimbs
  DEF Gate!GatePlans, Gate!Main, Gate!Sweeper
<1>5. CASE t = Gate!Listener
  BY <1>2, <1>5, GateAcceptClientClimbs, GateAcceptHubClimbs
  DEF Gate!GatePlans, Gate!Main, Gate!Sweeper, Gate!Listener
<1>6. CASE t \in Clients
  <2>1. t \notin {Gate!Main, Gate!Sweeper, Gate!Listener} BY <1>6 DEF Gate!NamesDiffer
  <2> QED BY <1>2, <1>6, <2>1, GateReadClientClimbs, GateCloseClientClimbs DEF Gate!GatePlans
<1>7. CASE t \in Hubs
  <2>1. t \notin {Gate!Main, Gate!Sweeper, Gate!Listener} \cup Clients BY <1>7 DEF Gate!NamesDiffer
  <2> QED BY <1>2, <1>7, <2>1, GateReadHubClimbs, GateCloseHubClimbs DEF Gate!GatePlans
<1> QED BY <1>2, <1>3, <1>4, <1>5, <1>6, <1>7 DEF Gate!GateTasks

-----------------------------------------------------------------------------
(* The theorems.                                                           *)

LEMMA GatePlanLengths ==
  ASSUME Gate!NamesDiffer, Gate!IsGate
  PROVE  \A t \in Tasks : \A p \in Plans[t] : Len(p) \in Nat
<1> SUFFICES ASSUME NEW t \in Tasks, NEW p \in Plans[t] PROVE Len(p) \in Nat
  OBVIOUS
<1>1. Against = Gate!OutOfOrder BY DEF Gate!IsGate
<1>2. p \in Seq(SUBSET GateAllLocks) BY <1>1, GatePlansClimb, GateOutOfOrderType
    DEF PlansOf, GateClimbing
<1> QED BY <1>2

\* A task of the gate is always at a step of one of its handlers.
THEOREM GateTypeCorrect ==
  ASSUME Gate!NamesDiffer, Gate!IsGate
  PROVE  Spec => []TypeOK
<1>1. Init => TypeOK BY InitTypeOK
<1>2. TypeOK /\ [Next]_vars => TypeOK' BY GatePlanLengths, NextTypeOK
<1> QED BY <1>1, <1>2, PTL DEF Spec

\* Tasks of a gate wait for each other in a circle only when one of them runs
\* a handler of OutOfOrder: all others lock conn_mgr before the proxies, and a
\* client's proxy before those of its hubs.
THEOREM GateCirclesBreakOrder ==
  ASSUME Gate!NamesDiffer, Gate!IsGate
  PROVE  Spec => []CirclesBreakOrder
<1>1. TypeOK => CirclesBreakOrder
  <2> SUFFICES ASSUME TypeOK PROVE CirclesBreakOrder OBVIOUS
  <2>1. \A t \in Tasks : Plans[t] \ Against \subseteq GateClimbing
    BY GatePlansClimb
  <2> QED BY <2>1, GateRankType, RankedPlansDoNotCircle DEF GateClimbing
<1>2. Spec => []TypeOK BY GateTypeCorrect
<1> QED BY <1>1, <1>2, PTL

-----------------------------------------------------------------------------
(* The hub. *)

HubAllLocks == Hub!SharedLocks \cup Hub!Links

\* The order that the handlers of the hub follow. Links that peers made rank below
\* the connection manager and links that the hub made above it: the first are
\* locked to handle a message, the second to file what was dialed.
HubLockRank == [l \in HubAllLocks |->
  IF l = Hub!MsgHandle THEN 0
  ELSE IF l = Hub!Server THEN 1
  ELSE IF l = Hub!Consul THEN 2
  ELSE IF l = Hub!ConnMgr THEN 4
  ELSE IF l = Hub!Redis THEN 5
  ELSE IF l \in Accepted THEN 3
  ELSE 6]

HubClimbing == PlansOf(HubAllLocks, HubLockRank)

LEMMA HubRankType == HubLockRank \in [HubAllLocks -> Ranks]
BY DEF HubLockRank, Ranks

LEMMA HubSharedRanks ==
  ASSUME Hub!NamesDiffer
  PROVE  /\ {Hub!MsgHandle, Hub!Server, Hub!Consul, Hub!ConnMgr, Hub!Redis} \subseteq HubAllLocks
         /\ HubLockRank[Hub!MsgHandle] = 0 /\ HubLockRank[Hub!Server] = 1 /\ HubLockRank[Hub!Consul] = 2
         /\ HubLockRank[Hub!ConnMgr] = 4 /\ HubLockRank[Hub!Redis] = 5
<1>1. Hub!SharedLocks \subseteq HubAllLocks BY DEF HubAllLocks
<1> QED BY <1>1 DEF HubLockRank, Hub!SharedLocks, Hub!MsgHandle,
     Hub!Server, Hub!Consul, Hub!ConnMgr, Hub!Redis

LEMMA HubLinkRanks ==
  ASSUME Hub!NamesDiffer
  PROVE  /\ \A l \in Hub!Links : l \in HubAllLocks /\ l \notin Hub!SharedLocks
         /\ \A l \in Accepted : l \in Hub!Links /\ HubLockRank[l] = 3
         /\ \A d \in Dialed : d \in Hub!Links /\ HubLockRank[d] = 6
         /\ \A l \in Hub!Links : HubLockRank[l] \in {3, 6}
<1>1. Hub!SharedLocks \cap Hub!Links = {} /\ Accepted \cap Dialed = {}
  BY DEF Hub!NamesDiffer
<1> QED BY <1>1 DEF HubAllLocks, Hub!Links, HubLockRank, Hub!SharedLocks, Hub!MsgHandle,
     Hub!Server, Hub!Consul, Hub!ConnMgr, Hub!Redis

-----------------------------------------------------------------------------
(* Every plan climbs.                                                      *)

\* One plan after another: the second may not take up a lock out of order.
LEMMA ClimbingOn ==
  ASSUME NEW L, NEW Rank, NEW a \in Seq(SUBSET L), NEW b \in Seq(SUBSET L),
         Climbs(a, Rank), Climbs(b, Rank), Len(a) > 0, Len(b) > 0,
         ClimbsTo(a[Len(a)], b[1], Rank)
  PROVE  /\ a \o b \in Seq(SUBSET L) /\ Climbs(a \o b, Rank)
         /\ Len(a \o b) > 0 /\ (a \o b)[Len(a \o b)] = b[Len(b)]
<1>1. /\ a \o b \in Seq(SUBSET L) /\ Len(a \o b) = Len(a) + Len(b)
      /\ Len(a) \in Nat /\ Len(b) \in Nat
  OBVIOUS
<1>2. \A i \in 1..Len(a) : (a \o b)[i] = a[i] OBVIOUS
<1>3. \A i \in 1..Len(b) : (a \o b)[Len(a) + i] = b[i] OBVIOUS
<1>4. ASSUME NEW i \in 1..Len(a) + Len(b) - 1
      PROVE  ClimbsTo((a \o b)[i], (a \o b)[i + 1], Rank)
  <2>1. CASE i < Len(a)
    <3>1. (a \o b)[i] = a[i] /\ (a \o b)[i + 1] = a[i + 1] BY <1>1, <1>2, <2>1
    <3>2. i \in 1..Len(a) - 1 BY <1>1, <2>1
    <3> QED BY <3>1, <3>2 DEF Climbs
  <2>2. CASE i = Len(a)
    <3>1. (a \o b)[i] = a[i] /\ (a \o b)[i + 1] = b[1] BY <1>1, <1>2, <1>3, <2>2
    <3> QED BY <2>2, <3>1
  <2>3. CASE i > Len(a)
    <3> DEFINE k == i - Len(a)
    <3>1. k \in 1..Len(b) - 1 /\ i = Len(a) + k /\ i + 1 = Len(a) + (k + 1)
      BY <1>1, <2>3
    <3>2. k \in 1..Len(b) /\ k + 1 \in 1..Len(b) BY <1>1, <3>1
    <3> HIDE DEF k
    <3>3. (a \o b)[i] = b[k] /\ (a \o b)[i + 1] = b[k + 1] BY <1>3, <3>1, <3>2
    <3> QED BY <3>1, <3>3 DEF Climbs
  <2> QED BY <1>1, <2>1, <2>2, <2>3
<1>5. Len(a \o b) > 0 /\ (a \o b)[Len(a \o b)] = b[Len(b)] BY <1>1, <1>3
<1> QED BY <1>1, <1>4, <1>5 DEF Climbs

\* What sending a message looks like to a handler that does.
IsSend(s) ==
  /\ s \in Seq(SUBSET (HubAllLocks \ {Hub!MsgHandle})) /\ Len(s) > 0
  /\ s[1] = {Hub!Server} /\ s[Len(s)] = {Hub!Server, Hub!ConnMgr}

LEMMA HubSendsAreSends ==
  ASSUME Hub!NamesDiffer, NEW s \in Hub!Sends PROVE IsSend(s)
<1> USE HubSharedRanks, HubLinkRanks
<1>1. Hub!MsgHandle \notin {Hub!Server, Hub!ConnMgr, Hub!Redis} OBVIOUS
<1>2. \A d \in Dialed : d \in HubAllLocks \ {Hub!MsgHandle} OBVIOUS
<1>3. IsSend(Hub!SendKnown) BY <1>1 DEF IsSend, Hub!SendKnown
<1>4. ASSUME NEW d \in Dialed PROVE IsSend(Hub!SendHub(d))
  BY <1>1, <1>2 DEF IsSend, Hub!SendHub
<1>5. ASSUME NEW d \in Dialed PROVE IsSend(Hub!SendGate(d))
  BY <1>1, <1>2 DEF IsSend, Hub!SendGate
<1> QED BY <1>3, <1>4, <1>5 DEF Hub!Sends, Hub!SendsInOrder, Hub!SendsToGate

LEMMA HubSendsClimb ==
  ASSUME Hub!NamesDiffer, NEW s \in Hub!SendsInOrder
  PROVE  s \in HubClimbing
<1> USE HubSharedRanks, HubLinkRanks
<1>1. Hub!SendKnown \in HubClimbing
  <2>1. Hub!SendKnown \in Seq(SUBSET HubAllLocks) BY DEF Hub!SendKnown
  <2>2. Climbs(Hub!SendKnown, HubLockRank) BY DEF Hub!SendKnown, Climbs, ClimbsTo
  <2> QED BY <2>1, <2>2 DEF PlansOf, HubClimbing
<1>2. ASSUME NEW d \in Dialed PROVE Hub!SendHub(d) \in HubClimbing
  <2>1. Hub!SendHub(d) \in Seq(SUBSET HubAllLocks) BY DEF Hub!SendHub
  <2>2. Climbs(Hub!SendHub(d), HubLockRank) BY DEF Hub!SendHub, Climbs, ClimbsTo
  <2> QED BY <2>1, <2>2 DEF PlansOf, HubClimbing
<1> QED BY <1>1, <1>2 DEF Hub!SendsInOrder

\* With the message handle locked all the while, a send is still a plan.
LEMMA HubHandledType ==
  ASSUME Hub!NamesDiffer, NEW s, IsSend(s)
  PROVE  /\ Hub!Handled(s) \in Seq(SUBSET HubAllLocks)
         /\ Len(s) \in Nat /\ Len(Hub!Handled(s)) = Len(s)
         /\ \A i \in 1..Len(s) : Hub!Handled(s)[i] = s[i] \cup {Hub!MsgHandle}
<1>1. Hub!MsgHandle \in HubAllLocks BY HubSharedRanks
<1> QED BY <1>1 DEF IsSend, Hub!Handled

\* The message handle ranks below all that a send locks.
LEMMA HubHandledClimbs ==
  ASSUME Hub!NamesDiffer, NEW s, IsSend(s), Climbs(s, HubLockRank)
  PROVE  Climbs(Hub!Handled(s), HubLockRank)
<1> DEFINE M == Hub!MsgHandle
<1>1. \A x \in HubAllLocks \ {M} : HubLockRank[M] < HubLockRank[x]
  BY HubSharedRanks DEF HubLockRank
<1>2. ASSUME NEW i \in 1..Len(s) - 1
      PROVE  ClimbsTo(s[i] \cup {M}, s[i + 1] \cup {M}, HubLockRank)
  <2>1. i \in 1..Len(s) /\ i + 1 \in 1..Len(s) BY HubHandledType
  <2>2. s[i] \subseteq HubAllLocks \ {M} /\ s[i + 1] \subseteq HubAllLocks \ {M}
    BY <2>1 DEF IsSend
  <2>3. ClimbsTo(s[i], s[i + 1], HubLockRank) BY DEF Climbs
  <2>4. s[i] \cup {M} # s[i + 1] \cup {M} BY <2>2, <2>3 DEF ClimbsTo
  <2>5. ASSUME NEW h \in s[i] \cup {M}, NEW w \in (s[i + 1] \cup {M}) \ (s[i] \cup {M})
        PROVE  HubLockRank[h] < HubLockRank[w]
    <3>1. w \in s[i + 1] \ s[i] /\ w \in HubAllLocks \ {M} BY <2>2, <2>5
    <3>2. CASE h = M BY <1>1, <3>1, <3>2
    <3>3. CASE h \in s[i] BY <2>3, <3>1, <3>3 DEF ClimbsTo
    <3> QED BY <2>5, <3>2, <3>3
  <2> QED BY <2>4, <2>5 DEF ClimbsTo
<1>3. ASSUME NEW i \in 1..Len(s) - 1
      PROVE  ClimbsTo(Hub!Handled(s)[i], Hub!Handled(s)[i + 1], HubLockRank)
  <2>1. i \in 1..Len(s) /\ i + 1 \in 1..Len(s) BY HubHandledType
  <2> QED BY <1>2, <2>1, HubHandledType
<1> QED BY <1>3, HubHandledType DEF Climbs

LEMMA HubEventType ==
  ASSUME Hub!NamesDiffer, NEW l \in Hub!Links, NEW s, IsSend(s)
  PROVE  /\ Hub!Event(l, s) \in Seq(SUBSET HubAllLocks)
         /\ Hub!TransferControl(l, s) \in Seq(SUBSET HubAllLocks)
<1>1. Hub!MsgHandle \in HubAllLocks /\ l \in HubAllLocks BY HubSharedRanks, HubLinkRanks
<1> QED BY <1>1, HubHandledType DEF Hub!Event, Hub!TransferControl

LEMMA HubEventClimbs ==
  ASSUME Hub!NamesDiffer, NEW l \in Hub!Links, NEW s \in Hub!SendsInOrder
  PROVE  Hub!Event(l, s) \in HubClimbing
<1> USE HubSharedRanks, HubLinkRanks
<1> DEFINE M == Hub!MsgHandle
           H == Hub!Handled(s)
           before == <<{M}, {M, l}, {M}>>
<1>1. IsSend(s) /\ Climbs(s, HubLockRank)
  BY HubSendsAreSends, HubSendsClimb DEF Hub!Sends, HubClimbing, PlansOf
<1>2. before \in Seq(SUBSET HubAllLocks) /\ Len(before) = 3 /\ before[3] = {M} OBVIOUS
<1>3. Climbs(before, HubLockRank) BY DEF Climbs, ClimbsTo
<1>4. /\ H \in Seq(SUBSET HubAllLocks) /\ Climbs(H, HubLockRank)
      /\ Len(H) > 0 /\ H[1] = {Hub!Server, M}
  BY <1>1, HubHandledType, HubHandledClimbs DEF IsSend
<1>5. ClimbsTo({M}, {Hub!Server, M}, HubLockRank) BY DEF ClimbsTo
<1>6. Len(before) > 0 /\ ClimbsTo(before[Len(before)], H[1], HubLockRank) BY <1>2, <1>4, <1>5
<1> HIDE DEF H, before
<1>7. before \o H \in Seq(SUBSET HubAllLocks) /\ Climbs(before \o H, HubLockRank)
  BY ONLY <1>2, <1>3, <1>4, <1>6, ClimbingOn
<1> QED BY <1>7 DEF H, before, Hub!Event, PlansOf, HubClimbing

LEMMA HubTransferControlClimbs ==
  ASSUME Hub!NamesDiffer, NEW l \in Hub!Links, NEW s \in Hub!SendsInOrder
  PROVE  Hub!TransferControl(l, s) \in HubClimbing
<1> USE HubSharedRanks, HubLinkRanks
<1> DEFINE M == Hub!MsgHandle
           H == Hub!Handled(s)
           before == <<{M}>>
           answer == <<{M}, {M, l}>>
<1>1. IsSend(s) /\ Climbs(s, HubLockRank)
  BY HubSendsAreSends, HubSendsClimb DEF Hub!Sends, HubClimbing, PlansOf
<1>2. /\ before \in Seq(SUBSET HubAllLocks) /\ Climbs(before, HubLockRank)
      /\ Len(before) = 1 /\ before[1] = {M}
  BY DEF Climbs
<1>3. answer \in Seq(SUBSET HubAllLocks) /\ Len(answer) = 2 /\ answer[1] = {M} OBVIOUS
<1>4. Climbs(answer, HubLockRank) BY DEF Climbs, ClimbsTo
<1>5. /\ H \in Seq(SUBSET HubAllLocks) /\ Climbs(H, HubLockRank)
      /\ Len(H) = Len(s) /\ Len(s) \in Nat /\ Len(s) > 0
      /\ H[1] = {Hub!Server, M} /\ H[Len(H)] = {Hub!Server, Hub!ConnMgr, M}
  BY <1>1, HubHandledType, HubHandledClimbs DEF IsSend
<1>6. ClimbsTo({M}, {Hub!Server, M}, HubLockRank) BY DEF ClimbsTo
<1>7. ClimbsTo({Hub!Server, Hub!ConnMgr, M}, {M}, HubLockRank) BY DEF ClimbsTo
<1> HIDE DEF H, before, answer
<1>8. ClimbsTo(before[Len(before)], H[1], HubLockRank) BY <1>2, <1>5, <1>6
<1>9. /\ before \o H \in Seq(SUBSET HubAllLocks) /\ Climbs(before \o H, HubLockRank)
      /\ Len(before \o H) > 0 /\ (before \o H)[Len(before \o H)] = H[Len(H)]
  <2>1. before \in Seq(SUBSET HubAllLocks) /\ Climbs(before, HubLockRank) BY <1>2
  <2>2. H \in Seq(SUBSET HubAllLocks) /\ Climbs(H, HubLockRank) BY <1>5
  <2>3. Len(before) > 0 /\ Len(H) > 0 BY <1>2, <1>5
  <2> QED BY ONLY <1>8, <2>1, <2>2, <2>3, ClimbingOn
<1>10. /\ (before \o H) \o answer \in Seq(SUBSET HubAllLocks)
       /\ Climbs((before \o H) \o answer, HubLockRank)
  <2> DEFINE first == before \o H
  <2>1. first \in Seq(SUBSET HubAllLocks) /\ Climbs(first, HubLockRank) BY <1>9
  <2>2. Len(first) > 0 /\ Len(answer) > 0 BY <1>3, <1>9
  <2>3. ClimbsTo(first[Len(first)], answer[1], HubLockRank) BY <1>3, <1>5, <1>7, <1>9
  <2> HIDE DEF first
  <2>4. first \o answer \in Seq(SUBSET HubAllLocks) /\ Climbs(first \o answer, HubLockRank)
    BY ONLY <2>1, <2>2, <2>3, <1>3, <1>4, ClimbingOn
  <2> QED BY <2>4 DEF first
<1> QED BY <1>10 DEF H, before, answer, Hub!TransferControl, PlansOf, HubClimbing

LEMMA HubRegisterClimbs ==
  ASSUME Hub!NamesDiffer, NEW l \in Accepted, NEW d \in Dialed
  PROVE  Hub!Register(l, d) \in HubClimbing
<1> USE HubSharedRanks, HubLinkRanks DEF Hub!Register
<1>1. Hub!Register(l, d) \in Seq(SUBSET HubAllLocks) OBVIOUS
<1>2. Climbs(Hub!Register(l, d), HubLockRank) BY DEF Climbs, ClimbsTo
<1> QED BY <1>1, <1>2 DEF PlansOf, HubClimbing

LEMMA HubRegCallbackClimbs == ASSUME Hub!NamesDiffer PROVE Hub!RegCallback \in HubClimbing
<1> USE HubSharedRanks, HubLinkRanks DEF Hub!RegCallback
<1>1. Hub!RegCallback \in Seq(SUBSET HubAllLocks) OBVIOUS
<1>2. Climbs(Hub!RegCallback, HubLockRank) BY DEF Climbs, ClimbsTo
<1> QED BY <1>1, <1>2 DEF PlansOf, HubClimbing

LEMMA HubForwardClimbs ==
  ASSUME Hub!NamesDiffer, NEW l \in Accepted, NEW d \in Dialed
  PROVE  Hub!Forward(l, d) \in HubClimbing
<1> USE HubSharedRanks, HubLinkRanks DEF Hub!Forward
<1>1. Hub!Forward(l, d) \in Seq(SUBSET HubAllLocks) OBVIOUS
<1>2. Climbs(Hub!Forward(l, d), HubLockRank) BY DEF Climbs, ClimbsTo
<1> QED BY <1>1, <1>2 DEF PlansOf, HubClimbing

LEMMA HubFlushClimbs == ASSUME Hub!NamesDiffer PROVE Hub!Flush \in HubClimbing
<1> USE HubSharedRanks, HubLinkRanks DEF Hub!Flush
<1>1. Hub!Flush \in Seq(SUBSET HubAllLocks) OBVIOUS
<1>2. Climbs(Hub!Flush, HubLockRank) BY DEF Climbs, ClimbsTo
<1> QED BY <1>1, <1>2 DEF PlansOf, HubClimbing

LEMMA HubEntryHubClimbs ==
  ASSUME Hub!NamesDiffer, NEW d \in Dialed
  PROVE  Hub!EntryHub(d) \in HubClimbing
<1> USE HubSharedRanks, HubLinkRanks DEF Hub!EntryHub
<1>1. Hub!EntryHub(d) \in Seq(SUBSET HubAllLocks) OBVIOUS
<1>2. Climbs(Hub!EntryHub(d), HubLockRank) BY DEF Climbs, ClimbsTo
<1> QED BY <1>1, <1>2 DEF PlansOf, HubClimbing

LEMMA HubEntryDirectClimbs ==
  ASSUME Hub!NamesDiffer, NEW d \in Dialed
  PROVE  Hub!EntryDirect(d) \in HubClimbing
<1> USE HubSharedRanks, HubLinkRanks DEF Hub!EntryDirect
<1>1. Hub!EntryDirect(d) \in Seq(SUBSET HubAllLocks) OBVIOUS
<1>2. Climbs(Hub!EntryDirect(d), HubLockRank) BY DEF Climbs, ClimbsTo
<1> QED BY <1>1, <1>2 DEF PlansOf, HubClimbing

LEMMA HubAcceptClimbs == ASSUME Hub!NamesDiffer PROVE Hub!Accept \in HubClimbing
<1> USE HubSharedRanks, HubLinkRanks DEF Hub!Accept
<1>1. Hub!Accept \in Seq(SUBSET HubAllLocks) OBVIOUS
<1>2. Climbs(Hub!Accept, HubLockRank) BY DEF Climbs, ClimbsTo
<1> QED BY <1>1, <1>2 DEF PlansOf, HubClimbing

LEMMA HubCloseClimbs ==
  ASSUME Hub!NamesDiffer, NEW l \in Hub!Links
  PROVE  Hub!Close(l) \in HubClimbing
<1> USE HubSharedRanks, HubLinkRanks DEF Hub!Close
<1>1. Hub!Close(l) \in Seq(SUBSET HubAllLocks) OBVIOUS
<1>2. Climbs(Hub!Close(l), HubLockRank) BY DEF Climbs, ClimbsTo
<1> QED BY <1>1, <1>2 DEF PlansOf, HubClimbing

\* The plans out of order are plans all the same.
LEMMA HubOutOfOrderType ==
  ASSUME Hub!NamesDiffer PROVE Hub!OutOfOrder \subseteq Seq(SUBSET HubAllLocks)
<1> USE HubSharedRanks, HubLinkRanks
<1>1. \A l \in Hub!Links : Hub!OnEvent(l) \in Seq(SUBSET HubAllLocks) BY DEF Hub!OnEvent
<1>2. \A d \in Dialed : Hub!EntryGate(d) \in Seq(SUBSET HubAllLocks) BY DEF Hub!EntryGate
<1>3. \A l, d \in Dialed : Hub!Register(l, d) \in Seq(SUBSET HubAllLocks) BY DEF Hub!Register
<1>4. \A l, d \in Dialed : Hub!Forward(l, d) \in Seq(SUBSET HubAllLocks) BY DEF Hub!Forward
<1>5. \A s \in Hub!SendsToGate : s \in Seq(SUBSET HubAllLocks) /\ IsSend(s)
  <2> SUFFICES ASSUME NEW s \in Hub!SendsToGate PROVE s \in Seq(SUBSET HubAllLocks) /\ IsSend(s)
    OBVIOUS
  <2>1. IsSend(s) BY HubSendsAreSends DEF Hub!Sends
  <2> QED BY <2>1 DEF IsSend
<1>6. \A l \in Hub!Links, s \in Hub!SendsToGate :
        /\ Hub!Event(l, s) \in Seq(SUBSET HubAllLocks)
        /\ Hub!TransferControl(l, s) \in Seq(SUBSET HubAllLocks)
  BY <1>5, HubEventType
<1> QED BY <1>1, <1>2, <1>3, <1>4, <1>5, <1>6 DEF Hub!OutOfOrder

LEMMA HubPlansClimb ==
  ASSUME Hub!NamesDiffer, Hub!IsHub, NEW t \in Tasks
  PROVE  Plans[t] \ Against \subseteq HubClimbing
<1>1. \A l \in Hub!Links, d \in Dialed :
        /\ l \in Accepted \/ Hub!Register(l, d) \in Hub!OutOfOrder
        /\ l \in Accepted \/ Hub!Forward(l, d) \in Hub!OutOfOrder
  BY DEF Hub!Links, Hub!OutOfOrder
<1>2. Hub!MainPlans \ Hub!OutOfOrder \subseteq HubClimbing
  <2> SUFFICES ASSUME NEW p \in Hub!MainPlans, p \notin Hub!OutOfOrder PROVE p \in HubClimbing
    OBVIOUS
  <2>1. CASE p \in {Hub!RegCallback, Hub!Flush}
    BY <2>1, HubRegCallbackClimbs, HubFlushClimbs
  <2>2. CASE p \in Hub!Sends
    BY <2>2, HubSendsClimb DEF Hub!Sends, Hub!OutOfOrder
  <2>3. ASSUME NEW l \in Hub!Links, NEW s \in Hub!Sends,
               p \in {Hub!Event(l, s), Hub!TransferControl(l, s)}
        PROVE  p \in HubClimbing
    <3>1. s \in Hub!SendsInOrder BY <2>3 DEF Hub!Sends, Hub!OutOfOrder
    <3> QED BY <2>3, <3>1, HubEventClimbs, HubTransferControlClimbs
  <2>4. ASSUME NEW l \in Hub!Links, NEW d \in Dialed, p \in {Hub!Register(l, d), Hub!Forward(l, d)}
        PROVE  p \in HubClimbing
    BY <1>1, <2>4, HubRegisterClimbs, HubForwardClimbs
  <2>5. \/ p \in {Hub!RegCallback, Hub!Flush} \cup Hub!Sends
        \/ \E l \in Hub!Links, s \in Hub!Sends : p \in {Hub!Event(l, s), Hub!TransferControl(l, s)}
        \/ \E l \in Hub!Links, d \in Dialed : p \in {Hub!Register(l, d), Hub!Forward(l, d)}
    BY DEF Hub!MainPlans
  <2> QED BY <2>1, <2>2, <2>3, <2>4, <2>5
<1>3. t \in Hub!HubTasks /\ Plans[t] = Hub!HubPlans[t] /\ Against = Hub!OutOfOrder
  BY DEF Hub!IsHub
<1>4. CASE t = Hub!Main BY <1>2, <1>3, <1>4 DEF Hub!HubPlans
<1>5. CASE t \in Dialers
  <2>1. t # Hub!Main BY <1>5 DEF Hub!NamesDiffer
  <2>2. \A d \in Dialed : Hub!EntryGate(d) \in Hub!OutOfOrder BY DEF Hub!OutOfOrder
  <2> QED BY <1>3, <1>5, <2>1, <2>2, HubEntryHubClimbs, HubEntryDirectClimbs DEF Hub!HubPlans
<1>6. CASE t \in Hub!Links
  <2>1. t \notin {Hub!Main} \cup Dialers BY <1>6 DEF Hub!NamesDiffer
  <2>2. Hub!OnEvent(t) \in Hub!OutOfOrder BY <1>6 DEF Hub!OutOfOrder
  <2> QED BY <1>3, <1>6, <2>1, <2>2, HubAcceptClimbs, HubCloseClimbs DEF Hub!HubPlans
<1> QED BY <1>3, <1>4, <1>5, <1>6 DEF Hub!HubTasks

-----------------------------------------------------------------------------
(* The theorems.                                                           *)

\* A task of the hub is always at a step of one of its handlers.
THEOREM HubTypeCorrect ==
  ASSUME Hub!NamesDiffer, Hub!IsHub
  PROVE  Spec => []TypeOK
<1>1. \A t \in Tasks : \A p \in Plans[t] : Len(p) \in Nat
  <2> SUFFICES ASSUME NEW t \in Tasks, NEW p \in Plans[t] PROVE Len(p) \in Nat
    OBVIOUS
  <2>1. Against = Hub!OutOfOrder BY DEF Hub!IsHub
  <2>2. p \in Seq(SUBSET HubAllLocks) BY <2>1, HubPlansClimb, HubOutOfOrderType
    DEF PlansOf, HubClimbing
  <2> QED BY <2>2
<1>2. Init => TypeOK BY InitTypeOK
<1>3. TypeOK /\ [Next]_vars => TypeOK' BY <1>1, NextTypeOK
<1> QED BY <1>2, <1>3, PTL DEF Spec

\* The main thread of a hub, the futures that dial, the readers and the close
\* callbacks wait for each other in a circle only when one of them runs a
\* handler of OutOfOrder.
THEOREM HubCirclesBreakOrder ==
  ASSUME Hub!NamesDiffer, Hub!IsHub
  PROVE  Spec => []CirclesBreakOrder
<1>1. TypeOK => CirclesBreakOrder
  <2> SUFFICES ASSUME TypeOK PROVE CirclesBreakOrder OBVIOUS
  <2>1. \A t \in Tasks : Plans[t] \ Against \subseteq HubClimbing
    BY HubPlansClimb
  <2> QED BY <2>1, HubRankType, RankedPlansDoNotCircle DEF HubClimbing
<1>2. Spec => []TypeOK BY HubTypeCorrect
<1> QED BY <1>1, <1>2, PTL
=============================================================================
