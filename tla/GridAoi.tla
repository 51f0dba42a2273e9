------------------------------- MODULE GridAoi -------------------------------
(***************************************************************************)
(* The grid of the area of interest (crates/aoi/src/lib.rs, GridAoi). The  *)
(* plane is cut into cells; an object sees the others in the cells around  *)
(* its own, as far as its radius reaches. The grid does not recompute what *)
(* everybody sees at every step: it keeps what each object saw last, works *)
(* out after each operation who may be affected, recomputes those, and     *)
(* writes down the differences as events that the next take_events hands   *)
(* out.                                                                    *)
(*                                                                         *)
(* A position is abstracted to its cell and a radius to the number of      *)
(* cells it reaches, at least 1. The hash sets give the events of one      *)
(* operation in any order, so pending is a sequence of sets: one set of    *)
(* events for each operation. Within one operation there is at most one    *)
(* event for an observer and a target.                                     *)
(***************************************************************************)
EXTENDS Integers, Sequences

CONSTANTS
  Ids,        \* entity ids of the grid
  Cells,      \* cells of the plane, pairs of integers
  Reaches,    \* how many cells a radius may reach
  NoCell,
  MaxPending  \* bound: operations with events between two take_events

ASSUME CellsAssumption == /\ Cells \subseteq Int \X Int
                          /\ NoCell \notin Cells
ASSUME ReachesAssumption == /\ Reaches \subseteq Nat \ {0}
                            /\ Reaches # {}

VARIABLES
  cell,      \* cell of each object in the grid, NoCell for the others
  reach,     \* how far each object in the grid sees
  seen,      \* last_visible: the objects each object saw last
  pending    \* pending_events

gridVars == <<cell, reach, seen, pending>>

Event == [kind : {"enter", "leave"}, observer : Ids, target : Ids]

GridTypeOK ==
  /\ cell \in [Ids -> Cells \cup {NoCell}]
  /\ reach \in [Ids -> Reaches]
  /\ seen \in [Ids -> SUBSET Ids]
  /\ pending \in Seq(SUBSET Event)

\* Stands for the reach of an object that has no record.
NoReach == CHOOSE r \in Reaches : TRUE

GridInit ==
  /\ cell = [i \in Ids |-> NoCell]
  /\ reach = [i \in Ids |-> NoReach]
  /\ seen = [i \in Ids |-> {}]
  /\ pending = <<>>

-----------------------------------------------------------------------------
Near(a, b, r) == /\ a[1] - b[1] \in -r..r
                 /\ a[2] - b[2] \in -r..r

\* compute_visible of i, when the objects are at at and see as far as far.
Visible(i, at, far) ==
  IF at[i] = NoCell THEN {}
  ELSE {t \in Ids \ {i} : at[t] # NoCell /\ Near(at[i], at[t], far[i])}

\* The objects that see i, as far as the grid remembers.
Observers(i) == {o \in Ids : i \in seen[o]}

\* The events that turn what was seen into now.
Differences(now) ==
  UNION {     [kind : {"enter"}, observer : {o}, target : now[o] \ seen[o]]
         \cup [kind : {"leave"}, observer : {o}, target : seen[o] \ now[o]] : o \in Ids}

Note(events) ==
  /\ pending' = IF events = {} THEN pending ELSE Append(pending, events)
  /\ Len(pending') <= MaxPending

\* recompute_and_diff of each object in group, with the objects at at.
Recompute(group, at, far) ==
  LET now == [i \in Ids |-> IF i \in group THEN Visible(i, at, far) ELSE seen[i]]
  IN  seen' = now /\ Note(Differences(now))

\* An object appears. Only those in its own cell look again.
InsertNew(i, c, r) ==
  /\ cell[i] = NoCell
  /\ cell' = [cell EXCEPT ![i] = c]
  /\ reach' = [reach EXCEPT ![i] = r]
  /\ Recompute({i} \cup {n \in Ids : cell[n] = c}, cell', reach')

\* Mutants of Affected: who saw the object before does not look again; who
\* comes into its view does not look again.
AffectedNow(i, at) == {i} \cup seen[i] \cup Visible(i, at, reach)
AffectedBefore(i, at) == {i} \cup seen[i] \cup Observers(i)

\* Who looks again when i moves: those it saw, those that saw it, and those
\* it sees from its new place.
Affected(i, at) == {i} \cup seen[i] \cup Observers(i) \cup Visible(i, at, reach)

\* An object moves; its radius stays what it was when it appeared.
Update(i, c) ==
  /\ cell[i] # NoCell
  /\ cell' = [cell EXCEPT ![i] = c]
  /\ Recompute(Affected(i, cell'), cell', reach)
  /\ UNCHANGED reach

\* insert: an object that is in the grid is only moved.
Insert(i, c, r) == InsertNew(i, c, r) \/ Update(i, c)

\* An object goes; those that saw it are told.
Remove(i) ==
  /\ cell[i] # NoCell
  /\ cell' = [cell EXCEPT ![i] = NoCell]
  /\ seen' = [o \in Ids |-> IF o = i THEN {} ELSE seen[o] \ {i}]
  /\ Note([kind : {"leave"}, observer : Observers(i), target : {i}])
  /\ reach' = [reach EXCEPT ![i] = NoReach]

=============================================================================
