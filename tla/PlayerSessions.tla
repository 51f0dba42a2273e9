--------------------------- MODULE PlayerSessions ---------------------------
(***************************************************************************)
(* What the player manager of a hub (server/engine/player.py) promises,    *)
(* without its two tables: an entity has at most one session, on one       *)
(* client connection; sessions move between connections together; and a    *)
(* disconnect ends the sessions of that connection and no other.           *)
(*                                                                         *)
(* The promise has a hole, and the specification names it: when sessions   *)
(* are moved to a connection that already has some, the latter are         *)
(* orphaned, and from then on no disconnect ends them.                     *)
(***************************************************************************)
CONSTANTS Entities, Conns,
          NoConn    \* not a connection

VARIABLES
  session,   \* the connection each entity's session is on, or NoConn
  orphans    \* the entities whose session no disconnect ends

vars == <<session, orphans>>

\* The sessions that a disconnect of c ends and that a transfer off c moves.
Following(c) == {e \in Entities \ orphans : session[e] = c}

Init == /\ session = [e \in Entities |-> NoConn]
        /\ orphans = {}

\* A login gives e a session on c and forgets the one it had.
Login(e, c) == /\ session' = [session EXCEPT ![e] = c]
               /\ orphans' = orphans \ {e}

\* A transfer of e moves every session of its connection to c. Those that c
\* had already stay there as orphans.
Transfer(e, c) ==
  /\ session[e] # NoConn
  /\ LET from  == session[e]
         moved == Following(from) \cup {e}
     IN  /\ session' = [x \in Entities |-> IF x \in moved THEN c ELSE session[x]]
         /\ orphans' = (orphans \cup IF from = c THEN {} ELSE Following(c)) \ {e}

Disconnect(c) ==
  /\ session' = [e \in Entities |-> IF e \in Following(c) THEN NoConn ELSE session[e]]
  /\ UNCHANGED orphans

Next == \/ \E e \in Entities, c \in Conns : Login(e, c) \/ Transfer(e, c)
        \/ \E c \in Conns : Disconnect(c)

Spec == Init /\ [][Next]_vars
=============================================================================
