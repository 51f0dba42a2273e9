SPECIFICATION ConnsSpec
CONSTANTS
  Hubs = {h1}
  Gates = {g1}
  Links = {l1, l2, l3, l4}
  NoLink = NoLink
  NoPeer = NoPeer
SYMMETRY Perms
CHECK_DEADLOCK FALSE
INVARIANTS SendsToPeer NoOldWriter ClosedIsForgotten
