CONSTANTS
  Players = {p1, p2, p3}
  Entities = {e1, e2}
  Conns = {c1, c2, c3}
  Lists = {l1, l2, l3, l4, l5, l6}
  NoPlayer = NoPlayer
  NoEntity = NoEntity
  NoConn = NoConn
  NoList = NoList
SPECIFICATION ThreadsSpec
SYMMETRY Symmetry
CHECK_DEADLOCK FALSE
INVARIANT CalmTables
PROPERTIES SparesOthers OneCallAtATime
