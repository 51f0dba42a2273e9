CONSTANTS
  Players = {p1, p2, p3, p4, p5}
  Entities = {e1, e2, e3}
  Conns = {c1, c2, c3}
  NoPlayer = NoPlayer
  NoEntity = NoEntity
  NoConn = NoConn
SPECIFICATION Spec
INVARIANT FiledIsLive
PROPERTY KeepsSessions
SYMMETRY Symmetry
CHECK_DEADLOCK FALSE
