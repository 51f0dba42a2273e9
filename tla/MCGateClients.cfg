CONSTANTS
  Conns = {c1, c2}
  Hubs = {h1, h2}
  Entities = {e1}
  NoConn = NoConn
  NoHub = NoHub
  MaxDup = 2
SPECIFICATION Spec
SYMMETRY Symmetry
INVARIANTS IndexMatchesClientView AttachedIsIndexed MainHasHubToNotify
PROPERTIES HealthyClientStays
CHECK_DEADLOCK FALSE
