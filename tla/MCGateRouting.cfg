CONSTANTS
  Hubs = {h1, h2}
  Links = {l1, l2}
  Entities = {e1}
  Calls = {m1, m2}
  NoEntity = NoEntity
  NoHub = NoHub
  NoLink = NoLink
SPECIFICATION Spec
INVARIANTS CallInOnePlace ParkedMigrates ClosedLinkForgotten
PROPERTIES DeadLinkDropped
CHECK_DEADLOCK FALSE
