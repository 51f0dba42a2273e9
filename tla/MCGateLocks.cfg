SPECIFICATION FairSpec
CONSTANTS
  Clients = {c1}
  Hubs = {h1}
  Tasks <- GateTasks
  Plans <- GatePlans
  Against <- OutOfOrder
CHECK_DEADLOCK FALSE
INVARIANT CirclesBreakOrder
PROPERTY MainLoopTurns
