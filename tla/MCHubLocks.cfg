SPECIFICATION FairSpec
CONSTANTS
  Accepted = {a1}
  Dialed = {d1}
  Dialers = {f1}
  Tasks <- HubTasks
  Plans <- HubPlans
  Against <- OutOfOrder
CHECK_DEADLOCK FALSE
INVARIANT CirclesBreakOrder
PROPERTY PollReturns
