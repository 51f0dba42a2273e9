SPECIFICATION LiveSpec
CONSTANTS
  Hubs = {h1, h2}
  Gates = {g1}
  None = None
  Empty = Empty
  MaxCalls = 3
  MaxLinks = 2
CHECK_DEADLOCK FALSE
INVARIANTS TypeOK OneLinkOfTwoHubs
PROPERTIES FreesOwnLock EntersReturn
