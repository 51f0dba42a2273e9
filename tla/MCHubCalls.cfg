CONSTANTS
  Requests = {r1, r2}
  Notifies = {n1}
  Hubs = {h1, h2}
  NoCall = NoCall
  NoHub = NoHub
SPECIFICATION Spec
CHECK_DEADLOCK FALSE
INVARIANTS TypeOK SentOnce MainKeepsOrder MainGetsAnswers
PROPERTIES MainSendsToOwner EndsOnce TimedRequestsEnd
