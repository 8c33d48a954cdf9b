SPECIFICATION Spec
CONSTANTS
  w1 = w1  c1 = c1
  StatusFiber = StatusFiber
  Workers = {w1}
  Clients = {c1}
  ShutdownMode = "finishActive"
  HubSize = 1
  MaxOffers = 2
  MaxCalls = 2
INVARIANTS StatusFollows
CHECK_DEADLOCK FALSE
