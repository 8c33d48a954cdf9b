SPECIFICATION FairSpec
CONSTANTS
  Feeder = feeder
  Workers = {w1}
  Clients = {c1}
  Levels = {0, 1}
  Capacity = 1
  Attempts = 1
  AutoReEnqueue = TRUE
  Dispositions = {"default", "deadLetter"}
  ShutdownMode = "drain"
  k = k
  MaxEvents = 3
  NoKey = none
  KeyOf <- OneKey
  Budget <- RestartBudget
INVARIANTS AcceptedIsKept
CHECK_DEADLOCK FALSE
