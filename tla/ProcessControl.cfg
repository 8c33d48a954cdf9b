SPECIFICATION HalvesSpec
CONSTANTS
  Controllers = {c1}
  Editors = {c2}
  Ids = {"a", "b"}
  NoId = "none"
  Initial <- OneToCome
  Plans <- Moved
  Additions <- Another
  MaxEntries = 2
  MaxTime = 1
  Never = 2
  Cadences = {TRUE, FALSE}
  Budget <- ControlBudget
  Loops = {i1, i2}
  Callers = {r1}
  NoWait = NoWait
  Shortest = 1
  Factor = 2
  Longest = 2
  MaxIteration = 1
  MaxRuns = 2
  MaxCalls = 1
  MaxFaults = 1
  MaxLives = 2
INVARIANTS
  InstanceAccounting
  StopStops
  OncePerKey
  NoGhostSleepers
  ResetHeard
  RunsTold
PROPERTIES
  StopReturns
CHECK_DEADLOCK FALSE
