SPECIFICATION FairSpec
CONSTANTS
  Callers = {1, 2}
  Concurrency = 1
  Kinds = {"gate", "runner"}
  Durable = FALSE
  MaxRuns = 3
  MaxCancels = 1
  MaxFaults = 1
  MaxLives = 2
INVARIANTS PermitsConserved CountersCover RunsAccounted HistoryTold
PROPERTIES CallsReturn
