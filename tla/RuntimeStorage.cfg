SPECIFICATION Spec
CONSTANTS
  c1 = c1
  c2 = c2
  Clients = {c1, c2}
  Ids = {1, 2}
  Values = {1, 2}
  Flags = {"unset", "true"}
  NewRows <- TwoRows
  Queries <- ThreeQueries
  StartMaps <- Starts
  Adapters = {"memory", "sqlite", "redis"}
  NoRow = NoRow
  NoClient = NoClient
  MaxCalls = 2
  MaxTransactions = 2
  MaxFaults = 1
INVARIANT AckedVisible
PROPERTIES Conforms
SYMMETRY ClientSymmetry
