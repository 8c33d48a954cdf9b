SPECIFICATION Spec
CONSTANTS
  c1 = c1
  c2 = c2
  Clients = {c1, c2}
  Registrations <- ThreeScopes
  Cells <- ThreeContracts
  Backends = {"memory", "sql"}
  SqlContexts = {"none", "own", "foreign"}
  NoScope = NoScope
  NoJob = NoJob
  MaxBatch = 2
  MaxRowsEver = 3
  MaxMaterials = 1
  MaxTime = 2
  MaxCuts = 1
INVARIANTS  NewestShown DiskBounded
SYMMETRY ClientSymmetry
