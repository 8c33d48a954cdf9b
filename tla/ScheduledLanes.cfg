SPECIFICATION Spec
CONSTANTS
  LevelCount = 3
  Capacity = 2
  Algorithms = {"weighted", "strict-descending", "custom"}
  Scale = 2
  Inputs <- SomeInputs
  NamedLevels <- Names
  DefaultLevel = 1
  Matching = {3}
  MaxOffers = 4
  MaxExtracts = 1
INVARIANTS EachOnce Shares TagsNear
PROPERTIES StrictOrder NoneMeansEmpty
CHECK_DEADLOCK FALSE
