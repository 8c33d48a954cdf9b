SPECIFICATION Spec
CONSTANTS
  w1 = w1  w2 = w2  c1 = c1  c2 = c2  a = a  b = b  ka = ka  kb = kb
  DrainMonitor = DrainMonitor
  NoKey = NoKey
  Workers = {w1}
  Clients = {c1}
  Items = {a, b}
  Keys = {ka, kb}
  KeyOf <- KeyOfFirst
  LevelCount = 2
  Capacity = 2
  MaxRetries = 1
  Dispositions = {"retry", "default", "deadLetter"}
  AutoReEnqueue = TRUE
  ShutdownMode = "drain"
  StartPaused = FALSE
  AutoStart = TRUE
  RateLimit = "off"
  Batches <- PairOrSingle
  AddLevels <- OutOfRange
  Budget <- FaultCalls
INVARIANTS ExactlyOnePlace AttemptChain NoKeyLeak
CONSTRAINT Scenarios
PROPERTIES FollowsLifecycle
SYMMETRY FiberSymmetry
