SPECIFICATION Spec
CONSTANTS
  w1 = w1  w2 = w2  c1 = c1  c2 = c2  a = a  b = b  ka = ka  kb = kb
  DrainMonitor = DrainMonitor
  NoKey = NoKey
  Workers = {w1}
  Clients = {c1}
  Items = {a, b}
  Keys = {ka, kb}
  KeyOf <- KeyOfBoth
  LevelCount = 1
  Capacity = 2
  MaxRetries = 1
  Dispositions = {"default"}
  AutoReEnqueue = FALSE
  ShutdownMode = "finishActive"
  StartPaused = TRUE
  AutoStart = FALSE
  RateLimit = "fail"
  Batches <- Singles
  AddLevels = {0}
  Budget <- ControlCalls
INVARIANTS DedupExclusive PausedMatchesLatch ShutdownCompleteOnce
 
SYMMETRY FiberSymmetry
