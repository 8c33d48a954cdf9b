SPECIFICATION BacklogSpec
CONSTANTS
  w1 = w1  w2 = w2  c1 = c1  c2 = c2  a = a  b = b  ka = ka  kb = kb
  DrainMonitor = DrainMonitor
  NoKey = NoKey
  Workers = {w1, w2}
  Clients = {c1}
  Items = {a, b}
  Keys = {ka, kb}
  KeyOf <- KeyOfFirst
  LevelCount = 1
  Capacity = 2
  MaxRetries = 1
  Dispositions = {"default"}
  AutoReEnqueue = TRUE
  ShutdownMode = "drain"
  StartPaused = TRUE
  AutoStart = TRUE
  RateLimit = "off"
  Batches <- Pair
  AddLevels = {0}
  Budget <- BacklogCalls
INVARIANTS InFlightAccounting
PROPERTIES BacklogSettles ShutdownSettles 
