SPECIFICATION Spec
CONSTANTS
  Procs = {p1}
  NoProc = NoProc
  SliverThreshold = 1
  BarTimes = {1, 3, 5}
  Lookbacks = {5}
  Epoch = 0
  Ttl = 1
  LiveHorizon = 3
  Persistent = TRUE
  MaxClock = 5
INVARIANTS
  HistoryIsComplete
