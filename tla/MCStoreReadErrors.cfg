SPECIFICATION Spec
CONSTANTS
  Procs = {p1}
  NoProc = NoProc
  SliverThreshold = 1
  BarTimes = {1, 2, 3, 4}
  Lookbacks = {1}
  Epoch = 0
  Ttl = 1
  LiveHorizon = 3
  Persistent = TRUE
  MaxClock = 3
INVARIANTS
  ReadErrorsReported
