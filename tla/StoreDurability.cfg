SPECIFICATION DSpec
CONSTANTS
  Procs = {p1}
  NoProc = NoProc
  SliverThreshold = 0
  BarTimes = {1, 3}
  Lookbacks = {0, 1}
  Epoch = 0
  Ttl = 1
  LiveHorizon = 3
  Persistent = TRUE
  MaxClock = 5
INVARIANTS
  TypeOK
  CoverageBacked
  CoverageHonest
  ServedWithinPromise
