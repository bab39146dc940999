SPECIFICATION Spec
CONSTANTS
  Procs = {p1, p2}
  NoProc = NoProc
  SliverThreshold = 0
  BarTimes = {1, 3}
  Lookbacks = {1, 2}
  Epoch = 0
  Ttl = 1
  LiveHorizon = 3
  Persistent = TRUE
  MaxClock = 4
SYMMETRY Symmetry
INVARIANTS
  CoverageBacked
  CoverageHonest
  ServedWithinPromise
PROPERTIES
  NoDoubleFetch
  CoverageNeverLost
  BarsNeverRegress
