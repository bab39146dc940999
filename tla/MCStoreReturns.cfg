SPECIFICATION FairSpec
CONSTANTS
  Procs = {p1, p2}
  NoProc = NoProc
  SliverThreshold = 1
  BarTimes = {0, 3}
  Lookbacks = {3}
  Epoch = 0
  Ttl = 2
  LiveHorizon = 4
  Persistent = TRUE
  MaxClock = 4
PROPERTIES
  NoDoubleFetch
  CoverageNeverLost
  EveryGetReturns
