SPECIFICATION FairSpec
CONSTANTS
  Procs = {p1, p2, p3}
  NoProc = NoProc
  Keys = {k1, k2}
  Objs = {o1, o2, o3}
  NoObj = NoObj
INVARIANTS
  TypeOK
  MutualExclusion
  TableInUse
PROPERTIES
  ImplementsMutex
  EveryCallerEnters
