SPECIFICATION Spec
CONSTANTS
  SliverThreshold = 1
  LastInstant = 5
  MaxFetches = 3
INVARIANTS
  NormalizeAgrees
  FreshnessKept
  HistoryCompacts
CHECK_DEADLOCK FALSE
