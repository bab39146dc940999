SPECIFICATION FairSpec
CONSTANTS
  BarTimes = {0, 1, 2, 3}
  Windows <- SomeWindows
  NoBar <- None
  PageSize = 2
  RetryMax = 2
  MaxClock = 3
INVARIANTS
  DeliveredInOrder
  FailuresRecordedOnce
PROPERTIES
  FetchesWindow
  EveryCallEnds
