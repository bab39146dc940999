SPECIFICATION MCFairSpec
CONSTANTS
  Keys = {k1, k2}
  NoKey = NoKey
  Times = {1, 2}
  Values = {1, 2}
  NoValue <- None
  Batches <- SomeBatches
  IntervalSets <- SomeIntervalSets
  Windows <- SomeWindows
  MaxWrites = 2
INVARIANTS
  SchemaReady
  MemoryAgrees
  MergeAgrees
PROPERTIES
  ImplementsRepository
  EveryCallReturns
