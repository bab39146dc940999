SPECIFICATION Spec
CONSTANTS
  SliverThreshold = 1
  LastInstant = 6
  MaxIntervals = 3
  Ttl = 2
  LiveHorizon = 4
  Inputs <- SomeInputs
  Requests <- SomeRequests
INVARIANTS
  PlanAgrees
  PlanMissesNothing
  PlanWastesNothing
  PlanForgivesDrift
CHECK_DEADLOCK FALSE
