CONSTANTS
  a = a
  b = b
  x = x
  y = y
  Pipelines = {a, b}
  Batches = {"batch"}
  MaxAttempts = 1
  MaxRetries = 1
  MaxCancels = 0
  MaxLeases = 2
  Idle = Idle
SPECIFICATION GroupsSpec
SYMMETRY Symmetry
INVARIANTS
  ChargedForReports
  WorkIsReserved
  StagesFollowGraph
PROPERTIES SucceededKept SingleTestHolds
CHECK_DEADLOCK FALSE
