CONSTANTS
  a = a
  b = b
  x = x
  y = y
  Pipelines = {a}
  Batches = {x}
  MaxAttempts = 1
  MaxRetries = 2
  MaxCancels = 0
  MaxLeases = 1
  Idle = Idle
SPECIFICATION Spec
INVARIANTS
  WorkIsReserved
CHECK_DEADLOCK FALSE
