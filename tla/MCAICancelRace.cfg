CONSTANTS
  a = a
  b = b
  x = x
  y = y
  Pipelines = {a}
  Batches = {x}
  MaxAttempts = 1
  MaxRetries = 0
  MaxCancels = 1
  MaxLeases = 1
  Idle = Idle
SPECIFICATION Spec
PROPERTIES SucceededKept
CHECK_DEADLOCK FALSE
