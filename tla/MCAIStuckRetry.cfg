CONSTANTS
  a = a
  b = b
  x = x
  y = y
  Pipelines = {a}
  Batches = {x}
  MaxAttempts = 1
  MaxRetries = 1
  MaxCancels = 1
  MaxLeases = 1
  Idle = Idle
SPECIFICATION FairSpec
PROPERTIES ChargesSettle
CHECK_DEADLOCK FALSE
