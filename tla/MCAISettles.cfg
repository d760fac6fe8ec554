CONSTANTS
  a = a
  b = b
  x = x
  y = y
  Pipelines = {a}
  Batches = {x}
  MaxAttempts = 2
  MaxRetries = 1
  MaxCancels = 0
  MaxLeases = 2
  Idle = Idle
SPECIFICATION UncancelledSpec
INVARIANTS
  TypeOK
  OneWriterPerStage
PROPERTIES ChargesSettle
CHECK_DEADLOCK FALSE
