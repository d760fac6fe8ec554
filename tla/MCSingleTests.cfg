CONSTANTS
  g1 = g1
  g2 = g2
  a = a
  b = b
  ai = ai
  Groups = {g1, g2}
  Runs = {a, b}
  GroupOf <- TwoTests
  StaticRuns = {b}
  HopelessRuns = {}
  Baseline = Baseline
  Addons = {}
  MaxAttempts = 1
  MaxRetries = 1
  HoldsExpire = FALSE
  NoGroup = NoGroup
  NoReservation = NoReservation
SPECIFICATION FairSpec
INVARIANTS
  PaidOnce
CHECK_DEADLOCK FALSE
PROPERTIES UsesOutcome RunsTerminate
