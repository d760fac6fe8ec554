CONSTANTS
  g1 = g1
  g2 = g2
  a = a
  b = b
  ai = ai
  Groups = {g1}
  Runs = {a, b}
  GroupOf <- OneComparison
  StaticRuns = {}
  HopelessRuns = {}
  Baseline = Baseline
  Addons = {}
  MaxAttempts = 2
  MaxRetries = 1
  HoldsExpire = FALSE
  NoGroup = NoGroup
  NoReservation = NoReservation
SPECIFICATION Spec
INVARIANT ChargedOnce
CHECK_DEADLOCK FALSE
