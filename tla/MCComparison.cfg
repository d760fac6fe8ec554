CONSTANTS
  g1 = g1
  g2 = g2
  a = a
  b = b
  ai = ai
  Groups = {g1}
  Runs = {a, b}
  GroupOf <- OneComparison
  StaticRuns = {b}
  HopelessRuns = {}
  Baseline = Baseline
  Addons = {ai}
  MaxAttempts = 2
  MaxRetries = 1
  HoldsExpire = TRUE
  NoGroup = NoGroup
  NoReservation = NoReservation
SPECIFICATION Spec
INVARIANTS
  TypeOK
  ChargedOnlyForSuccess
  NothingLeftReserved
  SiblingsShareAddons
  CancelledNeverSucceeds
PROPERTIES LivesAsSeen
CHECK_DEADLOCK FALSE
