CONSTANTS
  k1 = k1
  k2 = k2
  k3 = k3
  c1 = c1
  c2 = c2
  Sessions = {s1, s2, s3}
  Reservations = {k1, k2, k3}
  Credits = {c1, c2}
  Cost <- MCCost
  Value <- MCValue
  NoSession = NoSession
  NoCall = NoCall
  TopUpRequests = {q1, q2}
  Reviewers = {v1, v2, v3}
  Accesses = {x1, x2, x3}
  Fields = {f1, f2}
  Callers = {l1, l2}
  Dimensions <- MCDimensions
  MaxDimensions = 2
  PersonaCounts = {7, 20, 33}
  Whole = 10
  Tolerance = 1
  MaxSegments = 6
  MaxPersonas = 3
  Launched = 3
  RowWeights = {1, 2}
  Expected = 4
  BatchSize = 2
  MaxPersonaRows = 3
  Hypotheses = {h1}
  Completions = {"high", "low"}
  MaxEdits = 1
  Orders = {d1, d2, d3}
  Requests <- MCRequests
  Config <- MCConfig
  FreePersonas = 2
  Funds = 12
SPECIFICATION AccountsSpec
INVARIANTS TypeOK BalanceNonNegative EntriesMatchStatus AccountsTypeOK
  FirstAccessIsSafe DraftIsSound PopulationAddsUp PaidAsAgreed
PROPERTIES SettledIsFinal ImplementsAccount
SYMMETRY Interchangeable
CHECK_DEADLOCK FALSE
