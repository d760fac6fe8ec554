CONSTANTS
  k3 = k3
  c2 = c2
  k1 = k1
  k2 = k2
  c1 = c1
  Sessions = {s1, s2}
  Reservations = {k1, k2, k3}
  Credits = {c1, c2}
  Cost <- MCCost
  Value <- MCValue
  NoSession = NoSession
  NoCall = NoCall
SPECIFICATION PreloadingSpec
INVARIANT EntriesMatchStatus
