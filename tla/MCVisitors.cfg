CONSTANTS
  Tabs = {t1, t2}
  MaxTokens = 3
  MaxCalls = 2
  Requests = {r1, r2, r3}
  LoginLimit = 2
  DemoLimit = 1
  MaxCount = 2
  Users = {u1}
  Campaigns = {"c"}
  Retention = 1
  SeriesGuard = 3
  LastDay = 2
  MaxViews = 2
  MaxEvents = 5
  MaxVisits = 2
  Designs = {"d1", "d2"}
  MaxEdits = 2
  MaxFlight = 2
  Captures = {c1, c2}
  NewSides = {c2}
  Dom = {c1}
  Visual = {c2}
  Mapped = {c2}
SPECIFICATION VisitorsSpec
INVARIANTS VisitorsTypeOK WindowsHold FiguresAndReportsHold PageIsSound
PROPERTIES EndedStaysEnded
SYMMETRY Interchangeable
CHECK_DEADLOCK FALSE
