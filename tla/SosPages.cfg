SPECIFICATION SosSpec
CONSTANTS
  o1 = o1
  o2 = o2
  w = w
  a1 = a1
  Null = Null
  Accounts = {o1, o2, w}
  Founders = {o1, o2}
  Roles = {"owner", "seamstress"}
  Alerts = {a1}
  MaxSessions = 1
  MaxEdits = 3
  MaxInFlight = 2
SYMMETRY MCSymmetry
INVARIANTS LiveOwnerRemains PagesAreSeen
PROPERTIES PagesAreAnswered
CHECK_DEADLOCK FALSE
