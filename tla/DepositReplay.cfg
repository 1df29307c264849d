SPECIFICATION Spec
CONSTANTS
  r1 = r1
  r2 = r2
  c1 = c1
  c2 = c2
  s1 = s1
  s2 = s2
  NONE = NONE
  Requests = {r1, r2}
  Customers = {c1}
  Who <- MCWhoSame
  Slots = {s1, s2}
  Capacity <- MCPairs
  Handlers = {"h1"}
  MaxAttempts = 1
  MaxCrashes = 1
  Leads = {"near"}
  Outcomes = {"charged"}
SYMMETRY MCSymmetry
INVARIANTS OnePendingHold
PROPERTIES NoFreeAppointment
CHECK_DEADLOCK FALSE
