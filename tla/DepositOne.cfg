SPECIFICATION FairSpec
CONSTANTS
  r1 = r1
  r2 = r2
  c1 = c1
  c2 = c2
  s1 = s1
  s2 = s2
  NONE = NONE
  Requests = {r1}
  Customers = {c1}
  Who <- MCWho1
  Slots = {s1}
  Capacity <- MCOneSlot
  Handlers = {"h1"}
  MaxAttempts = 2
  MaxCrashes = 1
  Leads = {"far"}
  Outcomes = {"charged", "mispriced", "refused"}
INVARIANTS AckedIsAccounted ReminderKept LateMoneySurfaces
PROPERTIES SettledOnce HoldsEnd ChargeSettles
CHECK_DEADLOCK FALSE
