SPECIFICATION Spec
CONSTANTS
  p1 = p1
  p2 = p2
  k1 = k1
  k2 = k2
  b1 = b1
  b2 = b2
  s1 = s1
  s2 = s2
  v1 = v1
  v2 = v2
  NONE = NONE
  Nobody = Nobody
  Phones = {p1, p2}
  Customers = {k1, k2}
  Bookings = {b1, b2}
  Staff = {s1, s2}
  Verifiers = {v1, v2}
  MaxCodes = 2
  OTP_MAX_VERIFY_ATTEMPTS = 1
  MaxRequests = 4
SYMMETRY MCSymmetry
INVARIANTS DeskIsSound
PROPERTIES OldKeysAreDead HerWordStands
CHECK_DEADLOCK FALSE
