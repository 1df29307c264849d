SPECIFICATION Spec
CONSTANTS
  NONE = NONE
  MaxEntries = 2
  a = a
  b = b
  Phones = {a, b}
  Pairs = {1, 2}
  PairDay <- MCSameDay
  Slots = {1, 2}
  SlotDay <- MCSlotSameDay
  Capacity = 1
  Workers = {"w1"}
  Taps = {"t1"}
  BatchSize = 3
  MaxFailures = 1
  MaxEvents = 2
SYMMETRY MCSymmetry
INVARIANTS OnePlaceEach OffersFitTheGrid TextsFollowOffers
PROPERTIES TurnsAreKept
