SPECIFICATION Spec
CONSTANTS
  k1 = k1
  k2 = k2
  k3 = k3
  j1 = j1
  j2 = j2
  r1 = r1
  r2 = r2
  None = None
  Keys = {k1, k2, k3}
  Shown = {k3}
  Jobs = {j1, j2}
  MAX_MEDIA_PER_DRESS = 2
  Days = {1, 2}
  Reservations = {r1, r2}
SYMMETRY MCSymmetry
INVARIANTS  CatalogueIsSound
PROPERTIES DeletedStaysDeleted
CHECK_DEADLOCK FALSE
