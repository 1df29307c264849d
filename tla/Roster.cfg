SPECIFICATION Spec
CONSTANTS
    Templates = {t1}
    Staff = {s1, s2}
    Devices = {d1}
    Eligible = {s1, s2}
    Days = {1, 2}
    LastDay = 1
    AvailabilityState = {"unavailable"}
SYMMETRY Alike
INVARIANTS RosterIsSound
PROPERTIES EditsAreFlagged DecisionsStand
CHECK_DEADLOCK FALSE
