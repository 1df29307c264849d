SPECIFICATION Spec
CONSTANTS
    Tickets = {t1, t2}
    Staff = {m1, m2}
    Elevated = {m1, m2}
    Rooms = {r1, r2}
    Assignments = {a1, a2}
    None = None
SYMMETRY Alike
INVARIANTS RoomsAreSound 
 
CHECK_DEADLOCK FALSE
