SPECIFICATION Spec
CONSTANTS
    Tickets = {t1}
    Seamstresses = {w1, w2}
    Managers = {m}
    MaxInFlight = 2
    None = None
SYMMETRY Alike
INVARIANTS BoardShowsAllWork AnswersAreTrue
PROPERTIES WorkIsSafe
CHECK_DEADLOCK FALSE
