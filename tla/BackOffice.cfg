SPECIFICATION Spec
CONSTANTS
    Tenants = {t1, t2}
    Invites = {i1, i2}
    Operators = {o1, o2, o3}
    Cookies = {k1}
    Slugs = {s1}
    Emails = {e1, e2}
    Callers = {c1, c2}
    NoOne = NoOne
    Creds = {o1, o2, o3}
    Checks = {w1}
    Deposits = {d1}
    NoCred = NoCred
    LastDate = 1
    Weekday <- MCWeekday
    DaysPerWeek = 2
    DayLength = 8
    SLOT_INTERVAL = 2
    SpringAt = 2
    FallAt = 12
    Shift = 2
    MAX_RULE_CAPACITY = 2
    MAX_WEEKLY_RULES = 3
    SLOT_WINDOW_MAX_DAYS = 1
    SLOT_WINDOW_DEFAULT_DAYS = 0
    Weeks <- MCWeeks
    SpecialHours <- MCSpecialHours
    Replaces = {i1, i2}
    MaxSeats = 2
    p1 = p1
    p2 = p2
    p3 = p3
    p4 = p4
    Publications = {p1, p2, p3, p4}
    Policy <- MCPolicy
    Brides = {i1, i2}
    MAX_REFUNDABLE_HOURS = 3
    MaxTerms = 2
    AMOUNT = 101
    StartsAt = 3
    Toggles = {"deposits_enabled", "brides_only"}
    Writers = {i1, i2}
    Patches <- MCPatches
    TypeIds = {y1, y2}
    Names = {"fitting", "measuring"}
    Forms <- MCForms
    Editors = {i1, i2}
    NoWriter = NoWriter
SYMMETRY Alike
INVARIANTS OfficeIsSound
PROPERTIES TheDeadStayDead MoneyIsSafe
CHECK_DEADLOCK FALSE
