SPECIFICATION Spec
CONSTANTS
    p1 = p1
    p2 = p2
    p3 = p3
    Req = {p1, p2}
    Task = {t1}
    Def = {d1}
    Valid = {d1}
    Zone = {utc}
    Existing = {t1}
    Absent = Absent
    Partial = Partial
    MaxCrashes = 0
INVARIANTS
    PausedNeverFires
CHECK_DEADLOCK FALSE
