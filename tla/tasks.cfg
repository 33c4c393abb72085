SPECIFICATION Spec
CONSTANTS
    p1 = p1
    p2 = p2
    p3 = p3
    Req = {p1, p2, p3}
    Task = {t1, t2}
    Def = {d1, bad}
    Valid = {d1}
    Zone = {utc, cet}
    Existing = {t1}
    Absent = Absent
    Partial = Partial
    MaxCrashes = 1
SYMMETRY Symmetry
INVARIANTS
    TypeOK
    JobsMatchFile
    EnvMatchesFile
    MutationsKept
CHECK_DEADLOCK FALSE
