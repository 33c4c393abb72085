SPECIFICATION Spec
CONSTANTS
    r1 = r1
    r2 = r2
    r3 = r3
    s1 = s1
    t1 = t1
    t2 = t2
    Run = {r1, r2, r3}
    Task = {t1}
    TaskOf <- MCTaskOf
    KeepCounts = {1}
    AdminOps = {"clear", "reset"}
    Faults = {}
    MaxCrashes = 0
SYMMETRY Symmetry
INVARIANTS
    OverlapExplained
PROPERTIES
    NewestRowStays
CHECK_DEADLOCK FALSE
