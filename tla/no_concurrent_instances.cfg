SPECIFICATION Spec
CONSTANTS
    r1 = r1
    r2 = r2
    r3 = r3
    s1 = s1
    t1 = t1
    t2 = t2
    Run = {r1, r2}
    Task = {t1}
    TaskOf <- MCTaskOf
    KeepCounts = {2}
    AdminOps = {}
    Faults = {}
    MaxCrashes = 0
INVARIANTS
    NoConcurrentInstances
CHECK_DEADLOCK FALSE
