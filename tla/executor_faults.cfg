SPECIFICATION FairSpec
CONSTANTS
    r1 = r1
    r2 = r2
    r3 = r3
    s1 = s1
    t1 = t1
    t2 = t2
    Run = {r1, r2}
    Task = {t1}
    TaskOf <- MCTaskOf
    KeepCounts = {1}
    AdminOps = {"clear", "reset", "delete"}
    Faults = {"store", "spawnThrow"}
    MaxCrashes = 1
INVARIANTS
    TypeOK
    NoPhantomRun
    NoticeFollowsRecord
PROPERTIES
    RowLifecycle
    RunningRowsResolve
    CallsReturn
CHECK_DEADLOCK FALSE
