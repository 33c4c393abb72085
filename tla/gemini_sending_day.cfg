SPECIFICATION Spec
CONSTANTS
    c1 = c1
    c2 = c2
    c3 = c3
    c4 = c4
    Call = {c1, c2}
    Limit = 1
    MaxDay = 1
    MaxCrashes = 0
INVARIANTS
    LimitPerSendingDay
CHECK_DEADLOCK FALSE
