SPECIFICATION FairSpec
CONSTANTS
    c1 = c1
    c2 = c2
    c3 = c3
    c4 = c4
    Call = {c1, c2, c3}
    Limit = 1
    MaxDay = 1
    MaxCrashes = 1
INVARIANTS
    TypeOK
    LimitPerAskingDay
    SentIsCounted
PROPERTIES
    RecordMovesForward
    CallsEnd
CHECK_DEADLOCK FALSE
