SPECIFICATION FairSpec
CONSTANTS
    c1 = c1
    c2 = c2
    u1 = u1
    d = d
    Call <- MCCall
    Content <- MCContent
    Initial = {}
    Refused <- MCRefused
    Torn <- MCTorn
    Effect <- MCEffect
    MaxRestarts = 2
INVARIANTS
    TypeOK
    NeverTorn
    WritesAreFresh
PROPERTIES
    IsAtomicStore
    CallsSettle
CHECK_DEADLOCK FALSE
