SPECIFICATION FairSpec
CONSTANTS
    Worker = {w1, w2, w3}
    InitCap = 1
    MaxCap = 2
    MaxPanics = 1
INVARIANTS
    TypeOK
    NoLostWakeup
    WaitersConsistent
    TokenAccounting
PROPERTY
    AcquireReturns
CHECK_DEADLOCK FALSE
