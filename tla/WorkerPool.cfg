SPECIFICATION FairSpec
CONSTANTS
    Key = {k1}
    N = 2
    drainSentinel = drainSentinel
    NoItem = NoItem
    MaxGen = 2
    MaxPtr = 1
INVARIANTS
    TypeOK
    SerialPerKey
    NoLostEvent
    CleanDrain
PROPERTIES
    KeepsPromise
    Delivered
    StoppedWorkersExit
CHECK_DEADLOCK FALSE
