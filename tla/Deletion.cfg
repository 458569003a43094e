SPECIFICATION
    FairSpec
CONSTANTS
    Process = {p1, p2}
    NoProcess = NoProcess
    MaxFaults = 1
    NStages = 2
    cleanup = cleanup
    foreign = foreign
    NoSnapshot = NoSnapshot
INVARIANTS
    TypeOK
    NoOrphan
    StagesInOrder
CHECK_DEADLOCK FALSE
PROPERTIES
    DeletionCompletes
    FailoverAutomatic
