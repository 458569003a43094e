SPECIFICATION
    Spec
CONSTANTS
    Process = {p1}
    NoProcess = NoProcess
    MaxFaults = 0
    NStages = 0
    cleanup = cleanup
    foreign = foreign
    NoSnapshot = NoSnapshot
PROPERTY
    ForeignKept
CHECK_DEADLOCK FALSE
