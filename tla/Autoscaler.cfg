SPECIFICATION FairSpec
CONSTANTS
    BaseWorkers = 1
    OverWorkers = 2
    BaseDepth = 10
    OverDepth = 20
    Cooldown = 1
    MaxGen = 2
    MaxChanges = 3
INVARIANTS
    TypeOK
    EnoughWorkers
    DepthRestored
    ResyncStopsSoon
PROPERTIES
    CooldownKept
    OverrideEnds
CHECK_DEADLOCK FALSE
