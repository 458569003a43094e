SPECIFICATION Spec
CONSTANTS
    BaseWorkers = 1
    OverWorkers = 2
    BaseDepth = 10
    OverDepth = 20
    Cooldown = 1
    MaxGen = 2
    MaxChanges = 3
INVARIANT
    GoroutinesMatchCapacity
CHECK_DEADLOCK FALSE
