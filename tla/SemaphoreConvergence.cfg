SPECIFICATION LoadedSpec
CONSTANTS
    Worker = {w1, w2, w3}
    InitCap = 2
    MaxCap = 2
    MaxPanics = 0
PROPERTY
    ConvergesToCap
CHECK_DEADLOCK FALSE
