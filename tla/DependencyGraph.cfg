SPECIFICATION FairSpec
CONSTANTS
    N = 4
    MaxEdges = 4
    Katalogs <- AllKatalogs
INVARIANTS
    TypeOK
    ValidationExact
    ExitExact
    OrderTopological
    OrderLeast
PROPERTY
    Terminates
CHECK_DEADLOCK FALSE
