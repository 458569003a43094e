SPECIFICATION FairSpec
CONSTANTS
    site = site
    cert = cert
    CRD = {site, cert}
    Order <- Pair
    NeedsStarted <- StartedEdges
    NeedsHealthy <- HealthyEdges
    MaxLost = 1
INVARIANTS
    TypeOK
    NoDoubleClose
    StartedAfterNeeds
    PoolHasInformer
    MissingMeansStopped
    ReadyMeansActive
PROPERTIES
    DeferredStarts
    Reactivated
    ShutdownEnds
CHECK_DEADLOCK FALSE
