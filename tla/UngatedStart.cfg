SPECIFICATION Spec
CONSTANTS
    site = site
    cert = cert
    CRD = {site, cert}
    Order <- Pair
    NeedsStarted <- StartedEdges
    NeedsHealthy <- HealthyEdges
    MaxLost = 1
INVARIANT
    EveryStartGated
CHECK_DEADLOCK FALSE
