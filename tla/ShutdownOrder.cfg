SPECIFICATION Spec
CONSTANTS
    site = site
    cert = cert
    CRD = {site, cert}
    Order <- Pair
    NeedsStarted <- StartedEdges
    NeedsHealthy <- HealthyEdges
    MaxLost = 0
INVARIANT
    DependentsDrainFirst
CHECK_DEADLOCK FALSE
