SPECIFICATION FairSpec
CONSTANTS
    site = site
    cert = cert
    CRD = {site, cert}
    Order <- Pair
    NeedsStarted <- StartedEdges
    NeedsHealthy <- HealthyEdges
    MaxLost = 2
PROPERTY
    Reactivated
CHECK_DEADLOCK FALSE
