SPECIFICATION FairSpec
CONSTANTS
    Threads = {t1, t2}
    Corr = {c1}
    OmIds = {i1, i2}
    VenueFinal = {}
    MaxCrashes = 1
    PendingExpiry = FALSE
    None = None
INVARIANTS SinglePlacer
PROPERTIES PlacementReturns VenueOrderSurfaces
CHECK_DEADLOCK FALSE
