SPECIFICATION Spec
CONSTANTS
    Threads = {t1, t2}
    Corr = {c1}
    OmIds = {i1, i2}
    VenueFinal = {"FILLED"}
    MaxCrashes = 0
    PendingExpiry = FALSE
    None = None
INVARIANTS OneOrderPerPlacement
CHECK_DEADLOCK FALSE
