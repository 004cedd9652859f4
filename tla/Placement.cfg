SPECIFICATION Spec
CONSTANTS
    Threads = {t1, t2}
    Corr = {c1}
    OmIds = {i1, i2}
    VenueFinal = {"FILLED"}
    MaxCrashes = 1
    PendingExpiry = TRUE
    None = None
SYMMETRY Symmetry
INVARIANTS TypeOK SubmittedOnce VenueOrderFound NoStrandedExposure
PROPERTIES LedgerStable KeepsPromise
CHECK_DEADLOCK FALSE
