SPECIFICATION Spec
CONSTANTS
    Threads = {t1, t2}
    Corr = {c1}
    OmIds = {i1, i2}
    VenueFinal = {"FILLED"}
    MaxCrashes = 0
    PendingExpiry = FALSE
    None = None
PROPERTIES TerminalImmutable
CHECK_DEADLOCK FALSE
