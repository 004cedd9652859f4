SPECIFICATION FairQuotaSpec
CONSTANTS
    order = order
    history = history
    Callers <- MCCallers
    Critical <- MCCritical
    MaxWait <- MCMaxWait
    Chain <- MCChain
    Unit = 2
    Poll = 1
    MaxRegistered = 2
    MaxTime = 2
INVARIANTS QuotaInv SpentWithinQuota ReserveForCritical
PROPERTIES AcquireReturns
CHECK_DEADLOCK FALSE
