SPECIFICATION FairSpec
CONSTANTS
    t1 = t1
    t2 = t2
    Threads <- MCThreads
    Calls <- MCCalls
    Scheduler <- MCScheduler
    BreakerOf <- MCBreakerOf
    MaxRetries = 0
    FailureThreshold = 2
    SuccessThreshold = 2
INVARIANTS BreakerCounts WriteSentOnce OneLoginPerCooldown
PROPERTIES CallReturns RefreshReopens
