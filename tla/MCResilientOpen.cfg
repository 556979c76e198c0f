SPECIFICATION FairSpec
CONSTANTS
    Caller = {c1, c2}
    FailureThreshold = 1
    SuccessThreshold = 1
    HalfOpenMaxRequests = 1
    CountCap = 1
    CounterMod = 1
    MaxAttempts = 1
    InitialDelay = 1
    MaxDelay = 4
    Multiplier = 2
    JitterQuarters = 4
    BatchLen = 1
    FailureCapacity = 3
    StoreFullBatch = TRUE
    MaxCalls = 2
PROPERTY
    NoRetryWhenOpen
CHECK_DEADLOCK FALSE
