SPECIFICATION FairSpec
CONSTANTS
    Caller = {c1, c2, c3}
    FailureThreshold = 2
    SuccessThreshold = 2
    HalfOpenMaxRequests = 1
    CountCap = 2
    CounterMod = 2
PROPERTY
    HalfOpenResolves
