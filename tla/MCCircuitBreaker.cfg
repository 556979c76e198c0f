SPECIFICATION FairSpec
CONSTANTS
    Caller = {c1, c2, c3, c4}
    FailureThreshold = 2
    SuccessThreshold = 2
    HalfOpenMaxRequests = 2
    CountCap = 2
    CounterMod = 2
INVARIANTS
    TypeOK
    ProbeBudget
    BelowThresholds
PROPERTIES
    KeepsGate
    OpenIsTemporary
    HalfOpenResolves
