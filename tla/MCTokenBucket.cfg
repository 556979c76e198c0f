SPECIFICATION Spec
CONSTANTS
    Thread = {t1, t2, t3}
    Burst = 2
    RefillNanos = 2
    Scale = 1000
    MaxTime = 5
SYMMETRY ThreadSymmetry
INVARIANTS
    TypeOK
    IntervalsOwnedOnce
    RefillNotAhead
    RateLimit
