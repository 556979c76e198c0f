\* Two tasks, four messages, every kind of middleware.
SPECIFICATION Spec
CONSTANTS
    Task = {t1, t2}
    MaxTime = 3
    Source = {"s1", "s2", "aggregated"}
    Burst = 1
    RefillNanos = 2
    MaxSources = 1
    Ttl = 2
    CleanupInterval = 1
    Seed <- MCSeed
    NotLoaded = NotLoaded
    BatchSize = 2
    Chains <- MCChains
    Inputs <- MCInputs
    MaxMessages = 4
    Idle = Idle
SYMMETRY Symmetry
INVARIANTS
    TypeOK
    SourcesBounded
    PerSourceLimit
    DuplicateWindow
    CleanupBounded
    RandomStream
    BatchSpeaksForParts
    EveryMessageOnce
CHECK_DEADLOCK FALSE
