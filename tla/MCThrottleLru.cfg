\* One task and three sources, of which the throttle tracks two.
SPECIFICATION Spec
CONSTANTS
    Task = {t1}
    MaxTime = 3
    Source = {"s1", "s2", "s3", "aggregated"}
    Burst = 1
    RefillNanos = 2
    MaxSources = 2
    Ttl = 2
    CleanupInterval = 1
    Seed <- MCSeed
    NotLoaded = NotLoaded
    BatchSize = 2
    Chains <- LruChains
    Inputs <- LruInputs
    MaxMessages = 4
    Idle = Idle
INVARIANT EvictsLeastRecent
CHECK_DEADLOCK FALSE
