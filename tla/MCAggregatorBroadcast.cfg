\* One task, an aggregator alone.
SPECIFICATION Spec
CONSTANTS
    Task = {t1}
    MaxTime = 3
    Source = {"s1", "s2", "aggregated"}
    Burst = 1
    RefillNanos = 2
    MaxSources = 1
    Ttl = 2
    CleanupInterval = 1
    Seed <- MCSeed
    NotLoaded = NotLoaded
    BatchSize = 2
    Chains <- BroadcastChains
    Inputs <- MCInputs
    MaxMessages = 4
    Idle = Idle
INVARIANT BroadcastKept
CHECK_DEADLOCK FALSE
