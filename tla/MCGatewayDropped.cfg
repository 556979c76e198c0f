\* What a unary caller is told when its event does not fit.
SPECIFICATION Spec
CONSTANTS
    Capacity = 2
    Emitters <- MCEmitters
    Ingestors = {"known"}
    Caller = {c1}
    Stream = {s1}
    Sources = {"known", "unknown"}
    Event <- MCEvent
    AckCapacity = 1
    None = None
    DrainSize = 2
    MaxEvents = 3
    MaxPerRequest = 2
    MaxBatches = 2
INVARIANT DroppedIsDropped
CHECK_DEADLOCK FALSE
