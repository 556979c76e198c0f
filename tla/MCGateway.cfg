\* One unary call and one stream at a time, three emitters.
SPECIFICATION Spec
CONSTANTS
    Capacity = 2
    Emitters <- MCEmitters
    Ingestors = {"known"}
    Caller = {c1}
    Stream = {s1}
    Sources = {"known", "unknown"}
    Event <- MCEvent
    AckCapacity = 1
    None = None
    DrainSize = 2
    MaxEvents = 3
    MaxPerRequest = 2
    MaxBatches = 2
INVARIANTS
    TypeOK
    AckedStored
    ProcessedCount
    StreamAnswersInOrder
    OrphansBounded
    RegistryFanOut
PROPERTIES
    EmittersShutDown
    StreamTasksEnd
CHECK_DEADLOCK FALSE
