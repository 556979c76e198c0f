SPECIFICATION FairSpec
CONSTANTS
    EmitterName <- MCEmitterName
    Emitters <- MCEmitters
    Routes <- MCRoutes
    Capacity = 2
    ChannelCapacity = 1
    BatchSize = 2
    MaxMessages = 4
    MaxSenders = 2
INVARIANTS
    TypeOK
    FifoBuffer
    CountersBalance
    ExactFanOut
    GracefulShutdown
PROPERTIES
    QuietAfterReturn
    ShutdownCompletes
    EveryMessageOffered
CHECK_DEADLOCK FALSE
