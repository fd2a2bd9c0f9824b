SPECIFICATION MCSpec
CONSTANTS
    Callers = {c1, c2}
    Threads = 2
    QueueCap = 2
    MaxChunks = 3
    MaxCalls = 3
    PageUnits = 2
    Reserved = 12
    Prewarm = 4
    QueueLimit = 4
    Helpers = 2
    Sizes = {0, 1, 3}
    MaxFaults = 2
    Owners <- AllOwners
    BufOwner <- Device1
    Handles = {1, 2, 3}
    Space = 5
    VmmSizes = {1, 2}
    Alignments = {1, 2}
    ChunkPages = 2
    BufferSizes = {3}
    MaxOwned = 1
    MaxVmmFaults = 1
    Blocks = {b1, b2}
    TorchQueues = {q1, q2}
    NoTorchQueue = NoQueue
    BlockSizes = {1, 2}
    MaxLives = 3
    MaxQueued = 3
    CopyVbars = {v1, v2}
    CopyQueues = {q1}
    NoCopyQueue = NoQueue
    Submitters = {s1, s2}
    Pollers = {p1, p2}
    MaxOwners = 2
INVARIANTS
    PartsTypeOK WaitsOutliveTheirTasks TransfersAreWhole SleepersAreNotNeeded
    HeldMemoryIsReady PrewarmIsHarmless
    MappingsAreGrounded CleanupsCanBeRepeated
    BufferIsMapped GoneBuffersLeaveNothing
    BarriersExclude HoldsCoverCopies
PROPERTIES
    BufferCallsReturn
CHECK_DEADLOCK FALSE
