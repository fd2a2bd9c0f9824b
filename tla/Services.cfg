SPECIFICATION MCSpec
CONSTANTS
    Callers = {reader}
    Reader = reader
    Threads = 1
    QueueCap = 1
    MaxChunks = 2
    MaxCalls = 0
    Streams = {t1}
    Queues = {q1, q2, q3}
    AsyncQueues = {q1, q2}
    ReaderSlots = 2
    Window = 2
    LeadIn = 1
    MaxSize = 3
    None = None
    TorchThreads = {t1, t2}
    Creators = {t1}
    Pointers = {p1, p2}
    UseQueues = {q1, q2}
    Queue = q1
    NoThread = NoThread
    NoOwner = NoOwner
    MaxOwners = 2
    MaxOps = 1
    MaxFaults = 1
    HookThreads <- Users
    Cells = {a1, a2}
    HookDevices = {1, 2}
    Requests <- UserRequests
    MaxGeneration = 3
INVARIANTS
    ServicesTypeOK
    WindowsAreStable CopiesAreFenced
    FreedMemoryIsIdle MemoryHasOneOwner TransitionIsQuiescent
    LedgerIsCounted RetriesAreAnswered
PROPERTIES
    ReadsReturn
CHECK_DEADLOCK FALSE
