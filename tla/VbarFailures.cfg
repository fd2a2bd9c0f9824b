SPECIFICATION MCSpec
CONSTANTS
    NoVbar = NoVbar
    NoThread = NoThread
    NoQueue = NoQueue
    Vbars = {v1}
    NPages = 2
    Modes = {TRUE}
    HoldKinds = {"external"}
    Threads = {t1, t2}
    Queues = {q1}
    Capacity = 1
    Batch = 2
    ReclaimFloor = 1
    MaxNeed = 1
    MaxCalls = 4
    MaxOps = 1
    MaxCopies = 1
    MaxFaults = 2
    MaxBusyCalls = 3
    MaxBusyGen = 3
CONSTRAINT Bounded
INVARIANTS
    PinsAreLeases
    UsageIsCounted
PROPERTIES
    EveryCallReturns
