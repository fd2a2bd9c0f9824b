SPECIFICATION Spec
CONSTANTS
    v1 = v1
    v2 = v2
    t1 = t1
    t2 = t2
    q1 = q1
    q2 = q2
    NoVbar = NoVbar
    NoThread = NoThread
    NoQueue = NoQueue
    Vbars = {v1}
    NPages = 1
    Modes = {TRUE}
    HoldKinds = {"external"}
    Threads = {t1}
    Queues = {q1}
    Capacity = 1
    Batch = 2
    ReclaimFloor = 1
    MaxNeed = 1
    MaxCalls = 4
    MaxOps = 0
    MaxCopies = 0
    MaxFaults = 2
INVARIANTS
    LeasesHaveContent
