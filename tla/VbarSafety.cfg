SPECIFICATION Spec
CONSTANTS
    v1 = v1
    v2 = v2
    t1 = t1
    t2 = t2
    q1 = q1
    q2 = q2
    NoVbar = NoVbar
    NoThread = NoThread
    NoQueue = NoQueue
    Vbars = {v1, v2}
    NPages = 1
    Modes = {TRUE, FALSE}
    HoldKinds = {"external"}
    Threads = {t1, t2}
    Queues = {q1}
    Capacity = 1
    Batch = 2
    ReclaimFloor = 1
    MaxNeed = 1
    MaxCalls = 5
    MaxOps = 1
    MaxCopies = 1
    MaxFaults = 1
SYMMETRY VbarSymmetry
INVARIANTS
    WorkIsBacked FrozenPagesAreOwned LeasesHaveContent
    TypeOK
PROPERTIES
    CopiesKeepMappings
