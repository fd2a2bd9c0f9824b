CONSTANTS
    TorchThreads = {t1, t2}
    Creators = {t1}
    Pointers = {p1}
    UseQueues = {q1, q2}
    Queue = q1
    NoThread = NoThread
    NoOwner = NoOwner
    MaxOwners = 1
    MaxOps = 1
    MaxFaults = 0
SPECIFICATION NativeSpec
INVARIANTS FreesRunOnTheirThread
CHECK_DEADLOCK FALSE
