SPECIFICATION TorchSpec
CONSTANTS
    Blocks = {b1}
    TorchQueues = {q1, q2}
    NoTorchQueue = NoQueue
    BlockSizes = {1}
    MaxLives = 2
    MaxQueued = 2
INVARIANT BlocksAreExclusive
CHECK_DEADLOCK FALSE
