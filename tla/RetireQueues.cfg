SPECIFICATION MCSpec
CONSTANTS
    Queues = {q1, q2}
    InitialQueue = q1
    NoQueue = NoQueue
    MaxTracked = 2
    FenceSlots = 1
    BatchUses = 2
    MaxIncarnation = 2
    MaxGeneration = 2
    MaxOps = 1
    MaxFaults = 1
INVARIANTS
    TypeOK
    CompleteTokensAreDone
    ForgottenTokensAreDone
    SlotsAreDistinct
PROPERTIES
    ImplementsContract
    TokensRetire
