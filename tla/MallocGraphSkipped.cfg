CONSTANTS
    Memory = {m1, m2, m3}
    NoAddress = NoAddress
    PageUnits = 2
    Sizes <- OneSize
    Names = {f}
    AssertBreaks = {FALSE}
    AvoidAlias = {FALSE}
    OtherQueues = TRUE
    MaxEvents = 5
    MaxDepth = 2
    MaxHeld = 2
    MaxFrees = 1
    MaxFaults = 0
SPECIFICATION MCSpec
CHECK_DEADLOCK FALSE
INVARIANT SkippedRootsAreIdle
