CONSTANTS
    Memory = {m1, m2, m3, m4}
    NoAddress = NoAddress
    PageUnits = 2
    Sizes <- MCSizes
    Names = {f}
    AssertBreaks = {TRUE, FALSE}
    AvoidAlias = {TRUE, FALSE}
    OtherQueues = TRUE
    MaxEvents = 5
    MaxDepth = 2
    MaxHeld = 2
    MaxFrees = 1
    MaxFaults = 1
SPECIFICATION MCSpec
ACTION_CONSTRAINT BoundedStep
INVARIANTS GraphTypeOK AllocationsAreDisjoint NothingLeaks
PROPERTIES HeldMemoryIsStable
CHECK_DEADLOCK FALSE
