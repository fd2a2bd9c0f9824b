SPECIFICATION HookSpec
CONSTANTS
    HookThreads <- Users
    Cells = {a1}
    HookDevices = {1, 2}
    Requests <- UserRequests
    MaxGeneration = 3
INVARIANT DuplicatesBlameTheDriver
CHECK_DEADLOCK FALSE
