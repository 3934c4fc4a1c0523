CONSTANTS
    c1 = c1
    c2 = c2
    Calls = {c1, c2}
    Fds = {0, 1}
    Requests <- SomeRequests
    Frames <- SomeFrames
    DefaultTimeout = 2
    MaxTimeout = 5
    NormOne = 1
SPECIFICATION FairSpec
INVARIANTS OnlyOwnSocketShut AdapterInv
PROPERTY CancelUnblocks
CHECK_DEADLOCK TRUE
