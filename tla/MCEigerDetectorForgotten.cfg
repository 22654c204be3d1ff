SPECIFICATION Spec
CONSTANTS
    energy = energy
    nimages = nimages
    NoParam = NoParam
    Params <- MCParams
    Affects <- MCAffects
    NImages = nimages
    NTrigger = 2
    Iterations = 2
    MaxWaits = 1
    Uses <- PutAndStart
    Replies <- ListReply
    MaxRequests = 3
    MaxFailures = 0
INVARIANTS
    NothingForgotten
CHECK_DEADLOCK FALSE
