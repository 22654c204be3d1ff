SPECIFICATION FairSpec
CONSTANTS
    energy = energy
    nimages = nimages
    NoParam = NoParam
    Params <- MCParams
    Affects <- MCAffects
    NImages = nimages
    NTrigger = 2
    Iterations = 2
    MaxWaits = 1
    Uses <- MCUses
    Replies <- AnyReply
    MaxRequests = 4
    MaxFailures = 1
INVARIANTS
    TypeOK
    KeptWhileAlone
    ArmedFresh
    ShotsBounded
PROPERTIES
    AcquisitionEnds
    HvResetEnds
    ShutdownEnds
CHECK_DEADLOCK FALSE
