SPECIFICATION AcqSpec
CONSTANTS
    A = A
    B = B
    No = No
    NumConsumers <- MCNumConsumers
    Offsets <- MCOffsets
    BlockSizes <- MCBlockSizes
    MaxFrames <- MCMaxFrames
    Plans <- MCPlans
    Names <- MCNames
    NoId = NoId
    Garbled = Garbled
    Absent = No
INVARIANTS
    TypeOK
    BalancedUnlessLost
    BlocksStayTogether
    TakesWhatWasConfigured
    OffsetUsedOnce
    OneLeftOver
    QuietRemovalIsSafe
PROPERTIES
    NextConsumerAtBlockEnd
CHECK_DEADLOCK FALSE
