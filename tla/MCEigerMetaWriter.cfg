SPECIFICATION FairSpec
CONSTANTS
    p1 = p1
    p2 = p2
    Processors <- MCProcessors
    Frames <- MCFrames
    Share <- MCShare
    OffsetOf <- MCOffsetOf
    Header <- MCHeader
    Series = 2
    OldSeries = 1
    NoSeries = 0
    MaxLate = 1
INVARIANTS
    TypeOK
    Joined
    Complete
PROPERTIES
    WrittenWhenOpen
    ImplementsTable
    Finishes
CHECK_DEADLOCK FALSE
