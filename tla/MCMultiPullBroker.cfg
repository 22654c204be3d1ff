SPECIFICATION FairSpec
CONSTANTS
    Workers = {w1, w2}
    NoWorker = NoWorker
    HWM = 1
    Stream <- MCStream
INVARIANTS
    TypeOK
    CountsAtMostOneTwice
    SomebodyJoined
    NothingHalfForwarded
PROPERTIES
    ImplementsChannel
    EverythingRead
CHECK_DEADLOCK FALSE
