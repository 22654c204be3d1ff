SPECIFICATION FairSpec
CONSTANTS
    w1 = w1
    w2 = w2
    Absent = Absent
    Workers <- OneWorker
    Stream <- BegunAcquisition
    NumConsumers = 1
    BlockSize = 1
    Commands <- ChurnCommands
    MaxPeers = 2
    MaxEvents = 3
    MaxCommands = 1
INVARIANTS
    TypeOK
    InOrder
    CountedWhenSent
    ConnectedKnown
PROPERTIES
    StreamServed
CHECK_DEADLOCK FALSE
