SPECIFICATION FairSpec
CONSTANTS
    w1 = w1
    w2 = w2
    Absent = Absent
    Workers <- TwoWorkers
    Stream <- OneImage
    NumConsumers = 2
    BlockSize = 1
    Commands <- ControlCommands
    MaxPeers = 1
    MaxEvents = 2
    MaxCommands = 2
INVARIANTS
    WholeMessages
PROPERTIES
    KilledBeforeStream
CHECK_DEADLOCK FALSE
