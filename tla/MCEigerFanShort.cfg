SPECIFICATION Spec
CONSTANTS
    w1 = w1
    w2 = w2
    Absent = Absent
    Workers <- OneWorker
    Stream <- Acquisition
    NumConsumers = 1
    BlockSize = 1
    Commands <- StatusOnly
    MaxPeers = 1
    MaxEvents = 1
    MaxCommands = 1
INVARIANTS
    ShortImagesAreShort
CHECK_DEADLOCK FALSE
