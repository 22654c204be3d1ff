SPECIFICATION Spec
CONSTANTS
    w1 = w1
    w2 = w2
    Absent = Absent
    Workers <- OneWorker
    Stream <- Acquisition
    NumConsumers = 1
    BlockSize = 1
    Commands <- CloseOnly
    MaxPeers = 1
    MaxEvents = 1
    MaxCommands = 1
INVARIANTS
    FabricatedEndIsTheEnd
CHECK_DEADLOCK FALSE
