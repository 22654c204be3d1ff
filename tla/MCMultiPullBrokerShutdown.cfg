SPECIFICATION FairSpec
CONSTANTS
    Workers = {w1, w2}
    NoWorker = NoWorker
    HWM = 1
    Stream <- MCStream
PROPERTIES
    ShutdownStopsWorkers
CHECK_DEADLOCK FALSE
