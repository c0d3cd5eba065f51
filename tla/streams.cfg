SPECIFICATION FairSpec
CONSTANTS
    Writers = {"api", "consumer", "handler"}
    Publishers = {"api"}
    MaxEvents = 4
    MaxConnects = 2
    ReplayLimit = 1
    Reports = 3
    QueueSize = 2
    MaxFaults = 1
    Faults = {"write", "agent", "slow", "cut"}
CHECK_DEADLOCK FALSE
INVARIANTS
    TypeOK
    ReportsInOrder
    DrainFlushes
    NoRepeat
PROPERTIES
    SilentAfterAnswer
    ScreenCatchesUp
