CONSTANTS
    q1 = q1
    q2 = q2
    Queries <- MCQueries
    BatchSize = 2
    FlushInterval = 2
    Faults <- AllFaults
    MaxEvents = 4
    MaxDecays = 1
    MaxLaunches = 2
SPECIFICATION FairSpec
INVARIANTS
    TypeOK
    BatchWithinSize
    FlushAccounting
    EventsPartition
    FlushesWithinSearches
PROPERTIES
    LedgerSpec
    LiveWorkerLosesNothing
    BufferedEventuallyCounted
    QueueDrainsUnlessStalled
    ShutdownTerminates
CHECK_DEADLOCK FALSE
