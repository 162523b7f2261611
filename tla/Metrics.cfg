CONSTANTS
    p1 = p1
    p2 = p2
    Pool <- MCPool
    Durations <- MCDurations
    Window = 3
    Percent = 50
    MaxCalls = 5
SPECIFICATION FairSpec
INVARIANTS
    TypeOK
    CountersAgree
    PercentileIsNearestRank
PROPERTIES
    LogSpec
    WaitersProceed
CHECK_DEADLOCK FALSE
