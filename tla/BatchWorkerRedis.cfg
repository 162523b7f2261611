CONSTANTS
    q1 = q1
    q2 = q2
    Queries <- MCQueries
    BatchSize = 2
    FlushInterval = 2
    Faults <- RedisFault
    MaxEvents = 3
    MaxDecays = 1
    MaxLaunches = 1
SPECIFICATION Spec
INVARIANTS
    ExitCountsAll
CHECK_DEADLOCK FALSE
