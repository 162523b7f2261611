CONSTANTS
    q1 = q1
    q2 = q2
    Queries <- MCQueries
    BatchSize = 2
    FlushInterval = 2
    Faults <- NoFaults
    MaxEvents = 2
    MaxDecays = 1
    MaxLaunches = 1
SPECIFICATION FairSpec
PROPERTIES
    AcceptedEventuallyCounted
CHECK_DEADLOCK FALSE
