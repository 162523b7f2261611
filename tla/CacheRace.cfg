CONSTANTS
    n1 = n1
    n2 = n2
    none = none
    NoQuery = none
    Nodes <- MCNodes
    NodeOf <- MCNodeOf
    Seeds <- MCSeeds
    Queries <- PlainQueries
    Rows <- PlainQueries
    Prefixes <- PlainQueries
    RowOf <- PlainRowOf
    KeysOf <- PlainKeysOf
    MatchedBy <- PlainKeysOf
    Tasks <- BothTasks
    Faults <- NoFaults
    Fragile <- NoNode
    Limit = 2
    SeedCount = 2
    MaxWrites = 1
    MaxSearches = 2
    MaxLaunches = 1
SPECIFICATION Spec
INVARIANTS
    FreshWhenQuiet
CHECK_DEADLOCK FALSE
