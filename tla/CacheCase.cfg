CONSTANTS
    n1 = n1
    n2 = n2
    none = none
    NoQuery = none
    Nodes <- MCNodes
    NodeOf <- MCNodeOf
    Seeds <- MCSeeds
    Queries <- CaseQueries
    Rows <- CaseRows
    Prefixes <- CaseQueries
    RowOf <- CaseRowOf
    KeysOf <- CaseKeysOf
    MatchedBy <- CaseMatchedBy
    Tasks <- WorkerOnly
    Faults <- NoFaults
    Fragile <- NoNode
    Limit = 1
    SeedCount = 1
    MaxWrites = 2
    MaxSearches = 2
    MaxLaunches = 1
SPECIFICATION Spec
INVARIANTS
    FreshWhenQuiet
CHECK_DEADLOCK FALSE
