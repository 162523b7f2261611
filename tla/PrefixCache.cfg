CONSTANTS
    n1 = n1
    n2 = n2
    none = none
    NoQuery = none
    Nodes <- MCNodes
    NodeOf <- MCNodeOf
    Seeds <- MCSeeds
    Queries <- PlainQueries
    Rows <- PlainQueries
    Prefixes <- PlainQueries
    RowOf <- PlainRowOf
    KeysOf <- PlainKeysOf
    MatchedBy <- PlainKeysOf
    Tasks <- BothTasks
    Faults <- AllFaults
    Fragile <- FirstNode
    Limit = 1
    SeedCount = 1
    MaxWrites = 1
    MaxSearches = 2
    MaxLaunches = 2
SPECIFICATION FairSpec
INVARIANTS
    TypeOK
    FreshUnlessRaced
    TrendingIsSuggested
    KeysPresentWhenQuiet
PROPERTIES
    AnswerCacheSpec
    WrongKeyIsRepaired
CHECK_DEADLOCK FALSE
