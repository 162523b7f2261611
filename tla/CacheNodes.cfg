CONSTANTS
    n1 = n1
    n2 = n2
    Queries <- MCQueries
    Prefixes <- MCPrefixes
    PrefixesOf <- MCPrefixesOf
    Nodes <- MCNodes
    NodeOf <- MCNodeOf
    Fragile <- MCFragile
    Ttl = 1
    MaxUnderWay = 2
SPECIFICATION FairSpec
INVARIANTS
    TypeOK
    FlushLeavesNoOldKey
    InvalidatedKeysGo
    HitWithoutTtlHasGone
PROPERTIES
    FlushEnds
    KeysExpire
