CONSTANTS
    Nodes <- MCNodes
    VNodes = 2
    Space = 4
SPECIFICATION Spec
INVARIANTS
    TypeOK
    OwnerIsNextClockwise
PROPERTIES
    OnlyNeededKeysMove
CHECK_DEADLOCK FALSE
