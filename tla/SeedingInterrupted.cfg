CONSTANTS
    Queries <- MCQueries
    RowOf <- MCRowOf
    invalid = invalid
    Invalid = invalid
    Draws <- VariedDraws
    Attempts = 2
    CSVs <- HeaderOnly
    MinRows = 3
    BatchSize = 2
    HandRuns = FALSE
    MaxStarts = 3
SPECIFICATION Spec
INVARIANTS
    ServedTableIsFull
CHECK_DEADLOCK FALSE
