CONSTANTS
    Queries <- MCQueries
    RowOf <- MCRowOf
    invalid = invalid
    Invalid = invalid
    Draws <- RepetitiveDraws
    Attempts = 2
    CSVs <- ShortCSVs
    MinRows = 3
    BatchSize = 2
    HandRuns = TRUE
    MaxStarts = 3
SPECIFICATION Spec
INVARIANTS
    TypeOK
    FullUnlessInterrupted
CHECK_DEADLOCK FALSE
