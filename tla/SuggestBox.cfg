CONSTANTS
    i = i
    ip = ip
    blank = blank
    Blank = blank
    Texts <- MCTexts
    Results <- MCResults
    Trends <- MCTrends
    MaxEdits = 3
    MaxBlurs = 1
    MaxSubmits = 1
    MaxLoads = 1
SPECIFICATION Spec
INVARIANTS
    TypeOK
    SettledListAnswersLastEdit
    ActiveItemExists
    HintAgrees
CHECK_DEADLOCK FALSE
