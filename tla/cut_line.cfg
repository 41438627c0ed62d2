SPECIFICATION Spec

CONSTANTS
    Inputs <- OneAnswer
    BufLength = 10
    MAX_FIELD_LENGTH = 5
    MaxToken = 3
    MaxName = 3
    MaxValue = 3
    MaxFields = 2
    CutStartLine = TRUE

INVARIANTS
    OnlyBadRefused

CHECK_DEADLOCK FALSE
