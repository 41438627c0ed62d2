SPECIFICATION FairSpec

CONSTANTS
    Inputs <- AllHeaders
    BufLength = 10
    MAX_FIELD_LENGTH = 5
    MaxToken = 3
    MaxName = 3
    MaxValue = 3
    MaxFields = 2
    CutStartLine = FALSE

INVARIANTS
    BuffersOK
    HeadersRelayed
    BodyAnnounced
    OnlyBadRefused

PROPERTIES
    HeadersEnd

CHECK_DEADLOCK FALSE
