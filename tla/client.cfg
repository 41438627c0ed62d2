SPECIFICATION FairSpec

CONSTANTS
    Request = 2
    Responses <- AllResponses
    BufLength = 2
    BodyReplies = {"COMPLETE", "INCOMPLETE", "INVALID"}

INVARIANTS
    TypeOK
    OneOutcome
    CompleteIsWhole
    NothingBehind
    ChecksHold

PROPERTIES
    RequestEnds

CHECK_DEADLOCK FALSE
