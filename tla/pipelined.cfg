SPECIFICATION Spec

CONSTANTS
    PIPELINE_DEPTH = 2
    Requests <- GetsOrBad
    Responses <- ThreeAnswers
    BufLength = 4
    MaxAccepts = 1
    MaxFaults = 0
    Env = {"pipelining", "stall"}

INVARIANTS
    TypeOK
    RequestsInOrder
    ResponsesInOrder
    ErrorInTurn
    DeniedNotForwarded

CHECK_DEADLOCK FALSE
