SPECIFICATION SystemSpec

CONSTANTS
    PIPELINE_DEPTH = 1
    Requests <- TwoGets
    Responses <- ShortAnswers
    BufLength = 2
    MaxAccepts = 1
    MaxFaults = 0
    Env = {"stall", "serverclose", "serverreset", "refused"}

PROPERTIES
    HandlerReturns
    ServerGoneEndsSession
    AllAnswered

CHECK_DEADLOCK FALSE
