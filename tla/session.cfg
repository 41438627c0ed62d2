SPECIFICATION Spec

CONSTANTS
    PIPELINE_DEPTH = 2
    Requests <- PostGet
    Responses <- SizedOpen
    BufLength = 3
    MaxAccepts = 1
    MaxFaults = 1
    Env = {"stall", "early", "refused", "connectfault", "clientclose", "serverclose", "clientreset", "serverreset"}

INVARIANTS
    NoTruncation
    DeadlockCheckHolds

CHECK_DEADLOCK FALSE
