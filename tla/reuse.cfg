SPECIFICATION Spec

CONSTANTS
    PIPELINE_DEPTH = 2
    Requests <- MixedGets
    Responses <- FirstAnswer
    BufLength = 4
    MaxAccepts = 2
    MaxFaults = 0
    Env = {"reuse", "pipelining", "refused", "serverclose", "clientreset"}

INVARIANTS
    Conserved
    RequestsInOrder
    HoldsElement
    NoDescriptorLost

CHECK_DEADLOCK FALSE
