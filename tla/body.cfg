SPECIFICATION FairSpec

CONSTANTS
    Inputs <- AllBodies
    BufLength = 4
    CHUNK_SIZE_LENGTH = 2
    MAX_SPACES = 1

INVARIANTS
    PositionsOK
    Relayed
    InStep
    NoJam

PROPERTIES
    AllRelayed

CHECK_DEADLOCK FALSE
