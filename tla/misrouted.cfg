SPECIFICATION Spec

CONSTANTS
    Files <- GoodFiles
    StaleIndex = {0, 2}
    Numeral <- Numerals
    Address <- Addresses
    Literal <- Literals
    Requests <- AllRequests
    MAX_URI = 4
    MAX_VALUE = 3
    MaxRequests = 2

INVARIANTS
    RightServer

CHECK_DEADLOCK FALSE
