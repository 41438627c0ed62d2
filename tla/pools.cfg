SPECIFICATION PoolSpec
CONSTANTS
    MAX_CONNECTIONS = 3
    HEADER_POOL_SIZE = 3
    MAX_NUM_HEADERS = 2
INVARIANTS
    NoSharing
    HeadersConserved
CHECK_DEADLOCK FALSE
