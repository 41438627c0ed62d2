SPECIFICATION Spec

CONSTANTS
    big = big
    small = small
    Lists = {l1, l2}
    Pools = {big, small}
    Values = {1, 2}
    PoolSize <- Sizes
    MaxLen = 2

SYMMETRY Symmetry

INVARIANTS
    ElementsConserved

PROPERTIES
    ImplementsListSpec

CHECK_DEADLOCK FALSE
