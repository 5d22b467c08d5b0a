\* 3 data devices, 2 coding devices, the incremental library, every set of erasures.
SPECIFICATION Spec
CONSTANTS
    k = 3
    m = 2
    wordsize = 2
    Matrices <- SmallMatrices
    Incremental = TRUE
    NULL = NULL
INVARIANTS CodingRecreated
CHECK_DEADLOCK FALSE
