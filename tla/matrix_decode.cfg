\* 3 data devices, 2 coding devices, every second row, every set of erasures.
SPECIFICATION Spec
CONSTANTS
    k = 3
    m = 2
    wordsize = 2
    Matrices <- SmallMatrices
    Incremental = FALSE
    NULL = NULL
INVARIANTS DecodesOrRefuses CodingRecreated InvertsOrReports
PROPERTIES WritesErasedOnce
CHECK_DEADLOCK FALSE
