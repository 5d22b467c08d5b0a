\* Every 4x5 bitmatrix up to the order of its columns: 57344 of them.
SPECIFICATION Spec
CONSTANTS
    R = 4
    C = 5
    Bitmatrices <- SortedBitmatrices
INVARIANTS ListIsTodo GreedyChoice FitsOperations ComputesProduct
PROPERTIES Finishes
CHECK_DEADLOCK FALSE
