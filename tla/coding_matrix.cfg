\* Fields of 2, 4, 8 and 16 elements.
SPECIFICATION Spec
CONSTANTS
    Shapes <- SmallShapes
    NULL = NULL
INVARIANTS FitForDecoders FewOnes PivotLeft
CHECK_DEADLOCK FALSE
