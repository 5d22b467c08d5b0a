\* Words of 4 bytes.
SPECIFICATION Spec
CONSTANTS
    Inputs <- SmallInputs
    Unit = 4
INVARIANTS AnyKNodes RebuiltByXor InputStored
CHECK_DEADLOCK FALSE
