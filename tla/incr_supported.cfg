\* Each disk once, two read-ins, no crash, the stack slot of init zero.
SPECIFICATION Spec
CONSTANTS
    Disks = {1, 2, 3, 4}
    M = 3
    ReadIns = {2}
    InitValues = {0}
    Retry = FALSE
    MaxRuns = 5
    MaxCrashes = 0
INVARIANTS ParityConsistent
PROPERTIES ImplementsParityStore
CHECK_DEADLOCK FALSE
