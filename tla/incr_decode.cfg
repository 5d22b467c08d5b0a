\* Disks 1 to 3, k = 10, m = 3, two encoder processes that may
\* overlap and one of which may be killed, the decoder kept apart from them.
SPECIFICATION SysSpec
CONSTANTS
    Procs = {p1, p2}
    p1 = p1
    p2 = p2
    Disks = {1, 2, 3}
    M = 3
    K = 10
    ReadIns = {2}
    InitValues = {0}
    Retry = FALSE
    MaxRuns = 3
    MaxCrashes = 1
    Exclusive = TRUE
    MaxLosses = 2
    MaxDecodes = 1
SYMMETRY ProcSymmetry
INVARIANTS KBeforeAnyParity
PROPERTIES SerialRunsImplement DecoderRecovers
CHECK_DEADLOCK FALSE
