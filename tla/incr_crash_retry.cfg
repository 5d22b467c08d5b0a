\* Crashes, retries, any init, one to three read-ins.
SPECIFICATION FairSpec
CONSTANTS
    Disks = {1, 2, 3}
    M = 2
    ReadIns = {1, 2, 3}
    InitValues = {0, 1}
    Retry = TRUE
    MaxRuns = 3
    MaxCrashes = 2
INVARIANTS TypeOK KBeforeParity MetaAccountsForK
PROPERTIES EncoderTerminates FullStageBlocks
CHECK_DEADLOCK FALSE
