\* Every list of up to three lost devices, with and without the cache, and
\* without a schedule.
SPECIFICATION BSpec
CONSTANTS
    Codes <- SmallCodes
    NULL = NULL
INVARIANTS ErasedRecreated NeverSingular
PROPERTIES WritesLostOnce
CHECK_DEADLOCK FALSE
