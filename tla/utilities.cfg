SPECIFICATION UtilitiesSpec
CONSTANTS
    PageSize = 2
    LineSize = 3
    Counts = {0, 1, 2, 3}
    MaxCallsPB = 4
    ka = ka
    kb = kb
    kc = kc
    EmptyKey = empty
    Keys = {ka, kb, kc, empty}
    Hash <- MCHash
    Values = {"u", "v"}
    Slots = 2
    MaxCallsKV = 5
    PoolPage = 4
    Align = 2
    Bucket = 1
    SizeLimit = 16
    Requests = {0, 1, 2, 3, 5, 15}
    MaxCallsBP = 5
    Testers = {1, 2}
    Processes = {0, 1}
    Started <- MCStarted
    Loop = 2
    FileBytes = 2
    BlockMax = 2
    Modes = {"total", "partial", "random"}
    MaxMishaps = 1
INVARIANTS
    BytesInOrder
    KeysFound
    PiecesApart
    CountsOwnFailures
    OutcomesTrue
PROPERTIES
    TestEnds
CHECK_DEADLOCK FALSE
