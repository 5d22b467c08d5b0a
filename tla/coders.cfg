SPECIFICATION CodersSpec
CONSTANTS
    Names = {x, y}
    Versions = {"a", "b"}
    SizeOf <- MCSize
    LongSize = 1
    FieldSizes = {1, 2}
    Calls <- MCCalls
    MaxRuns = 2
    MaxKills = 1
    MaxLosses = 2
    Programs = {"whole-file", "cauchy", "ten", "incr"}
    K = 2
    M = 2
    IntSize = 1
    W = 2
    PacketSize = 1
    RunSizes = {5}
    BufferSizes = {0, 3}
    Techniques = {"cauchy_good", "cauchy_orig", "no_coding"}
    Coefficient <- MCCoefficient
    NulAt = {1}
    LiteralSize = 2
    DecoderBlock = 2
    RenameSize = 2
    MaxCalls <- MCMaxCalls
    MaxKilled = 1
    MaxLostRows = 1
SYMMETRY MCSymmetry
INVARIANTS
    CompletedRunStands
    DecodedIsOriginal
    ParityTracksData
    FirstBlockRecovered
CHECK_DEADLOCK FALSE
