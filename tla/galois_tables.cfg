\* Every word size up to 6 bits; any allocation may fail, and is tried again.
\* Split tables for bytes of 1 and 2 bits, in words of 4 bytes.
SPECIFICATION GSpec
CONSTANTS
    Widths <- SmallWidths
    NULL = NULL
    FREED = FREED
INVARIANTS TablesAreFull WideWords
CHECK_DEADLOCK FALSE
