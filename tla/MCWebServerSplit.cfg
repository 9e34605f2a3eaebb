SPECIFICATION Spec
CONSTANTS
    Requests <- Browser
    PageChunks = 3
    SOCK_RX_CAP = 4
    SOCK_TX_CAP = 2
    HEAP_CAP = 6
    SegmentEnds <- AfterLine
    Conns = 2
    Patient = TRUE
INVARIANT NoPanic
