SPECIFICATION Spec
CONSTANTS
    Requests <- PagesOnly
    PageChunks = 3
    SOCK_RX_CAP = 4
    SOCK_TX_CAP = 2
    HEAP_CAP = 6
    SegmentEnds <- BodyWithEnd
    Conns = 2
    Patient = FALSE
INVARIANT OwnReplies
