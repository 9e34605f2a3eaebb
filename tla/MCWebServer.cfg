SPECIFICATION FairSpec
CONSTANTS
    Requests <- Browser
    PageChunks = 3
    SOCK_RX_CAP = 4
    SOCK_TX_CAP = 2
    HEAP_CAP = 6
    SegmentEnds <- BodyWithEnd
    Conns = 2
    Patient = TRUE
INVARIANTS TypeOK ReplyIntact ColourShown NoPanic
PROPERTIES Answered ListensAgain
