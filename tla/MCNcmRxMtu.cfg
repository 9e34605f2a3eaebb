SPECIFICATION Spec
CONSTANTS
    EP_DATA_BUF_SIZE = 8
    NTH_SIZE = 2
    NDP_SIZE = 2
    NCM_MAX_IN_SIZE = 24
    MTU = 12
    ETH_RXQ_CAP = 1
    HostBlocks <- LongFrame
    Garbled <- Misread
    Ids = 2
    MaxTears = 0
INVARIANT NoPanic
