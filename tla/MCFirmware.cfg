SPECIFICATION FairSpec
CONSTANTS
    EP_DATA_BUF_SIZE = 8
    NTH_SIZE = 2
    NDP_SIZE = 2
    NCM_MAX_IN_SIZE = 16
    MTU = 12
    ETH_TXQ_CAP = 1
    ETH_RXQ_CAP = 1
    USB_TXQ_CAP = 2
    USB_RXQ_CAP = 2
    SEQ_MOD = 2
    FrameLens <- MCFrameLens
    HostBlocks <- MCHostBlocks
    Garbled = {}
    Ids = 2
    MaxTears = 1
    MaxResets = 1
INVARIANT RingsEmptyAtUsb
PROPERTIES DeliversToHost DeliversToStack NothingLost RefinesNcmTx RefinesNcmRx
