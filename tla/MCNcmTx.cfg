SPECIFICATION FairSpec
CONSTANTS
    EP_DATA_BUF_SIZE = 64
    TOTAL_HEADER_SIZE = 28
    ETH_TXQ_CAP = 1
    USB_TXQ_CAP = 4
    SEQ_MOD = 4
    FrameLens <- MCFrameLens
INVARIANTS TypeOK PacketStream NoPanic AgreedDelimited
PROPERTY ImplementsChannel
