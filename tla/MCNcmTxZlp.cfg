SPECIFICATION Spec
CONSTANTS
    EP_DATA_BUF_SIZE = 64
    TOTAL_HEADER_SIZE = 28
    ETH_TXQ_CAP = 1
    USB_TXQ_CAP = 8
    SEQ_MOD = 8
    FrameLens <- StackFrameLens
INVARIANT TransferDelimited
