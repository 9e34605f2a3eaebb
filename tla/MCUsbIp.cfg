SPECIFICATION FairSpec
CONSTANTS
    p0 = p0
    p1 = p1
    p2 = p2
    Packets <- MCPackets
    InitialPacket = p0
    USB_TXQ_CAP = 2
    USB_RXQ_CAP = 2
    Requests <- DefaultSize
    MaxResets = 2
INVARIANT TypeOK
PROPERTIES ImplementsChannel NothingLost LinkAnnounced ControlServed
