SPECIFICATION Spec
CONSTANTS
    p0 = p0
    p1 = p1
    p2 = p2
    Packets <- MCPackets
    InitialPacket = p0
    USB_TXQ_CAP = 2
    USB_RXQ_CAP = 2
    Requests <- SetsSize
    MaxResets = 0
INVARIANT NoPanic
