SPECIFICATION FairSpec
CONSTANTS
    m1 = m1
    m2 = m2
    m3 = m3
    Macs <- MCMacs
    FirstOptions <- Readable
    addrstart = 5
    Octet = 8
    OverflowChecks = TRUE
    UDP_RX_CAP = 1
    UDP_TX_CAP = 1
    Pipelining = FALSE
INVARIANTS TypeOK OneLeasePerMac StableLease LeaseCount UniqueLeases OnlyFullPanics
PROPERTY ImplementsService
CHECK_DEADLOCK FALSE
