SPECIFICATION FairSpec
CONSTANTS
    ack = ack
    packet = packet
    huge = huge
    None = None
    Frames <- MCFrames
    TooLong <- MCTooLong
    Depth = 3
    FlushLimit = 1
    ReadLimit = 2
    DropWrap = 4
INVARIANTS TypeOK EventsAgree
PROPERTIES ImplementsFifo KeepsDelivering
