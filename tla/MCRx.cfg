SPECIFICATION FairSpec
CONSTANTS
    None = None
    Entries = 3
    QueueDepth = 2
    MaxPkts = 1
    SeqReserved = 2
    MaxAir = 4
    MaxTunes = 2
INVARIANTS TypeOK InOrder Accounted DeadOnlyByRace
PROPERTIES Drains
