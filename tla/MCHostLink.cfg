SPECIFICATION FairSpec
CONSTANTS
    None = None
    SeqMod = 3
    InitTries = 2
    StopTries = 2
    JamTries = 1
    MaxFrames = 4
    MaxFaults = 1
    MaxAsync = 1
INVARIANTS TypeOK AnswerIsOwn QuietAfterStop
PROPERTIES EveryCallReturns
