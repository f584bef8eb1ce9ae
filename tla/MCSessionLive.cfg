SPECIFICATION FairSpec
CONSTANTS
    Commands <- LiveCommands
    JamMax = 2
    JamCooldown = 1
    TxMaxLen = 1
    None = None
PROPERTIES
    CommandAnswered
    JamEnds
    BurstEnds
    StreamKeepsSending
