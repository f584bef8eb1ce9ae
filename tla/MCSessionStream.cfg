SPECIFICATION FairSpec
CONSTANTS
    Commands <- LiveCommands
    JamMax = 2
    JamCooldown = 2
    TxMaxLen = 1
    None = None
PROPERTIES
    StreamUntilStop
