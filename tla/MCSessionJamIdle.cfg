SPECIFICATION MonitorSpec
CONSTANTS
    Commands <- MCCommands
    JamMax = 2
    JamCooldown = 2
    TxMaxLen = 1
    None = None
PROPERTIES
    IdleBetweenJamSessions
