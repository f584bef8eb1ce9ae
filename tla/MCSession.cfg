SPECIFICATION MonitorSpec
CONSTANTS
    Commands <- MCCommands
    JamMax = 2
    JamCooldown = 2
    TxMaxLen = 1
    None = None
INVARIANTS
    TypeOK
    SessionsExclusive
    JobsHaveTheirFlag
    JamAgreement
    RadioExclusive
    SettledBetweenPolls
    OneAnswerEach
    BurstAccounted
PROPERTIES
    PacketsOnlyWhileEnabled
    JamBounded
    CooldownAfterJamStop
