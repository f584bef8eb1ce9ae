SPECIFICATION Spec
CONSTANTS
    None = None
    NoPacket = NoPacket
    FullCode = 4
    BufLen = 10
    Budget = 5
    MaxSent = 2
    MaxFaults = 1
    Frames <- MCFrames
    Answers <- MCAnswers
    Noise <- MCNoise
    BleHeaders <- MCBleHeaders
    BleLens <- MCBleLens
    BleChannels <- MCBleChannels
    IeeeLens <- MCIeeeLens
    PropLens <- MCPropLens
    Channels <- MCChannels
INVARIANT BleReadAsSent
CHECK_DEADLOCK FALSE
