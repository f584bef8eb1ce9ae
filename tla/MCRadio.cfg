SPECIFICATION Spec
CHECK_DEADLOCK FALSE
CONSTANTS
    Phys <- MCPhys
    Null = Null
INVARIANTS
    TypeOK
    SessionIsSetUp
    StuckOnlyBehindTone
PROPERTIES
    RxLostOnlyByTest
    JamKeepsItsSetup
