SPECIFICATION FairSpecAnyServer
CONSTANTS
    MaxDuration = 0
    BitrateLimit = 0
    U32Max = 255
    U64Max = 255
    Tests <- AnyServerTests
    MaxStreams = 2
    Deadlines = TRUE
    ClientMayDie = TRUE
    ServerInFlight = {0}
    Numbers = {"E27"}
INVARIANTS
    OneDocument
PROPERTY GraceBeforeAbort
PROPERTIES TeardownEnds DroppedRunReapsTasks InterruptEndsRun
CHECK_DEADLOCK FALSE
