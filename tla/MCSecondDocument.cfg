SPECIFICATION SpecAnyServer
CONSTANTS
    MaxDuration = 0
    BitrateLimit = 0
    U32Max = 255
    U64Max = 255
    Tests <- AnyServerTests
    MaxStreams = 2
    Deadlines = TRUE
    ClientMayDie = TRUE
    ServerInFlight = {0}
    Numbers = {"E27"}
INVARIANT ExactlyOneDocument
CHECK_DEADLOCK FALSE
