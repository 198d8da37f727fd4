SPECIFICATION FairSpec
CONSTANTS
    MaxDuration = 0
    BitrateLimit = 2
    U32Max = 255
    U64Max = 255
    Tests <- RoundTests
    MaxStreams = 2
    Deadlines = TRUE
    Cancellable = TRUE
    ClientMayDie = TRUE
INVARIANTS
    FramingKept
    ClientCompletedTruly
    ServerCompletedTruly
    RelayNamesTheReason
PROPERTIES RoundEnds ClientInterruptEndsBoth
CHECK_DEADLOCK FALSE
