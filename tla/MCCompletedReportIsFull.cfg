SPECIFICATION SpecAnyPeer
CONSTANTS
    MaxDuration = 3
    BitrateLimit = 2
    U32Max = 255
    U64Max = 255
    Tests <- UploadOnly
    MaxStreams = 2
    Deadlines = TRUE
    Cancellable = TRUE
    PeerInFlight = {0}
INVARIANT CompletedReportIsFull
CHECK_DEADLOCK FALSE
