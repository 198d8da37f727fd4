SPECIFICATION FairSpecAnyPeer
CONSTANTS
    MaxDuration = 2
    BitrateLimit = 2
    U32Max = 3
    U64Max = 3
    Tests <- AnyPeerTests
    MaxStreams = 2
    Deadlines = TRUE
    Cancellable = TRUE
    PeerInFlight = {0}
INVARIANTS
    DocMatchesTermination
    AtMostOneDocument
    LimitsRespected
PROPERTIES GateOpens CancelReapsTasks InterruptEndsRound
CHECK_DEADLOCK FALSE
