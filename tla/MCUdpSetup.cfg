SPECIFICATION Spec
CONSTANTS
    N = 2
    MaxTries = 4
    MaxLost = 1
    MaxDup = 1
    MaxStray = 1
INVARIANTS Pairing ServerAheadByOne RetryCovers
PROPERTY SetupEnds
CHECK_DEADLOCK FALSE
