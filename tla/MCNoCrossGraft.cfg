SPECIFICATION Spec
CONSTANTS
    Tests <- MCTests
    MaxStreams = 1
    MaxBatch = 1
    MaxBlocks = 1
    Capable = {"client"}
INVARIANT NoCrossGraft
CHECK_DEADLOCK FALSE
