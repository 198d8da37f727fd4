SPECIFICATION Spec
CONSTANTS
    Tests <- MCTests
    MaxStreams = 2
    MaxBatch = 2
    MaxBlocks = 1
    Capable = {"client"}
INVARIANTS CompletedFiguresMeasured TerminatedShowsOwn
           TextAgreesWithDocument ServerDocumentKeepsItsWord LossWithinBatch
CHECK_DEADLOCK FALSE
