SPECIFICATION Spec
CONSTANTS
    BatchSize = 2
    MaxGro = 2
    SeqModulus = 4
    MaxSent = 4
    MaxLate = 1
INVARIANTS NumberingDense LossExact NetLossWithinPackets
PROPERTY DoneEndsThreads
CHECK_DEADLOCK FALSE
