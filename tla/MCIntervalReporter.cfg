SPECIFICATION Spec
CONSTANTS
    K = 2
    Block = 2
    Target = 3
    MaxBytes = 2
INVARIANTS NoByteUnaccounted LimitMeansTarget
PROPERTIES LimitEnds ReporterEnds
CHECK_DEADLOCK FALSE
