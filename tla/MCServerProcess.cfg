SPECIFICATION Spec
CONSTANTS
    p1 = p1
    p2 = p2
    Procs <- MCProcs
    OneOffs <- MCOneOffs
    IdleTimeouts <- MCIdleTimeouts
    MaxRounds = 3
    MaxSignals = 2
    MaxKills = 2
INVARIANTS
    PidfileNamesLive
PROPERTIES
    SignalEndsProcess
    ImplementsServerLife
