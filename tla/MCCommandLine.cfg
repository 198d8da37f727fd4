SPECIFICATION SpecLine
CONSTANTS
    Inputs <- MCInputs
    Mss <- MCMss
    Unsupported = {"sendmmsg"}
    Mantissa = 1024
    Spacings = {1, 2, 4, 8, 16, 32}
    MaxInputs = 4
    IntTop = 128
    LongTop = 2048
    Kibi = 4
    Kilo = 3
    MaxTime = 20
    MaxOmit = 6
    MaxPort = 60
    MaxParallel = 4
    MaxMss = 30
    MinTimeout = 5
    MaxTimeout = 50
    MinInterval = 1
    MaxInterval = 60
    MaxWindow = 90
    MaxBurst = 10
    MaxBlock = 100
    MinUdpBlock = 3
    MaxUdpBlock = 80
    MaxTos = 63
    MaxDscp = 15
    DefaultDuration = 10
    DefaultTcpBlock = 64
    DefaultUdpBlock = 12
    DefaultUdpRate = 7
    DefaultPacing = 9
INVARIANTS
    NoLateRejection
    BothEndsRunTheSameTest
    NumbersMeanWhatTheySay
CHECK_DEADLOCK FALSE
