CONSTANTS
    a = a
    b = b
    Hosts <- OneHost
    Metrics <- BothMetrics
    Samples <- SteadyAndBurst
    A = 1
    B = 5
    SigmaK = 2
    MinSigma <- OneEach
    MinSamples = 1
    EnoughSamples = 2
    WarmupSec = 2
    MaxSamples = 4
    MaxUp = 4
    MaxRuns = 1
    DiskFails = FALSE
SPECIFICATION Spec
PROPERTIES
    BurstIsFlagged
CHECK_DEADLOCK FALSE
