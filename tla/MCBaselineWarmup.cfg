CONSTANTS
    a = a
    b = b
    Hosts <- OneHost
    Metrics <- BothMetrics
    Samples <- MixedRates
    A = 1
    B = 5
    SigmaK = 2
    MinSigma <- OneEach
    MinSamples = 1
    EnoughSamples = 2
    WarmupSec = 4
    MaxSamples = 4
    MaxUp = 4
    MaxRuns = 2
    DiskFails = FALSE
SPECIFICATION Spec
INVARIANTS
    WarmupHolds
CHECK_DEADLOCK FALSE
