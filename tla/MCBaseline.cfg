CONSTANTS
    a = a
    b = b
    Hosts <- OneHost
    Metrics <- BothMetrics
    Samples <- MixedRates
    A = 1
    B = 5
    SigmaK = 2
    MinSigma <- OneEach
    MinSamples = 1
    EnoughSamples = 3
    WarmupSec = 1
    MaxSamples = 4
    MaxUp = 4
    MaxRuns = 2
    DiskFails = TRUE
SPECIFICATION Spec
INVARIANTS
    LastingRateFlaggedOnce
PROPERTIES
    LoadedWasSaved
CHECK_DEADLOCK FALSE
