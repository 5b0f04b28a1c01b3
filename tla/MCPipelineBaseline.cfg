CONSTANTS
    w1 = w1
    w2 = w2
    MaxPackets = 1
    BufSize = 1
    Workers <- OneWorker
    Recording = FALSE
    DiskFails = FALSE
    Headless = FALSE
    Exporting = FALSE
SPECIFICATION Spec
INVARIANTS
    BaselineSavedOnShutdown
