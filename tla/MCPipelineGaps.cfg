CONSTANTS
    w1 = w1
    w2 = w2
    MaxPackets = 2
    BufSize = 1
    Workers <- TwoWorkers
    Recording = FALSE
    DiskFails = FALSE
    Headless = TRUE
    Exporting = TRUE
SYMMETRY WorkerSymmetry
SPECIFICATION Spec
INVARIANTS
    CaptureOrder
    ReportComplete
