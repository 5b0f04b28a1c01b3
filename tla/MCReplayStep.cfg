CONSTANTS
    Times <- TwoPackets
    BufSize = 1
    StepSeconds = 5
    MaxKeys = 1
    Headless = FALSE
    DiskFails = FALSE
SPECIFICATION Spec
INVARIANTS
    StepAlwaysWorks
