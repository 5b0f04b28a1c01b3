CONSTANTS
    Times <- TwoPackets
    BufSize = 1
    StepSeconds = 5
    MaxKeys = 0
    Headless = TRUE
    DiskFails = FALSE
SPECIFICATION FairSpec
PROPERTIES
    ChannelClosesAtTheEnd
