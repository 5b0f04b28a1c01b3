CONSTANTS
    Times <- FourPackets
    BufSize = 1
    StepSeconds = 5
    MaxKeys = 2
    Headless = FALSE
    DiskFails = TRUE
SPECIFICATION FairSpec
INVARIANTS
    TypeOK
    PauseHolds
    SeekHolds
    PlayedIsCounted
PROPERTIES
    ShutdownTerminates
    PlaysToTheEnd
