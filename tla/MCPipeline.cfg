CONSTANTS
    w1 = w1
    w2 = w2
    MaxPackets = 3
    BufSize = 2
    Workers <- TwoWorkers
    Recording = TRUE
    DiskFails = FALSE
    Headless = FALSE
    Exporting = TRUE
SPECIFICATION FairSpec
INVARIANTS
    TypeOK
    ExactlyOnce
    LostOnlyByShutdown
    NoSendOnClosed
    CompleteAtEnd
    HonestSnapshot
    OvertakenAreHeld
    FaithfulRecording
PROPERTIES
    ImplementsLedger
    ShutdownTerminates
    EveryPacketSettles
    SnapshotCatchesUp
