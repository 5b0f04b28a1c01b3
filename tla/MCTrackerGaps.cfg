CONSTANTS
    p1 = p1
    p2 = p2
    firefox = firefox
    sshd = sshd
    NoPid = NoPid
    NoPort = NoPort
    IdlePid = IdlePid
    Protos <- ThreeProtos
    Ports <- TwoPorts
    Pids <- TwoPids
    Platforms <- ThreePlatforms
    Unreadable <- Nobody
    MaxSockets = 2
    MaxTime = 2
SPECIFICATION TrackerSpec
INVARIANTS
    EntriesAreLocal
    ResolvesLocalPort
    MatrixIsActive
CHECK_DEADLOCK FALSE
