CONSTANTS
    p1 = p1
    p2 = p2
    firefox = firefox
    sshd = sshd
    NoPid = NoPid
    NoPort = NoPort
    IdlePid = IdlePid
    Protos <- ThreeProtos
    Ports <- TwoPorts
    Pids <- TwoPids
    Platforms <- ThreePlatforms
    Unreadable <- OnePid
    MaxSockets = 2
    MaxTime = 3
SYMMETRY PortSymmetry
SPECIFICATION TrackerSpec
INVARIANTS
    NeverInvented
    RefreshFindsOwners
CHECK_DEADLOCK FALSE
