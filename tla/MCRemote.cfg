CONSTANTS
    v1 = v1
    v2 = v2
    Viewers <- TwoViewers
    Unencodable = {2}
    MaxSnapshots = 3
    MaxConns = 3
    MaxWire = 1
SPECIFICATION FairSpec
PROPERTIES
    ViewerNeverGoesBack
    ViewerCatchesUp
    ShutdownReturns
CHECK_DEADLOCK FALSE
