CONSTANTS
    a = a
    b = b
    NoHost = NoHost
    Hosts <- TwoHosts
    Shapes <- MixedTraffic
    MaxPackets = 4
    MaxTicks = 0
    MaxTime = 0
    Deviating <- Nobody
    ScanThreshold = 2
    ScanWindow = 2
    TransferThreshold = 3
    StoryCap = 2
    RecentCap = 2
    ThroughputCap = 1
    AnomaliesCap = 2
SPECIFICATION Spec
INVARIANTS
    RedactionComplete
