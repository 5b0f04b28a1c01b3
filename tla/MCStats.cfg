CONSTANTS
    a = a
    b = b
    NoHost = NoHost
    Hosts <- TwoHosts
    Shapes <- AllTraffic
    MaxPackets = 3
    MaxTicks = 2
    MaxTime = 1
    Deviating <- JustA
    ScanThreshold = 2
    ScanWindow = 1
    TransferThreshold = 3
    StoryCap = 2
    RecentCap = 2
    ThroughputCap = 1
    AnomaliesCap = 2
SPECIFICATION Spec
INVARIANTS
    StoryIsWindow
    SnapshotIsPrefix
    SnapshotAlerts
    ThroughputExact
    ScanExact
    TransferOnce
