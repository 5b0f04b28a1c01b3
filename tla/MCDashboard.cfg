CONSTANTS
    a = a
    b = b
    web = web
    dns = dns
    NoHost = NoHost
    BadFilter = BadFilter
    Blank = Blank
    Spaces = Spaces
    Rankings <- OvertakingHosts
    Filters <- OneFilter
    MaxAsks = 2
    MaxPublished = 1
SPECIFICATION FairSpec
INVARIANTS
    TypeOK
    ShownFilterIsInstalled
PROPERTIES
    DashboardStops
    QuestionAnswered
CHECK_DEADLOCK FALSE
