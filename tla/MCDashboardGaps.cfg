CONSTANTS
    a = a
    b = b
    web = web
    dns = dns
    NoHost = NoHost
    BadFilter = BadFilter
    Blank = Blank
    Spaces = Spaces
    Rankings <- OvertakingHosts
    Filters <- TwoFilters
    MaxAsks = 1
    MaxPublished = 2
SPECIFICATION FairSpec
INVARIANTS
    ShownMeansInstalled
    EnteredFilterApplies
    StoryIsOfSelected
    PromptIsAboutOneHost
PROPERTIES
    CancellationEndsDashboard
CHECK_DEADLOCK FALSE
