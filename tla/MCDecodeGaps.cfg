CONSTANTS
    a = a
    b = b
    bad1 = bad1
    bad2 = bad2
    bad3 = bad3
    bad4 = bad4
    None = None
    NoHost = NoHost
    Packets <- Traffic
    DefaultFeed <- BuiltIn
    CustomFeeds <- Feeds
    Broken = Broken
    NoBlock = NoBlock
    Text <- TextOf
    Parsed <- ParsedOf
    Trimmed <- TrimmedOf
    Lower <- LowerOf
    MalwareTools <- Tools
    NamedMalware <- Named
    MaxCount = 2
SPECIFICATION Spec
CHECK_DEADLOCK FALSE
INVARIANTS
    MalwareRaisesAlert
    GREASEIsExact
    CountedPortsAreReal
    NeverPanics
    JA4IsCanonical
    TestedHelloHasPrint
    EverySpellingRaisesAlert
