SPECIFICATION FairSpec
CONSTANTS
    Sources <- Files
    Segments = {"send","enter","price"}
    SourceOf <- SourceOfEach
    Kind <- KindOfEach
    Checkpointed <- Proven
    OutputOf <- PriceOutput
    AppliesOn <- AppliesOnEach
    LeadsTo <- LeadsToEach
    Screens <- Site
    ScreenKey <- SiteKey
    Prefix <- LoginPrefix
    PrefixLeadsTo <- InsideOnly
    EntryScreen = "entry"
    Outcomes = {"declared", "foreign"}
    MaxReuses = 2
    MaxTurns = 2
    Attendance = {TRUE, FALSE}
    PageDrifts = TRUE
    ScanEdits = {"broken"}
    MaxEdits = 1
INVARIANTS SessionsClosed ReusesBounded KnownState
PROPERTIES UnsureNeverRuns RunsWhatIsOnDisk DiscoveryEnds
