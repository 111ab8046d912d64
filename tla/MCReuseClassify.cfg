SPECIFICATION Spec
CONSTANTS
    Sources <- Files
    Segments = {"pick", "price"}
    SourceOf <- SourceOfEach
    Kind <- KindOfEach
    Checkpointed <- Proven
    OutputOf <- PriceOutput
    AppliesOn <- AppliesOnEach
    LeadsTo <- LeadsToEach
    Screens <- Site
    ScreenKey <- SiteKey
    Prefix = {}
    PrefixLeadsTo <- InsideOnly
    EntryScreen = "entry"
    Outcomes = {}
    MaxReuses = 2
    MaxTurns = 2
    Attendance = {FALSE}
    PageDrifts = FALSE
    ScanEdits = {}
    MaxEdits = 0
INVARIANTS CompletedIsVerified
