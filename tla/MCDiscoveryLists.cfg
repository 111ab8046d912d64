SPECIFICATION FairSpec
CONSTANTS
    Actions <- ListActions
    Kind <- ListKind
    Verdict <- ListVerdict
    To <- ListTo
    Output <- ListOutput
    Adds <- ListAdds
    Appends <- ListAppends
    Visual <- ListVisual
    Screens <- Pages
    Url <- SiteUrl
    Page <- SitePage
    Modal <- Nothing
    Outputs <- Lists
    IsList <- BothLists
    MaxItems <- ListMax
    MinItems <- ListMax
    EntryScreen = "home"
    MAX_STEPS = 3
    MaxVision = 2
    MaxRestarts = 1
    Attendance = {TRUE, FALSE}
    VisionOn = TRUE
    ActsInConfirm = FALSE
    ConfirmAnswers = {"approve", "deny", "resume"}
    Fleeting = FALSE
    MaxHandoffs = 2
    MaxHuman = 1
INVARIANTS OutputsBacked OrderFixedFirst
PROPERTIES VisionStops UnattendedEnds
