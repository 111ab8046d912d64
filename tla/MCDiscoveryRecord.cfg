SPECIFICATION Spec
CONSTANTS
    Actions <- ClickActions
    Kind <- ClickKind
    Verdict <- ClickVerdict
    To <- ClickTo
    Output <- NoOutput
    Adds <- NoOutput
    Appends <- Nothing
    Visual <- Nothing
    Screens <- Sites
    Url <- SiteUrl
    Page <- SitePage
    Modal <- WithDialog
    Outputs <- OneValue
    IsList <- PriceIsList
    MaxItems <- PriceMax
    MinItems <- PriceMin
    EntryScreen = "home"
    MAX_STEPS = 3
    MaxVision = 2
    MaxRestarts = 0
    Attendance = {TRUE}
    VisionOn = FALSE
    ActsInConfirm = FALSE
    ConfirmAnswers = {"approve", "deny", "resume"}
    Fleeting = FALSE
    MaxHandoffs = 2
    MaxHuman = 1
INVARIANTS TypeOK EffectsAccounted RecordingConnected
PROPERTIES NoBlindRepeat
