SPECIFICATION Spec
CONSTANTS
    Files <- AllFiles
    Names <- AllNames
    Labels <- AllLabels
    NameKey <- NameKeys
    Summaries <- Totals
    Requests <- AllRequests
    DefaultLimits <- Standard
    MaxTypes = 2
    ScanLimit = 5
    MaxSize = 6
    None = "none"
    HeaderRows = 3
    MaxRows = 4
    MaxSheets = 3
    HighPrice = 900000
    HighTotal = 900000
INVARIANTS
    ItemsAreTheRows
    DuplicatesExplained
    ReadyReconciles
    DeltaExplained
    InspectedFirst
    NothingLeftBehind
CHECK_DEADLOCK FALSE
