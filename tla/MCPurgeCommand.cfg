SPECIFICATION PurgeCommandSpec
CONSTANTS
    app = app
    cache = cache
    catalog = catalog
    tool = tool
    any = any
    Names <- SortedNames
    Sentinel <- CatalogName
    Anything <- AnyName
    Commands <- AllCommands
    PageSize = 2
    BatchSize = 2
    MaxItems = 2
    MaxChanges = 1
    Faults = TRUE
    Width = 8
    Day = 5
    MaxDays = 13
    TooLarge = TooLarge
    NoNumber = NoNumber
    Invalid = Invalid
    BadUnit = BadUnit
\* The command ends.
CHECK_DEADLOCK FALSE
INVARIANTS
    ReadAsIntended
    SuccessIsComplete
    OnlySelectedAreTouched
    TokenCoversRepo
    ReportIsComplete
    CountsCoverCompleted
PROPERTIES
    PurgeReturns
