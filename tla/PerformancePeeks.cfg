CONSTANTS
    Computed = {"evidence"}
    \* Files of up to two rows, quantities 0 and 1, two dates; every such ledger.
    NoId = "no_id"
    MaxRows = 2
    MaxQty = 1
    MaxDate = 2
    \* Up to four lots and two sales; a loss is spoiled within a day, long-term after three.
    MaxLots = 4
    MaxSales = 2
    Window = 1
    Year = 3
    Stcg = 3
    Ltcg = 2
    Niit = 1
    MaxTrades = 1
    NoGroup = NoGroup
    Unpriced = Unpriced
    Refused = Refused
    \* Three days of evidence in two years.
    YearDays = 2
    PurgeDays = 1
    KnownSignals = {"fx", "rates"}
    Unmarked = Unmarked
    Raised = Raised
    \* Three sleeves in thirds of the book; two requests of three are shown.
    One = 216
    NoBudget = NoBudget
    Infeasible = Infeasible
    Expected <- ExpectedReturn
    Concentrated = {"stock"}
    Reserve = {"reserve"}
    KillLoss = 50
    ConcentratedLoss = 10
    ResidualCap = 50
    KillTier = 4
    NpaLoss = 10
    SustainedDays = 2
    StaleDays = 1
    LiquidTier = 2
    NoLimit = NoLimit
    NotAttributed = NotAttributed
    DriftAlert = 36
    DriftWarn = 18
    BindingWarn = 1
    MaxRecords = 3
    Shown = 2
    MaxRequests = 5
    NoPolicy = NoPolicy
    Failed = Failed
    \* Portfolios of four parts; a duration is medium from three years to seven.
    Vol <- VolOf
    Rho <- RhoOf
    PlainVol = 3
    FermiVol = 4
    Shocks <- ShocksOf
    Short = 3
    Long = 7
    DaysOfTier <- DaysOf
    TickerClass <- ClassOf
    NoDuration = NoDuration
    NoOverlay = NoOverlay
    NoPack = NoPack
    NoMark = NoMark
    NotUtf8 = NotUtf8
    NotJson = NotJson
    NotObject = NotObject
    Missing = Missing
    Bad = Bad
    Lost = Lost
    \* Months of two days, years of three months; two of three requests are looked at.
    MonthDays = 2
    YearMonths = 3
    Newest = 2
    NotGiven = NotGiven
    NoComparison = NoComparison
    Uncollected = Uncollected
    \* Logs of three entries, of which two are shown.
    MaxLog = 3
    Recent = 2
    NotYet = NotYet
SPECIFICATION Spec
INVARIANT ReportIsBlind
\* One input is computed once.
CHECK_DEADLOCK FALSE
