CONSTANTS
    Qty = 3
    MaxCrashes = 1
    MaxPasses = 1
    MaxFaults = 1
    MayExpire = TRUE
    MayUnknown = TRUE
    KcThreads = {k1, k2}
    KcTries = 2
    KcMaxPages = 2
    KcThreshold = 2
    ShThreads = {k1, k2}
    TkMax = 2
    FxRetry = 1
    FxTtl = 2
    FxSizing = 3
    ClOthers = {k1}
    ClLast = 1
    ClMayBefore = TRUE
    ClMayAfter = TRUE
    OrCount = 2
    OrSymbols = {k1, k2}
    OrQty = 2
    OrMishaps = 1
    PbMax = 2
    PbQty = 2
    PbScripts = 2
    PbJumps = 1
    SoOpens = 2
    SoWindow = 2
    SoDay = 3
    SoEnd = 8
    SoLimit = 1
    SoMishaps = 2
    LwDays = 3
    LwWeek = 2
    LwDayLimit = 2
    LwWeekLimit = 3
    LwStep = 1
    LwFills = 3
    LwReleases = 1
    LwMishaps = 2
    QcClicks = {k1, k2}
    QcHeld = 2
    QcNames = {"key"}
    QcPrices = 2
    QcBuckets = 2
    QcLost = 1
SPECIFICATION RecordSpec
CHECK_DEADLOCK FALSE
INVARIANTS TypeOK FillsOnFile FillsWithinBroker AccountsAgree RowsInv BrokerInv MarketInv LossInv
PROPERTIES ClosedStaysClosed
