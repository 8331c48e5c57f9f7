SPECIFICATION PartsSpec
CONSTANTS
    Qty = 2
    Resyncers = {r1}
    Poll = poll
    Nobody = nobody
    MaxEntries = 2
    MayExpire = FALSE
    MayRestart = TRUE
    KsThreads = {t1, t2}
    KsMaxCalls = 3
    KsMaxFaults = 1
    KsMaxEnds = 2
    KsDays = 2
    UpGrace = 1
    UpNeeded = 3
    UpMaxTime = 4
    UpMaxRows = 2
    UpMaxBreaks = 2
    UpMaxFaults = 1
    PsMaxQty = 2
    PsMaxOrders = 2
    PsMaxPasses = 2
    PsMaxOutside = 1
    PsMaxFaults = 1
    PsMaxEnds = 1
    WdRuns = {"r1"}
    WdBare = "bare"
    WdOthers = {}
    WdHang = 1
    WdWarn = 0
    WdCritical = 1
    WdMaxRestarts = 1
    IdWorkers = {w1, w2}
    IdMaxOrders = 2
    FrThreads = {s1, s2}
    FrWarn = 0
    FrBarStale = 0
    FrDailyStale = 0
    FrFailLimit = 2
    FrBlockUnknown = TRUE
    FrMaxTime = 1
    EfSymbols = {a1, a2}
    EfManual = 2
    EfHeld = 2
    EfMaxOthers = 1
    BoOrders = {o1, o2}
    BoReal = TRUE
    BoMaxFaults = 1
    BoMaxBoots = 2
    PtOrders = {q1, q3}
    PtBad = {q3}
    PtLongest = 2
    PtThreshold = 2
    PtCool = 1
    PtMaxCool = 2
    PtTimeout = 2
    LfThreads = {k1, k2}
    LfFills = 2
    LfFaults = 1
    WsSockets = {k1, k2}
    WsLast = 2
    WsFaults = 1
    TdThreads = {k1, k2, k3}
    TdMayGiveUp = TRUE
CHECK_DEADLOCK FALSE
INVARIANTS EntryAccounts MonitorInv SyncInv GuardInv FlattenInv BootInv TickInv ServiceInv
PROPERTIES KsSafe PsFillsStand
