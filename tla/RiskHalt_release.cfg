CONSTANTS
    Fillers = {f1}
    Poll = poll
    Equity = 10
    LimitPct = 10
    StepPct = 5
    MddPct = 15
    MaxDown = 3
    MaxDays = 2
    MaxReleases = 1
    MaxEvents = 1
    LateMayFail = FALSE
    BootRelease = FALSE
SPECIFICATION FairSpec

CHECK_DEADLOCK FALSE
INVARIANTS GateInv
PROPERTIES OnlyReleased NoSecondFlatten ReopenUnbreached ReleaseResumes

