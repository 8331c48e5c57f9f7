SPECIFICATION FairSpec
CONSTANTS
    Requests = {r1, r2}
    Chosen = {e1}
    Shapes = {s1}
    Buckets = {b1}
    None = None
    Limit = 1
    MaxForeign = 1
    MaxFaults = 1
    MaxCrashes = 1
    Overstays = FALSE
CHECK_DEADLOCK FALSE
INVARIANTS TradeInv ReplayAnswered
PROPERTIES FollowsTable SettledOrRaised
