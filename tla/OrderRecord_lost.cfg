CONSTANTS
    Qty = 2
    MaxCrashes = 1
    MaxPasses = 0
    MaxFaults = 0
    MayExpire = TRUE
    MayUnknown = TRUE
SPECIFICATION Spec
CHECK_DEADLOCK FALSE
INVARIANTS FilledRowIsFiled
