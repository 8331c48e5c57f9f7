CONSTANTS
    MaxOrders = 2
    MaxScans = 2
    Held = 2
    Lot = 1
SPECIFICATION FairSpec
CHECK_DEADLOCK FALSE
INVARIANTS TypeOK OneLiveOrder
PROPERTIES SweepNotTwice LockReleased
