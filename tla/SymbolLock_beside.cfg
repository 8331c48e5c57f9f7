CONSTANTS
    MaxOrders = 2
    MaxScans = 1
    Held = 2
    Lot = 1
SPECIFICATION Spec
CHECK_DEADLOCK FALSE
PROPERTIES SweepAlone
