SPECIFICATION PsSpec
CONSTANTS
 PsMaxQty=4
 PsMaxOrders=2
 PsMaxPasses=2
 PsMaxOutside=1
 PsMaxFaults=1
 PsMaxEnds=1
CHECK_DEADLOCK FALSE
INVARIANTS PsFoundFillMovesPosition
