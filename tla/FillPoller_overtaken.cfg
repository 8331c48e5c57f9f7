CONSTANTS
    Qty = 3
    Resyncers = {r1}
    Poll = poll
    Nobody = nobody
    MaxEntries = 1
    MayExpire = TRUE
    MayRestart = TRUE
SPECIFICATION Spec
PROPERTIES NeverCancelSettled
