SPECIFICATION Spec
CONSTANTS
    Requesters = 1
    Byte = 2
    StallLimit = 6
    CycleTicks = 2
    TransferTicks = 2
    RefreshTicks = 2
    Block = 2
    Count <- CountTwo
    Autoinit = FALSE
    Stores <- BoardStores
INVARIANTS DriversOff LockHeld ServedSoon
PROPERTIES StopsAtCount
