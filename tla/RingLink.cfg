SPECIFICATION FairSpec
CONSTANTS
    Ends = {a, b}
    Bits = 2
    Room = 3
    Drivable = {1, 3}
    Foreign = {7}
    MaxBatches = 2
PROPERTIES LinkIsACable ExchangeEnds
CHECK_DEADLOCK FALSE
