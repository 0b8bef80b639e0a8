SPECIFICATION MacSpec
CONSTANTS
    HeaderBytes = 4
    DataLengths = {0, 1}
    CheckBytes = 1
    DecideBytes = 2
    Bytes = {31, 248}
    Capacity = 4
INVARIANTS CapturedAsSent LateAckRight
