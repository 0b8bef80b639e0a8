SPECIFICATION SafetySpec
CONSTANTS
    NodeCount = 3
    Cable <- OneLongCable
    StripTimeout = 30
    LossTimeout = 30
    Warm = TRUE
    Senders = {0, 1, 2}
    Dests = {1, 2}
    DataKinds = {TRUE}
    NctValues = {}
    Resettable = {}
    MaxRelays = 0
    MaxTorn = 2
INVARIANTS TokenConserved NoOrphans NoTimeouts DeliveredOnce AckTruth
