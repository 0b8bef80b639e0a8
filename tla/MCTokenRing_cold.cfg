SPECIFICATION LiveSpec
CONSTANTS
    NodeCount = 2
    Cable <- OneLongCable
    StripTimeout = 18
    LossTimeout = 18
    Warm = FALSE
    Senders = {0}
    Dests = {1}
    DataKinds = {TRUE}
    NctValues = {TRUE, FALSE}
    Resettable = {0, 1}
    MaxRelays = 4
    MaxTorn = 0
INVARIANT ClaimedHasOwner
PROPERTY CommandsFinish
