SPECIFICATION Spec
CONSTANTS
    Base = 12
    BitPeriod = 3
    MaxNodes = 3
    Rates = {0, 4, 5, 6}
    Targets = {0, 1, 5, 6, 7, 12, 14}
INVARIANTS NothingOverdue ExactCounts
PROPERTIES EventsInOrder RunsEnd
