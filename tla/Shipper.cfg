SPECIFICATION FairSpec
CHECK_DEADLOCK FALSE
CONSTANTS
    p1 = p1
    p2 = p2
    EventIds = {1, 2, 3, 4}
    JobOf <- MCJobOf
    MonthOf <- MCMonthOf
    Procs = {p1, p2}
    BatchSize = 2
    FaultBound = 2
INVARIANTS
    ShippedIsStored
    ShippedHistoryIsWhole
    StoredHistoryIsPrefix
    DuplicatesAreRetries
PROPERTIES
    EventsGetShipped
