SPECIFICATION FairSpec
CHECK_DEADLOCK FALSE
CONSTANTS
    p1 = p1
    p2 = p2
    EventIds = {1, 2, 3}
    JobOf <- MCJobOf
    MonthOf <- MCMonthOf
    Procs = {p1, p2}
    BatchSize = 2
    FaultBound = 1
PROPERTIES
    ShippingResumes
