SPECIFICATION FairSpec
CONSTANTS
    j1 = j1
    c1 = c1
    c2 = c2
    NULL = NULL
    JobIds = {j1}
    Callers = {c1, c2}
    MaxAttempts = 2
    FaultBound = 1
INVARIANTS
    TypeOK
    StreamEndsWithOutcome
    UpdatesInOrder
PROPERTIES
    StreamsEnd
    DrainEnds
CHECK_DEADLOCK FALSE
