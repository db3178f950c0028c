SPECIFICATION Spec
CONSTANTS
    j1 = j1
    j2 = j2
    p1 = p1
    p2 = p2
    NULL = NULL
    JobIds = {j1, j2}
    Procs = {p1, p2}
    WorkerNames = {"worker-0"}
    MaxAttempts = 2
    Lease = 0
    RetryDelays = {0, 1}
    ClaimLimit = 1
    HandlersMeetLease = FALSE
    AttemptBound = 3
    FaultBound = 2
    Milliseconds = {1, 2}
SYMMETRY Symmetry
INVARIANTS
    NoAttemptRunsTwice
    FailedOnlyWhenSpent
    CompletedOnlyIfExecuted
