SPECIFICATION LocksSpec
CONSTANTS
    j1 = j1
    j2 = j2
    NULL = NULL
    JobIds = {j1, j2}
    WorkerNames = {"worker-0"}
    MaxAttempts = 2
    Lease = 0
    RetryDelays = {0}
    ClaimLimit = 2
    EventBound = 5
    s1 = s1
    s2 = s2
    Sessions = {s1, s2}
INVARIANTS
    FailureHasItsLetter
    ColumnsFollowStatus
    OutboxTracksTable
    OneClaimPerAttempt
    OnlyReapersDeadlock
PROPERTY
    ImplementsStore
SYMMETRY Symmetry
