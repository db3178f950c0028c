SPECIFICATION EffectsSpec
CONSTANTS
    j1 = j1
    j2 = j2
    p1 = p1
    p2 = p2
    w0 = w0
    w1 = w1
    NULL = NULL
    JobIds = {j1, j2}
    Procs = {p1, p2}
    WorkerNames = {w0, w1}
    MaxAttempts = 2
    Lease = 1
    RetryDelays = {0, 1}
    ClaimLimit = 1
    HandlersMeetLease = TRUE
    AttemptBound = 9
    FaultBound = 2
    Milliseconds = {1, 2}
SYMMETRY Symmetry
INVARIANTS
    EffectsTypeOK
    CompletedFileIsWhole
    CountersFollowEvents
    ExclusiveOwnership
    AttemptsWithinMax
    BacklogIsUnsettled
PROPERTIES
    TerminalIsFinal
    OutcomeCarriesItsAttempt
    ImplementsLifecycle
