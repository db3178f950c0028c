SPECIFICATION FairSpec
CONSTANTS
    s1 = s1
    s2 = s2
    s3 = s3
    s4 = s4
    WorkerIds = {"worker-0"}
    Scrapes = {s1, s2, s3, s4}
CHECK_DEADLOCK FALSE
INVARIANTS
    TypeOK
    JobsInHandHaveAPool
    OnlyScrapesCauseWaits
PROPERTIES
    WorkersGetToWork
    ReportsGetThrough
    ShutdownEnds
