CONSTANTS
    j1 = j1
    j2 = j2
    j3 = j3
    None = None
    Jobs <- TwoJobs
    MaxSources = 1
    MaxCrashes = 2
    MaxFaults = 2
    TornWrites = TRUE
SPECIFICATION FairSpec
CHECK_DEADLOCK FALSE
INVARIANTS
    TypeOK
    ScheduledOnce
    MergedAtMostOnce
    CompletedIsTrue
    FinishedLineIsLast
PROPERTY
    StatusOnlyAdvances
    WaitingJobsEnd
