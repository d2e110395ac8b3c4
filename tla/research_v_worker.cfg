CONSTANTS
    j1 = j1
    j2 = j2
    j3 = j3
    None = None
    Jobs <- TwoJobs
    MaxSources = 1
    MaxCrashes = 0
    MaxFaults = 2
    TornWrites = FALSE
SPECIFICATION Spec
CHECK_DEADLOCK FALSE
INVARIANT
    WorkerSurvives
