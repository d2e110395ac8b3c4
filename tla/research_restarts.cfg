CONSTANTS
    j1 = j1
    j2 = j2
    j3 = j3
    None = None
    Jobs <- ThreeJobs
    MaxSources = 1
    MaxCrashes = 2
    MaxFaults = 0
    TornWrites = FALSE
SPECIFICATION Spec
CHECK_DEADLOCK FALSE

INVARIANT
    AnswersAreDurable
PROPERTY
    ImplementsService
