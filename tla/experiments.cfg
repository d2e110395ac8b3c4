SPECIFICATION ExperimentsSpec
CONSTANTS
    Arms = {base, true, placebo}
    Baseline = base
    True = true
    Shapes <- MCShapes
    Taus = {100, 150}
    SigTenths = 16
    Tasks = {t1, t2}
    MaxScore = 1
    Long = TRUE
    Covered = {0, 2}
    MaxVersion = 2
    MaxAttempts = 2
    Programs <- MCPrograms
    Copies = {1, 2}
    MinTrajectories = 1
    MinCandidates = 2
    GradeA = 2
    MaxPrograms = 2
    MaxKills = 1
    Nothing = Nothing
    Rows <- MCRows
    LowerOf <- MCLowerOf
    DomainOf <- MCDomainOf
    Taxonomy <- MCTaxonomy
    FixPatterns <- MCFixPatterns
    Urdfs <- MCUrdfs
    TaskEvents <- MCTaskEvents
    KnownPatterns = {"old"}
    MinTraceCount = 3
    PromoteUplift = 2
    MaxRows = 3
    MaxTaskEvents = 3
    NoVector = NoVector
    Words <- MCWords
    Bundles <- MCBundles
    ClientWrites <- MCClientWrites
    StartingStores <- MCStartingStores
    Searches <- MCSearches
    MaxTransactions = 3
    MaxTransactionKills = 1
INVARIANTS
    ExperimentsTypeOK
    RankingIsFair
    UpliftIsOfReplies
    VerifiedIsWhole
    MinedEvidenceStands
    RobotFindingsHold
    StoresAgree
CHECK_DEADLOCK FALSE
