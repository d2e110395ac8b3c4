SPECIFICATION ServiceSpec
CONSTANTS
    t1 = t1
    t2 = t2
    verified = verified
    deprecated = deprecated
    None = None
    Texts <- TwoTexts
    Statuses <- TwoStatuses
    Dims <- TwoDims
    Shapes <- SomeShapes
    Opens <- MostlyOpen
    MaxPuts = 3
    MaxFaults = 2
    MaxCrashes = 1
    Unset = Unset
    Ids = {f1, f2}
    Verdicts = {"useful", "stale"}
    MaxFeedbackCrashes = 2
    r1 = r1
    r2 = r2
    p1 = p1
    Requests <- TwoRequests
    Packs <- OnePack
    Kinds <- AllKinds
    MaxCommit = 3
    MaxFetches = 4
    MaxRefreshCrashes = 2
    Absent = Absent
    NameWords <- MCNameWords
    PathRank <- MCPathRank
    Steers <- MCSteers
    SymbolNames <- MCSymbolNames
    MaxDocuments = 6
    MaxDocumentBytes = 10
    MaxRepositoryBytes = 37
    MaxResponseBytes = 50
    IdRank <- MCIdRank
    LanguageOf <- MCLanguageOf
    ToolBytes = 8
    Worlds <- MCWorlds
    CollectRequests <- MCRequests
    MaxTotalDocuments = 9
    MaxTotalBytes = 44
    MaxRuns = 2
    MaxSourceFaults = 1
    UnitOf <- MCUnitOf
    ClaimOf <- MCClaimOf
    Links <- MCLinks
    PackQueries <- MCPackQueries
    HitScores <- MCHitScores
    RecallFactor = 1
    RecallFloor = 2
    RelatedLimit = 2
    MaxPacksBuilt = 1
    MaxStoreWrites = 2
INVARIANTS
    ServiceTypeOK
    CommittedIsEmbedded
    IndexedOrDegraded
    AnsweredIsGoverned
    CurrentIsCompiled
    ReplacedEvidenceIsStale
    CollectionIsBoundedAndPinned
    PacksAreWarranted
PROPERTY HistoryPreserved
CHECK_DEADLOCK FALSE
