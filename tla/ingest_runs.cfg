SPECIFICATION AssetsSpec
CONSTANTS
    p1 = p1
    p2 = p2
    n1 = n1
    n2 = n2
    n3 = n3
    Pages <- MCPages
    Nodes <- MCNodes
    Home <- MCHome
    Curated <- MCCurated
    Thin <- MCThin
    Flaky <- MCFlaky
    MaxVersion = 2
    MaxRuns = 3
    MaxCrashes = 2
    Ids = {m1}
    Evidence <- MCEvidence
    MaxWrites = 7
    Deltas <- MCDeltas
    MinSamples = 2
    Promote = 3
    MaxTraces = 3
    MaxKills = 1
    Uplifts = {0, 1, 3, 5}
    Absent = Absent
    Window = 3
    MinPoints = 3
    MaxSecond = 4
    MaxReports = 4
    SnakeOf <- MCSnakeOf
    MinCards = 3
    PatternFamilies <- MCFamilies
    WordsIn <- MCTexts
    IdsIn <- MCIdsIn
    Domains <- MCDomains
    FamilyOf <- MCFamilyOf
    WiderFamilies <- MCWider
    FailureOfKind <- MCFailureOfKind
    EmbodimentsOf <- MCEmbodimentsOf
    FamilyHints <- MCHints
    AssetFiles <- MCAssetFiles
    MaxBuilds = 2
    MaxBuildKills = 1
    Queries <- MCQueries
    HintOfFamily <- MCHintOfFamily
    SizeOf <- MCSizeOf
    LeadOf <- MCLeadOf
    SampleWeight <- MCSampleWeight
    MaxStarts = 1
INVARIANTS
    AssetsTypeOK
    ManifestTellsTruth
    ExtractedIsStored
    BridgeIsCurrent
    EvidenceIsSound
    TrendFollowsSeries
    PacksStandOnTheGraph
PROPERTY KeptByFreshWriters
CHECK_DEADLOCK FALSE
