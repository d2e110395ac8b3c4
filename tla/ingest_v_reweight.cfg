SPECIFICATION Spec
CONSTANTS
    p1 = p1
    p2 = p2
    n1 = n1
    n2 = n2
    n3 = n3
    Pages <- MCPages
    Nodes <- MCNodes
    Home <- MCHome
    Curated <- MCCurated
    Thin <- MCThin
    Flaky <- MCFlaky
    MaxVersion = 2
    MaxRuns = 1
    MaxCrashes = 0
PROPERTY ClustersKept
CHECK_DEADLOCK FALSE
