SPECIFICATION Spec
CONSTANTS
    a = a
    b = b
    a1 = a1
    a2 = a2
    a3 = a3
    b1 = b1
    w1 = w1
    w2 = w2
    Claims <- ThreeClaims
    Sources <- TwoSources
    Src <- SrcOf
    Objects <- TwoObjects
    Writers <- OneWriter
    MaxBatch <- MCBatch
    MaxClock = 3
    MaxCrashes = 0
INVARIANTS NewerReleaseWins
CHECK_DEADLOCK FALSE
