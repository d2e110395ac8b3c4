SPECIFICATION Spec
CONSTANTS
    a = a
    b = b
    a1 = a1
    a2 = a2
    a3 = a3
    b1 = b1
    w1 = w1
    w2 = w2
    Claims <- FourClaims
    Sources <- TwoSources
    Src <- SrcOf
    Objects <- ThreeObjects
    Writers <- TwoWriters
    MaxBatch <- MCBatch
    MaxClock = 3
    MaxCrashes = 1
SYMMETRY WriterSymmetry
INVARIANTS TypeOK ServedClaimsAgree OneVoicePerSource ConflictsAreQueued
    SupersessionEndsActive ClaimsAreReadable
PROPERTY SettledStaysSettled
CHECK_DEADLOCK FALSE
