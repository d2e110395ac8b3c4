SPECIFICATION Spec
CONSTANTS
    t1 = t1
    t2 = t2
    verified = verified
    deprecated = deprecated
    None = None
    Texts <- TwoTexts
    Statuses <- TwoStatuses
    Dims <- TwoDims
    Shapes <- SomeShapes
    Opens <- MostlyOpen
    MaxPuts = 2
    MaxFaults = 1
    MaxCrashes = 0
INVARIANT InterruptedIsInvisible
CHECK_DEADLOCK FALSE
