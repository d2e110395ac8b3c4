SPECIFICATION PairedSpec
CONSTANTS
    Tasks = {t1, t2}
    MaxScore = 1
    Long = TRUE
INVARIANT MarkersAreNotJudged
CHECK_DEADLOCK FALSE
