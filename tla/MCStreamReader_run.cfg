SPECIFICATION FairSpec
CONSTANTS
    Intervals <- MCIntervals
    Garbage <- MCGarbage
    MetaSizes <- MCMetaSizes
    Sizes <- MCSizes
    MetaUnit = 2
    MaxFailures = 1
INVARIANT Undamaged
PROPERTIES StopEndsRead EndEndsRead
CHECK_DEADLOCK FALSE
