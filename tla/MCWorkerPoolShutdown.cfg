SPECIFICATION FairSpec
CONSTANTS
    Handles = {h1, h2}
    Resizers = {r1}
    Sizes = {1}
    Base = 1
    HeadroomFloor = 1
    StuckTracking = TRUE
    Deadlines = FALSE
    ShutdownWhen = "published"
    MaxAbandoned = 1
    NoOne = NoOne
INVARIANT ShutdownIsFinal
PROPERTY ShutdownCompletes
CHECK_DEADLOCK FALSE
