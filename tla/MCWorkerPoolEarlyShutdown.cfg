SPECIFICATION Spec
CONSTANTS
    Handles = {h1}
    Resizers = {}
    Sizes = {}
    Base = 1
    HeadroomFloor = 1
    StuckTracking = TRUE
    Deadlines = TRUE
    ShutdownWhen = "any"
    MaxAbandoned = 1
    NoOne = NoOne
INVARIANT ShutdownIsFinal
CHECK_DEADLOCK FALSE
