SPECIFICATION FairSpec
CONSTANTS
    Handles = {h1, h2}
    Resizers = {}
    Sizes = {}
    Base = 1
    HeadroomFloor = 1
    StuckTracking = TRUE
    Deadlines = TRUE
    ShutdownWhen = "never"
    MaxAbandoned = 2
    NoOne = NoOne
PROPERTIES StuckLeavesRoster ProvenLiveReturns CapacityRestored WindsDown
CHECK_DEADLOCK FALSE
