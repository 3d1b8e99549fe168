SPECIFICATION Spec
CONSTANTS
    Handles = {h1, h2, h3}
    Resizers = {r1}
    Sizes = {0, 2}
    Base = 1
    HeadroomFloor = 1
    StuckTracking = TRUE
    Deadlines = FALSE
    ShutdownWhen = "never"
    MaxAbandoned = 1
    NoOne = NoOne
SYMMETRY Symmetry
INVARIANTS PoolWithinBudget NoOrphanDispatcher
PROPERTIES HeldJobSurvives ImplementsPool
CHECK_DEADLOCK FALSE
