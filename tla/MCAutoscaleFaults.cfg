SPECIFICATION Spec
CONSTANTS
    Queues = {q1, q2}
    MinWorkers = 5
    MaxWorkers = 10
    GlobalCap = 15
    UpMultiplier = 4
    IdleCycles = 2
    Initial = 6
    Depths = {0, 1, 37}
    Faults = {"fail", "short", "depth"}
    MaxFaults = 2
    QuickStart = TRUE
    StopCalled = "deadline"
SYMMETRY Symmetry
INVARIANTS ProposalSound ShrinksOnlyWhenIdle NoSlotLeaked PromisedWithinCap
CHECK_DEADLOCK FALSE
