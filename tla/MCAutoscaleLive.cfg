SPECIFICATION FairSpec
CONSTANTS
    Queues = {q1, q2}
    MinWorkers = 1
    MaxWorkers = 3
    GlobalCap = 4
    UpMultiplier = 4
    IdleCycles = 2
    Initial = 2
    Depths = {0, 13}
    Faults = {"fail", "short", "stick"}
    MaxFaults = 2
    QuickStart = FALSE
    StopCalled = "never"
PROPERTY BacklogGetsWorkers
CHECK_DEADLOCK FALSE
