SPECIFICATION FairSpec
CONSTANTS
    Requests = {r1, r2}
    GC = gc
    Contents = {a, b}
    Chunks = 2
    Faults = {"crash", "storage", "lost", "database"}
    MaxFaults = 1
    None = None
INVARIANTS OneBackedFile FileIntact
PROPERTIES AcknowledgedKept ExpiredFreed FinishRetried
CHECK_DEADLOCK FALSE
