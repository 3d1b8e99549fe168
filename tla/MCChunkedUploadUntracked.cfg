SPECIFICATION Spec
CONSTANTS
    Requests = {r1, r2}
    GC = gc
    Contents = {a, b}
    Chunks = 2
    Faults = {}
    MaxFaults = 0
    None = None
INVARIANTS UploadTracked
CHECK_DEADLOCK FALSE
