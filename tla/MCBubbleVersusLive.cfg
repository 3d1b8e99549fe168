\* Side 0 keeps claiming; the other side does what it likes.
SPECIFICATION LiveSpec
CONSTANTS
    Reqs = {r1, r2}
    Slots <- MCOwnSlot
    Limit = 2
    Countdown = 1
    Disconnect = 2
    Skew = 1
    Reports <- MCReports
    MaxSent = 1
    MaxFaults = 0
    Patient = {0}
    None = None
CHECK_DEADLOCK FALSE
PROPERTIES NoStalling
