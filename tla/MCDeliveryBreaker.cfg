SPECIFICATION FairSpec
CONSTANTS
    Jobs = {j1, j2, j3}
    Threshold = 2
    InitialInterval = 2
    MaxInterval = 3
    LockTTL = 3
    LongestSend = 1
    ThrottleTime = 2
    Spacing = 1
    Deadlined = {j3}
    MaxFaults = 1
    NoToken = NoToken
INVARIANTS OneProbe ReservationsSpaced IndexComplete
PROPERTIES BackoffRespected AllDelivered
CHECK_DEADLOCK FALSE
