SPECIFICATION Spec
CONSTANTS
    r1 = r1
    r2 = r2
    Requests = {r1, r2}
    Configs <- MCConfigs
    Settings <- MCSettings
    SessionBlack = 2
    MaxAsked = 4
    MaxFaults = 1
SYMMETRY MCSymmetry
INVARIANTS ReadyGameStarts StartedOnce LogsPlayable OutcomeExplained TimeoutHadTimer FlipsExact RunningGameGoesOn
PROPERTY SettledIsFinal
CHECK_DEADLOCK FALSE
