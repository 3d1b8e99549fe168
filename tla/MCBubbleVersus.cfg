\* Any two requests of either side in flight.
SPECIFICATION Spec
CONSTANTS
    Reqs = {r1, r2}
    Slots <- MCSlots
    Limit = 2
    Countdown = 1
    Disconnect = 1
    Skew = 0
    Reports <- MCReports
    MaxSent = 1
    MaxFaults = 1
    Patient = {}
    None = None
SYMMETRY MCSymmetry
CHECK_DEADLOCK FALSE
INVARIANTS BothReportedDecided OutcomeJustified HonestNeverInvalid RecordAgrees InvitationListed
PROPERTY NothingTakenBack
