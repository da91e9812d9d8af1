SPECIFICATION Spec
CONSTANTS
    ProposalIds = {p1, p2}
    MaxVersion = 2
    ResponseTimeout = 0
    MaxTime = 1
    MaxSubs = 2
    MaxRegistered = 1
SYMMETRY ProposalSymmetry
INVARIANTS
    TypeOK
    ClosedNotifiedOnce
    ClosedNotifTellsOutcome
    NotificationAccounted
    ResponderCalledOnce
    CloserSettlesAsPrimary
PROPERTY ImplementsApi
CHECK_DEADLOCK FALSE
