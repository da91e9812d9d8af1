SPECIFICATION FairSpec
CONSTANTS
    Updates = {u1, u2}
    FinalUpdates = {u2}
    ResponseTimeout = 1
    MaxTime = 2
    MaxVersion = 1
INVARIANTS
    CurrentMatchesNode
    ErrorRowHasNoChannel
PROPERTIES
    WaitEnds
    ClosedReachesRow
CHECK_DEADLOCK FALSE
