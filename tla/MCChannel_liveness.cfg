SPECIFICATION FairSpec
CONSTANTS
    ProposalIds = {p1}
    MaxVersion = 1
    ResponseTimeout = 0
    MaxTime = 1
    MaxSubs = 2
    MaxRegistered = 2
PROPERTIES
    MutexReleased
    RegisteredEventCloses
    UpdateReachesUser
    ConcludedEventCloses
CHECK_DEADLOCK FALSE
