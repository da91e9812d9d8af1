SPECIFICATION FairSpec
CONSTANTS
    Proposals = {p1, p2, p3, p4}
    KnownPeers = {p1, p3}
    KnownCurrencies = {p1, p2}
    ResponseTimeout = 0
    MaxTime = 2
    MaxSubs = 2
INVARIANTS
    ResponderCalledOnce
    NotificationAccounted
PROPERTY ProposalReachesUser
CHECK_DEADLOCK FALSE
