SPECIFICATION FairSpec
CONSTANTS
    Callers = {t1, t2}
    Chans = {c1, c2}
    Nobody = Nobody
    Handler = Handler
INVARIANTS
    FailedCloseReleases
    SnapshotStaysOpen
PROPERTIES
    CallsReturnWhileOpen
    ShutdownEnds
CHECK_DEADLOCK FALSE
