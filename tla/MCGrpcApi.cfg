SPECIFICATION Spec
CONSTANTS
    Clients = {k1}
    SessionIDs = {"s1", "s2"}
    ChIDs = {"c1"}
    StoredPeers = {"alice"}
    AddedPeers = {"bob"}
    MaxStops = 1
INVARIANTS
    ErrorTellsInfo
    ToldIsFound
    ToldOpenIsRestored
    UnclosedChsTold
CHECK_DEADLOCK FALSE
