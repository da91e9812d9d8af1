SPECIFICATION CliSpec
CONSTANTS
    ChIDs = {c1}
    Offered = {c1}
    MaxUpdates = 2
    MaxChVersion = 2
    MaxSubs = 2
    MaxSessions = 2
INVARIANT
    AcceptedWasShown

    
CHECK_DEADLOCK FALSE
