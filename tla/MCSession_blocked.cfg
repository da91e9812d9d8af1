SPECIFICATION FairSpec
CONSTANTS
    Callers = {t1, t2}
    Chans = {c1}
    Nobody = Nobody
    Handler = Handler
PROPERTY CallsReturn
CHECK_DEADLOCK FALSE
