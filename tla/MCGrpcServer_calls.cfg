SPECIFICATION FairSpec
CONSTANTS
    Streams = {s1, s2, s3}
    Unsubs = {u1, u2}
    Nobody = Nobody
INVARIANTS
    ApartCallsSafe
PROPERTIES
    UnsubEndsStream
    ClosedChannelEndsStreams
CHECK_DEADLOCK FALSE
