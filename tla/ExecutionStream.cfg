SPECIFICATION LogSpec
CONSTANTS
    Streams = {s1}
    MaxAttempts = 2
    PageSize = 2
    Faults = TRUE
INVARIANT SentInOrder
PROPERTY StreamsEnd
CHECK_DEADLOCK FALSE
