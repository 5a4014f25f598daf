SPECIFICATION LogSpec
CONSTANTS
    Streams = {s1}
    MaxAttempts = 1
    PageSize = 4
    Faults = FALSE
INVARIANT AllLogsSent
CHECK_DEADLOCK FALSE
