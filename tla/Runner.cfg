SPECIFICATION Spec
CONSTANTS
    MaxLines = 3
    PipeSize = 1
    ChannelSize = 1
INVARIANT OutputIsComplete
INVARIANT SuccessIsReal
INVARIANT NoProcessLeft
PROPERTY RunEnds
PROPERTY TimeoutEnds
CHECK_DEADLOCK FALSE
