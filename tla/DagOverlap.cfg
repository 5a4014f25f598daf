SPECIFICATION Spec
CONSTANTS
    a = a
    b = b
    c = c
    d = d
    Jobs = {a, b, c, d}
    Executions = {x1, x2, x3, x4}
    NoExecution = NoExecution
    Graphs <- OverlapGraphs
    MaxConcurrentNodes = 2
    OnFailure = "continue"
    MaxRetries = 0
    Faults = FALSE
INVARIANT LimitIsKept
CHECK_DEADLOCK FALSE
