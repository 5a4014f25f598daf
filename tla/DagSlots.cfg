SPECIFICATION Spec
CONSTANTS
    a = a
    b = b
    c = c
    d = d
    Jobs = {a, b, c}
    Executions = {x1, x2, x3}
    NoExecution = NoExecution
    Graphs <- RunGraphs
    MaxConcurrentNodes = 2
    OnFailure = "stop"
    MaxRetries = 0
    Faults = TRUE
CONSTRAINT OneAtATime
INVARIANT RunsInOrder
CHECK_DEADLOCK FALSE
