SPECIFICATION Spec
CONSTANTS
    a = a
    b = b
    c = c
    d = d
    Jobs = {a, b, c}
    Executions = {x1}
    NoExecution = NoExecution
    Graphs <- RunGraphs
    MaxConcurrentNodes = 1
    OnFailure = "continue"
    MaxRetries = 0
    Faults = FALSE
PROPERTY CancelledStaysOver
CHECK_DEADLOCK FALSE
