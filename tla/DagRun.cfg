SPECIFICATION Spec
CONSTANTS
    a = a
    b = b
    c = c
    d = d
    Jobs = {a, b, c}
    Executions = {x1, x2, x3}
    NoExecution = NoExecution
    Graphs <- TurnGraphs
    MaxConcurrentNodes = 1
    OnFailure = "stop"
    MaxRetries = 1
    Faults = TRUE
INVARIANT InertUntilCancelled
INVARIANT OnlyFailuresForget
INVARIANT StartsOnce
INVARIANT NodesTakeTurns
PROPERTY RunCloses
CHECK_DEADLOCK FALSE
