SPECIFICATION Spec
CONSTANTS
    Executions = {e1, e2}
    Workers = {w1}
    Nobody = Nobody
    Priorities <- MCPriorities
    MaxMemorySize = 1
    MaxTasks = 1
    JobPriority = 0
    JobMaxRetries = 1
    ConfigMaxRetries = 0
    MaxRestarts = 0
    Faults = FALSE
SYMMETRY Symmetry
INVARIANT TablesAgree
INVARIANT OnlySpentOnesAreDead
CHECK_DEADLOCK FALSE
