SPECIFICATION FairSpec
CONSTANTS
    Executions = {e1, e2}
    Workers = {w1}
    Nobody = Nobody
    Priorities <- MCPriorities
    MaxMemorySize = 1
    MaxTasks = 0
    JobPriority = 0
    JobMaxRetries = 0
    ConfigMaxRetries = 0
    MaxRestarts = 1
    Faults = FALSE
INVARIANT TablesAgree
PROPERTY EveryExecutionEnds
CHECK_DEADLOCK FALSE
