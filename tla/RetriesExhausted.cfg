SPECIFICATION FairSpec
CONSTANTS
    Executions = {e1}
    Workers = {w1}
    Nobody = Nobody
    Priorities <- MCPriorities
    MaxMemorySize = 1
    MaxTasks = 1
    JobPriority = 0
    JobMaxRetries = 1
    ConfigMaxRetries = 0
    MaxRestarts = 0
    Faults = FALSE
PROPERTIES
    RetriesAreExhausted
CHECK_DEADLOCK FALSE
