SPECIFICATION Spec
CONSTANTS
    Executions = {e1}
    Workers = {w1, w2}
    Nobody = Nobody
    Priorities <- MCPriorities
    MaxMemorySize = 1
    MaxTasks = 1
    JobPriority = 0
    JobMaxRetries = 1
    ConfigMaxRetries = 1
    MaxRestarts = 1
    Faults = TRUE
SYMMETRY Symmetry
INVARIANT RegistrationsAreLive
INVARIANT KilledOnPurpose
INVARIANT WithdrawnNeverRuns
PROPERTY QueueSpec
CHECK_DEADLOCK FALSE
