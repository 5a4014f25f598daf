SPECIFICATION Spec
CONSTANTS
    Executions = {e1, e2}
    Workers = {w1, w2}
    Nobody = Nobody
    Priorities <- MCPriorities
    MaxMemorySize = 1
    MaxTasks = 1
SYMMETRY Symmetry
INVARIANTS
    MemoryBounded
    ProcessingIsOwned
    SingleDelivery
PROPERTIES
    SettledIsFinal
