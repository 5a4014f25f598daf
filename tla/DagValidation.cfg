SPECIFICATION Kahn
CONSTANTS
    Jobs = {j1, j2, j3, j4}
    Graphs <- MCGraphs
    MaxStored = 4
INVARIANTS
    DecidesCycles
    LevelsAreRight
PROPERTIES
    Terminates
CHECK_DEADLOCK FALSE
