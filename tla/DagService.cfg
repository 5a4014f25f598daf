SPECIFICATION Spec
CONSTANTS
    Requests = {r1, r2}
    Jobs = {j1, j2, j3}
    Fields = {enabled, on_failure}
    Values = {v1, v2}
    None = None
SYMMETRY Symmetry
INVARIANTS
    CyclesNeedARace
    UpdatesHold
CHECK_DEADLOCK FALSE
