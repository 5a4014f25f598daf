SPECIFICATION Spec
CONSTANTS
    Requests = {r1, r2}
    Jobs = {j1, j2}
    Fields = {enabled}
    Values = {v1}
    None = None
INVARIANTS
    StoredEdgesAcyclic
CHECK_DEADLOCK FALSE
