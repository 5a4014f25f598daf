SPECIFICATION Spec
CONSTANTS
    r1 = r1
    r2 = r2
    Requests = {r1, r2}
    dash = dash
    Dash = Dash
    score = score
    other = other
    Names <- MCNames
    Lower <- MCLower
    Package <- MCPackage
    Requires <- MCRequires
    Workloads <- MCWorkloads
    Versions = {v1, v2}
    Wants = {v1}
    RowIds = {1, 2}
    FailOnConflict = TRUE
    None = None
INVARIANT OnePipAtATime
INVARIANT RowsMatchDisk
INVARIANT OneRowPerVersion
PROPERTY RequestsEnd
CHECK_DEADLOCK FALSE
