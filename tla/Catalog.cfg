SPECIFICATION Spec
CONSTANTS
    Requests = {r1, r2}
    n1 = n1
    n2 = n2
    v1 = v1
    Names = {n1, n2}
    Ids = {i1, i2}
    Venvs = {v1, v2}
    VenvNames = {main2}
    Updates <- EachField
    Keep = Keep
    None = None
    Unused = Unused
    Deleted = Deleted
SYMMETRY Alike
INVARIANT SelectedVenvsExist
INVARIANT NothingTakenTwice
PROPERTY JobsStayDeleted
CHECK_DEADLOCK FALSE
