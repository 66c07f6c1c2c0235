\* Production mode, first use of a passport document written before revisions.
SPECIFICATION Spec
CONSTANTS
    c1 = c1
    c2 = c2
    k1 = k1
    k2 = k2
    a = a
    b = b
    none = none
    Calls = {c1, c2}
    Keys = {k1, k2}
    Contents = {a, b}
    NoToken = none
    Requests <- MCRequests
    Strict = TRUE
    TxnAvailable = TRUE
    IndexesReady = TRUE
    Starts = {"legacy"}
    MaxCalls = 4
    MaxCrashes = 1
    MaxAborts = 1
SYMMETRY CallSymmetry
INVARIANTS
    ChainVerifies
CHECK_DEADLOCK FALSE
