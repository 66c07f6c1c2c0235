\* Local mode: no transactions, each write a step of its own; a legacy document.
SPECIFICATION Spec
CONSTANTS
    c1 = c1
    c2 = c2
    k1 = k1
    k2 = k2
    a = a
    b = b
    none = none
    Calls = {c1, c2}
    Keys = {k1, k2}
    Contents = {a, b}
    NoToken = none
    Requests <- MCRequests
    Strict = FALSE
    TxnAvailable = TRUE
    IndexesReady = TRUE
    Starts = {"absent", "legacy"}
    MaxCalls = 3
    MaxCrashes = 1
    MaxAborts = 1
SYMMETRY CallSymmetry
INVARIANTS
    SequenceUsedOnce
CHECK_DEADLOCK FALSE
