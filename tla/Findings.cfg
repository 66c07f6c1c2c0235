\* Two overlapping requests over two findings, one of which may supersede the other.
SPECIFICATION Spec
CONSTANTS
    f1 = f1
    f2 = f2
    author = author
    gm = gm
    ceo = ceo
    s1 = s1
    s2 = s2
    nobody = nobody
    nothing = nothing
    none = none
    Findings = {f1, f2}
    Users = {author, gm, ceo}
    Approvers = {gm, ceo}
    Sessions = {s1, s2}
    NoUser = nobody
    NoFinding = nothing
    NoToken = none
    MaxCalls = 6
    MaxCrashes = 1
SYMMETRY ReviewSymmetry
INVARIANTS
    AuthorsDoNotApprove
    StatusOnLedger
PROPERTIES
    ProvenanceIsFinal
CHECK_DEADLOCK FALSE
