\* Two overlapping requests on one object, while findings of the property are published.
SPECIFICATION Spec
CONSTANTS
    p1 = p1
    f1 = f1
    author = author
    reviewer = reviewer
    s1 = s1
    s2 = s2
    key = key
    nobody = nobody
    nothing = nothing
    none = none
    Objects = {p1}
    Findings = {f1}
    RebaseKeys = {key}
    Users = {author, reviewer}
    Inspectors = {author}
    Reviewers = {author, reviewer}
    Operators = {reviewer}
    Sessions = {s1, s2}
    NoUser = nobody
    NoObject = nothing
    NoRequest = none
    NoToken = none
    MaxReviews = 2
    MaxMarks = 2
    MaxRebases = 2
    MaxCrashes = 1
SYMMETRY IntelligenceSymmetry
INVARIANTS
    CommittedOnLedger
    RefusalsAreQueued
    ReplacementOnLedger
PROPERTIES
    ReferenceIsFinal
CHECK_DEADLOCK FALSE
