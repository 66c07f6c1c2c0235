\* Two overlapping requests on one mission's evidence, or nine calls about a report
\* package, or three about projections; twenty calls about three ATC missions, one
\* package or candidate, one view, two reads of a homeowner's link.
SPECIFICATION Spec
CONSTANTS
    m1 = m1
    d1 = d1
    d2 = d2
    k1 = k1
    kind1 = kind1
    c1 = c1
    c2 = c2
    a1 = a1
    a2 = a2
    x1 = x1
    o1 = o1
    o2 = o2
    o3 = o3
    nothing = nothing
    Missions = {m1}
    Digests = {d1, d2}
    Required = 1
    Targets = {5, 9}
    Sessions = {c1, c2}
    NoMission = nothing
    NoDigest = nothing
    MaxUploads = 2
    MaxDeletes = 1
    MaxFinalizes = 2
    MaxOthers = 1
    MaxCrashes = 1
    PackageKeys = {k1}
    Kinds = {kind1}
    Callers = {c1, c2}
    NoKey = nothing
    NoKind = nothing
    MaxCalls = 9
    Audiences = {a1, a2}
    Sources = {x1}
    NoAudience = nothing
    NoSource = nothing
    Workers = {c1, c2}
    MaxEntries = 2
    MaxHead = 3
    MaxWork = 3
    Orchestrations = {o1, o2, o3}
    NoPair = nothing
    CapturePackages <- SomePackages
    Candidates <- Candidate
    MaxSteps = 20
    MaxStops = 1
    MaxChecks = 1
    EstimateWords = {"", "approved", "available", "awaiting_review", "AWAITING_REVIEW", "unavailable", "superseded"}
    OpportunityWords = {"", "accepted", "paid", "awaiting_review", "approved"}
    FindingWords = {"DRAFT", "APPROVED"}
    NoDocument = nothing
    MaxViews = 1
    Readers = {c1, c2}
    Objects <- SomeObjects
    WindowTicks = 2
    RlMax = 1
    TtlTicks = 1
    MaxTicks = 2
    MaxReboots = 1
    MaxReads = 2
SYMMETRY PublicationsSymmetry
INVARIANTS
    RecordedIsStored
    PackagesInOrder
    
    ProjectionIsFull
    ApprovedIsPublished
    AcceptedPassedGates
    HomeownerSeesSettled
    ScoresAgree
CHECK_DEADLOCK FALSE
