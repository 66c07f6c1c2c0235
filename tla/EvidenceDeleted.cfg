\* Two overlapping requests: a duplicate is deleted once the package holds its twin.
SPECIFICATION Spec
CONSTANTS
    m1 = m1
    d1 = d1
    d2 = d2
    k1 = k1
    kind1 = kind1
    c1 = c1
    c2 = c2
    a1 = a1
    a2 = a2
    x1 = x1
    o1 = o1
    o2 = o2
    o3 = o3
    nothing = nothing
    Missions = {m1}
    Digests = {d1, d2}
    Required = 1
    Targets = {5, 9}
    Sessions = {c1, c2}
    NoMission = nothing
    NoDigest = nothing
    MaxUploads = 2
    MaxDeletes = 1
    MaxFinalizes = 2
    MaxOthers = 1
    MaxCrashes = 1
    PackageKeys = {k1}
    Kinds = {kind1}
    Callers = {c1, c2}
    NoKey = nothing
    NoKind = nothing
    MaxCalls = 0
    Audiences = {a1, a2}
    Sources = {x1}
    NoAudience = nothing
    NoSource = nothing
    Workers = {c1, c2}
    MaxEntries = 2
    MaxHead = 3
    MaxWork = 0
    Orchestrations = {o1, o2, o3}
    NoPair = nothing
    CapturePackages = {}
    Candidates = {}
    MaxSteps = 0
    MaxStops = 0
    MaxChecks = 0
    EstimateWords = {""}
    OpportunityWords = {""}
    FindingWords = {}
    NoDocument = nothing
    MaxViews = 0
    Readers = {c1, c2}
    Objects <- SomeObjects
    WindowTicks = 1
    RlMax = 1
    TtlTicks = 1
    MaxTicks = 0
    MaxReboots = 0
    MaxReads = 0
SYMMETRY PublicationsSymmetry
INVARIANTS
    FinalizedIsStored
CHECK_DEADLOCK FALSE
