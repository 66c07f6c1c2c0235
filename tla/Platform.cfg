\* Two overlapping callers with six requests about a survey job or four about a legacy
\* passport; or one estimate whose ledger is altered once; or a takeoff of one measurement
\* and what is reckoned from it; or three calls of the dataset laboratory by two processes,
\* one of which may die; or four field calls from two tablets; or five calls about two
\* payments; or two looks at the weather; or one verification of a chain of three entries,
\* twice damaged; or four starts of two servers over three indexes.
SPECIFICATION Spec
CONSTANTS
    c1 = c1
    c2 = c2
    t1 = t1
    t2 = t2
    p1 = p1
    p2 = p2
    s1 = s1
    s2 = s2
    none = none
    Requests = {c1, c2}
    MaxRequests = 6
    Callers = {c1, c2}
    Tokens = {t1, t2}
    Nobody = none
    ArchiveDelay = 1
    LookBack = 2
    MaxDay = 2
    MaxOutages = 1
    MaxWrites = 4
    Measures <- SomeMeasures
    Unknown = none
    NewCoverages = {1600}
    MaxAlterations = 1
    MaxEstimates = 1
    Lengths <- SomeLengths
    Policies = {"drywall_sheet", "ready_mix", "flood_damage", none}
    Increments = {0, 1, 4}
    NetQuantities <- SomeQuantities
    MaxReckoned = 2
    Sources <- SomeSources
    Plans <- SomePlans
    Processes = {p1, p2}
    Absent = none
    MaxPlans = 3
    MaxRuns = 2
    MaxDeaths = 1
    Tablets = {c1, c2}
    MaxFieldCalls = 4
    Payers = {c1, c2}
    CheckoutSessions = {t1, t2}
    MaxPayCalls = 5
    Skies <- SomeSkies
    RoughHours = {20, 30, 43, 44, 45, 46}
    MaxRough = 2
    Slots = {43, 44}
    MaxLooks = 2
    KeyVersions = {t1, t2}
    KeyMaterials = {c1, c2}
    Missing = none
    Limits = {2, 3}
    MaxSealed = 3
    MaxDamages = 2
    MaxKeyChanges = 1
    MaxVerifies = 1
    Servers = {s1, s2}
    Strict = {s1}
    IndexSpecs <- SomeIndexes
    MaxIndexFaults = 1
    MaxStarts = 4
SYMMETRY CallersSymmetry
INVARIANTS
    LegacyChainVerifies
    EndorsedAreSigned
    BilledAsFlown
    EnoughIsBought
    ReplayIsSound
    LatestIsReconstructed
    PerimeterStands
    RestrictedWasWarned
    BillingAgrees
    WindowsPassTheGate
    VerdictIsTrue
    ReadyIsUnique
    LengthsAreAsWritten
    PurchasesAgree
CHECK_DEADLOCK FALSE
