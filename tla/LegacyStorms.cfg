\* One caller, so that nothing overlaps, and an archive that always answers.
SPECIFICATION Spec
CONSTANTS
    c1 = c1
    c2 = c2
    t1 = t1
    t2 = t2
    p1 = p1
    p2 = p2
    s1 = s1
    s2 = s2
    none = none
    Requests = {c1}
    MaxRequests = 0
    Callers = {c1}
    Tokens = {t1}
    Nobody = none
    ArchiveDelay = 2
    LookBack = 3
    MaxDay = 3
    MaxOutages = 0
    MaxWrites = 4
    Measures = {}
    Unknown = none
    NewCoverages = {}
    MaxAlterations = 0
    MaxEstimates = 0
    Lengths = {}
    Policies = {}
    Increments = {}
    NetQuantities = {}
    MaxReckoned = 0
    Sources <- SomeSources
    Plans = {}
    Processes = {p1}
    Absent = none
    MaxPlans = 0
    MaxRuns = 1
    MaxDeaths = 0
    Tablets = {c1}
    MaxFieldCalls = 0
    Payers = {c1}
    CheckoutSessions = {t1}
    MaxPayCalls = 0
    Skies = {}
    RoughHours = {}
    MaxRough = 0
    Slots = {}
    MaxLooks = 0
    KeyVersions = {t1}
    KeyMaterials = {c1}
    Missing = none
    Limits = {1}
    MaxSealed = 0
    MaxDamages = 0
    MaxKeyChanges = 0
    MaxVerifies = 0
    Servers = {s1}
    Strict = {}
    IndexSpecs <- SomeIndexes
    MaxIndexFaults = 0
    MaxStarts = 0
INVARIANT StormsReachLedger
CHECK_DEADLOCK FALSE
