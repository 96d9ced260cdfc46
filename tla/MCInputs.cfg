SPECIFICATION AllSpec
CONSTANTS
    Commands = {p1, p2}
    MaxVersions = 3
    Flaws = {"open", "lossy", "rejected", "related"}
    Absent = Absent
    Torn = Torn
    NBase = 3
    Limit = 3
    MaxRevisions = 5
    Faults = {"crash", "interrupt"}
    Rates = {1, 2}
    Limits = {1, 2, 3}
    MaxTiers = 2
    MaxTokens = 2
    MaxOutput = 2
    MaxInput = 3
    Context = 5
    Dear = FALSE
    MaxClaims = 3
    Facts = {1, 2}
    MaxSpecs = 2
    MaxEntries = 2
    EntryIds = {a, b}
    Texts = {1}
    Roles = {1, 2}
INVARIANTS
    PlanIsOrdered
    GatesHold
    RunsAreLossless
    
    MergedIsValid
    CallsArePriced
PROPERTIES
    PromiseHolds
CHECK_DEADLOCK FALSE
