SPECIFICATION AllSpec
CONSTANTS
    c1 = c1
    c2 = c2
    r1 = r1
    r2 = r2
    Repairs = 2
    MaxTrees = 3
    Faults = {"crash", "interrupt", "person"}
    Builds = {1, 2}
    Checks = {c1, c2}
    Mandatory = {c1, c2}
    Requirements = {r1, r2}
    ReqIds <- Covered
    MaxAttempts = 2
    Rows = {1, 2}
    MaxResults = 4
INVARIANTS
    SuccessIsReal
    VerdictsAgree
    EveryFailureShown
PROPERTIES
    ExportsKept
CHECK_DEADLOCK FALSE
