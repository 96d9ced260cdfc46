SPECIFICATION Spec
CONSTANTS
    NBase = 1
    Followups = 1
    SessionsPerTask = 2
    DecisionsPerSession = 1
    FinalRepairs = 2
    MaxReconfigured = 1
    Faults = {"crash", "interrupt", "deadline", "cost"}
INVARIANTS
    TypeOK
    WorkIsBounded
    SuccessIsEarned
PROPERTIES
    NothingForgotten
    ControllersEnd
