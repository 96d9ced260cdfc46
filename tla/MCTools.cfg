SPECIFICATION AllSpec
CONSTANTS
    f1 = f1
    f2 = f2
    Files = {f1, f2}
    Contents = {1, 2}
    BaseSize = 2
    ObservationSize = 3
    DiagnosticSize = 1
    ReceiptSize = 1
    ResultSize = 2
    ContextMax = 10
    MaxActions = 5
    Variants = 2
    MaxJobs = 4
    Faults = {"crash", "interrupt", "deadline", "docker"}
INVARIANTS
    ContainersAreOwned
    PassIsUndisturbed
    ContextIsCurrent
PROPERTIES
    RecoveryCleans
    JobsEnd
CHECK_DEADLOCK FALSE
