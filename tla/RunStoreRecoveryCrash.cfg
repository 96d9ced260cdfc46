SPECIFICATION Spec
CONSTANTS
    NTasks = 2
    ToolEdits = {e1, e2}
    OperatorEdits = {o1, o2}
    Faults = {"crash", "recovery_crash"}
SYMMETRY EditSymmetry
INVARIANTS
    BlockedByManualChange
