SPECIFICATION Spec
CONSTANTS
    NTasks = 2
    ToolEdits = {e1, e2, e3}
    OperatorEdits = {o1, o2}
    Faults = {"crash", "recovery_crash", "offline_edit", "idle_edit"}
SYMMETRY EditSymmetry
INVARIANTS
    TypeOK
    AcceptedIntact
    EditsKept
    BlockedByKnownCause
PROPERTIES
    AcceptanceIsAtomic
