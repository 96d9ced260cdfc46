SPECIFICATION Spec
CONSTANTS
    NTasks = 2
    ToolEdits = {e1, e2}
    OperatorEdits = {o1, o2}
    Faults = {"interrupt"}
SYMMETRY EditSymmetry
INVARIANTS
    AcceptedIntact
