SPECIFICATION Spec
CONSTANTS
    A = A
    B = B
    a1 = a1
    a2 = a2
    b1 = b1
    Runs = {A}
    Procs = {a1, a2}
    RunOf <- MCRunOf
    PhaseOf <- MCPhaseOf
    PhaseMax <- MCPhaseMax
    Reservations = {2}
    Charges = {1}
    MaxCost = 4
    CampaignMax = 4
    MaxCalls = 3
    Faults = {"stale_open"}
INVARIANTS
    BillCovered
