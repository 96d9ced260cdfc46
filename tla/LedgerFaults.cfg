SPECIFICATION Spec
CONSTANTS
    A = A
    B = B
    a1 = a1
    a2 = a2
    b1 = b1
    Runs = {A, B}
    Procs = {a1, a2, b1}
    RunOf <- MCRunOf
    PhaseOf <- MCPhaseOf
    PhaseMax <- MCPhaseMax
    Reservations = {1}
    Charges = {0, 2}
    MaxCost = 4
    CampaignMax = 6
    MaxCalls = 1
    Faults = {"crash", "interrupt", "stale_open"}
INVARIANTS
    InterruptedBillCovered
    RequestsFresh
