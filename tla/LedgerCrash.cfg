SPECIFICATION Spec
CONSTANTS
    A = A
    B = B
    a1 = a1
    a2 = a2
    b1 = b1
    Runs = {A, B}
    Procs = {a1, b1}
    RunOf <- MCRunOf
    PhaseOf <- MCPhaseOf
    PhaseMax <- MCPhaseMax
    Reservations = {1, 2}
    Charges = {0, 3}
    MaxCost = 3
    CampaignMax = 4
    MaxCalls = 2
    Faults = {"crash"}
INVARIANTS
    TypeOK
    AccountsBalance
    RunCapped
    CampaignCapped
    BillCovered
