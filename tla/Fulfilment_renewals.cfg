CONSTANTS
    f1 = f1
    f2 = f2
    f3 = f3
    Refs = {f1, f2}
    PlanOf <- MCRenewals
    Verifiers = {v1, v2}
    Days <- MCDays
    PlanQuota <- MCQuota
    Faults = TRUE
    MaxTime = 1
    MaxTxs = 2
    MaxCommits = 3
    MaxUsage = 0
SPECIFICATION Spec
SYMMETRY Symmetry
INVARIANTS
    FulfilledInOrder
    NoPaidTimeLost
CHECK_DEADLOCK FALSE
