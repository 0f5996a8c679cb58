CONSTANTS
    f1 = f1
    f2 = f2
    f3 = f3
    Refs = {f1, f2, f3}
    PlanOf <- MCPlans
    Verifiers = {v1, v2}
    Days <- MCDays
    PlanQuota <- MCQuota
    Faults = FALSE
    MaxTime = 1
    MaxTxs = 1
    MaxCommits = 3
    MaxUsage = 1
SPECIFICATION Spec
SYMMETRY Symmetry
INVARIANTS
    TypeOK
    QuotaWasBought
PROPERTIES
    TierProtectedAlone
    PaidTimeProtected
    FollowsSubscription
CHECK_DEADLOCK FALSE
