CONSTANTS
    Users = {u1}
    Mints = {m1}
    Requests = {r1, r2}
    Handlers = {FALSE, TRUE}
    Dashboards = {}
    Subscribers = {u1}
    Payable = {}
    FreeUI = 1
    FreeAPI = 0
    FreeLimit <- MCFreeLimit
    Quota = 1
    InitialCredits = 1
    Faults = FALSE
    MaxAllowance = 1
    MaxOver = 0
SPECIFICATION Spec
SYMMETRY Symmetry
INVARIANTS
    TypeOK
    UsageOvershootBounded
    CreditOvershootBounded
    ChargedAtMostOnce
    FreeAllowanceSpentFirst
    UnservedKeepsQuota
PROPERTIES FollowsSubscription
CHECK_DEADLOCK FALSE
