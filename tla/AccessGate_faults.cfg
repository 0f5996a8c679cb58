CONSTANTS
    Users = {u1}
    Mints = {m1}
    Requests = {r1}
    Handlers = {FALSE}
    Dashboards = {d1}
    Subscribers = {u1}
    Payable <- MCPayable
    FreeUI = 1
    FreeAPI = 0
    FreeLimit <- MCFreeLimit
    Quota = 1
    InitialCredits = 0
    Faults = TRUE
    MaxAllowance = 2
    MaxOver = 1
SPECIFICATION Spec
INVARIANTS
    FreeGrantsWithinAllowance
    PersistedUsageNotAhead
    CachedAccessWasEarned
CHECK_DEADLOCK FALSE
