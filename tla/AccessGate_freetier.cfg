CONSTANTS
    Users = {u1}
    Mints = {m1}
    Requests = {r1}
    Handlers = {FALSE}
    Dashboards = {d1}
    Subscribers = {}
    Payable = {}
    FreeUI = 1
    FreeAPI = 0
    FreeLimit <- MCFreeLimit
    Quota = 1
    InitialCredits = 0
    Faults = FALSE
    MaxAllowance = 2
    MaxOver = 0
SPECIFICATION Spec
INVARIANTS FreeTierLimit
CHECK_DEADLOCK FALSE
