CONSTANTS
    Events = {e1, e2}
    Unusable = {e2}
    Workers = {w1, w2}
    Receivers = {r1, r2}
    Capacity = 1
    Faults = TRUE
    Clients = {TRUE, FALSE}
    MaxExits = 1
SPECIFICATION Spec
INVARIANTS
    TypeOK
PROPERTIES
    ImplementsDelivery
    EventuallyAnalysed
    ShutdownEnds
CHECK_DEADLOCK FALSE
