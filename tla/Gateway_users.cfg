CONSTANTS
    p1 = p1
    p2 = p2
    Requests = {r1, r2}
    Faults = TRUE
    Roles = {trader, developer}
    MaxChanges = 2
    Prices = {p1, p2}
    MaxMoves = 1
SPECIFICATION MCSpec
INVARIANTS
    TypeOK
    RolesSettle
PROPERTIES
    ServesKeys
    RevocationEnds
    ServesPrices
    QuotesEnd
CHECK_DEADLOCK FALSE
