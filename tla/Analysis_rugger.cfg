SPECIFICATION Spec
CONSTANTS
    Analyses = {a1}
    Claims <- BareClaim
    InitFacts <- OneToken
    MinWalletAge = 24
    MaxConcentration = 50
    Flaky = {}
INVARIANT
    RuggerNeverSafe
CHECK_DEADLOCK FALSE
