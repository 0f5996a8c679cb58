SPECIFICATION Spec
CONSTANTS
    Analyses = {a1, a2}
    Claims <- PraiseClaim
    InitFacts <- Tokens
    MinWalletAge = 24
    MaxConcentration = 50
    Flaky = {a1}
INVARIANTS
    TypeOK
    SafeIsEarned
    FailuresCostTrust
CHECK_DEADLOCK FALSE
