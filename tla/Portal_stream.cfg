SPECIFICATION Spec
CONSTANTS
  t1 = t1
  t2 = t2
  Trades = {t1, t2}
  DevTrades = {t1}
  Hot = {t2}
  Window = 1
  Faults = TRUE
INVARIANTS TypeOK CountNeverAhead EarlyDevTradeFlagged CacheNotAhead
PROPERTY WarningsStay
CHECK_DEADLOCK FALSE
