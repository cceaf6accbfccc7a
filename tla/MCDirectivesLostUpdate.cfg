SPECIFICATION DirectivesSpec
CONSTANTS
  None = None
  Threads = {t1, t2}
  Arrivals <- MCArrivals
  Documents <- MCDocuments
  Settings <- MCSettings
  Capacity = 1
  MaxTime = 3
INVARIANT NothingMissed
CHECK_DEADLOCK FALSE
