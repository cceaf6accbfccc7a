SPECIFICATION Spec
CONSTANTS
  None = None
  Absent = Absent
  Threads = {t1, t2}
  Arrivals <- MCArrivals
  Documents <- MCDocuments
  Settings <- MCSettings
  Capacity = 1
  MaxTime = 3
  Cursors = {k1, k2, k3}
  Clusters = {A, B}
  Ttl = 2
  Conns = {c1, c2}
  Requests = {r1, r2}
  MaxBody = 2
  Ceiling = 3
  MaxConnections = 1
  DrainDeadline = 2
  Missing = Missing
  Launches <- MCLaunches
INVARIANTS CeilingsHold OneDocument CaptureFollows CurrentUnlessMissed  StartsAsAsked
PROPERTIES GracefulStop DrainEnds CatchesUp AffinityKept
CHECK_DEADLOCK FALSE
