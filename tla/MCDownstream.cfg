SPECIFICATION Spec
CONSTANTS
  MaxBytes = 6
  CompactThreshold = 7
  Faults = {"restart", "ack_lost", "kill_commit", "kill_append", "kill_compact", "disk_full", "power_loss"}
  MaxRecords = 4
  MaxFaults = 2
  Requests = {r1, r2}
  Clusters = {c1}
  None = None
  Threshold = 2
  Cooldown = 2
  Timeout = 1
  Exchanges = {e1, e2}
  MaxInflight = 1
  MaxAttempts = 2
  Writes = {w1, w2}
  Matching = {d1, d2}
  Setups <- MCSetups
  MaxRestarts = 1
  Nil = Nil
  Garbled = Garbled
  Cases <- MCCases
  Hashes = {0, 3}
INVARIANTS NoLoss PoolsSound CaptureLeaksNothing AcceptedOnce HeadersComposed GoesWhereMeant
PROPERTIES Delivers ImplementsQueue EvictedRests HeadBounded Recovers DeliveriesEnd
CHECK_DEADLOCK FALSE
