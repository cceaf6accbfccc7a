SPECIFICATION WalSpec
CONSTANTS
  MaxBytes = 8
  CompactThreshold = 2
  Faults = {}
  MaxRecords = 3
  MaxFaults = 0
INVARIANT NoLoss
