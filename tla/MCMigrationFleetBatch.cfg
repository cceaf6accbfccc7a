SPECIFICATION FleetSpec
CONSTANTS
  Partitions = {p1}
  Placements = {A, B}
  NoPlacement = None
  Clients = {c1, c2}
  MaxEpoch = 5
  Callers = {k1}
  Barrier = 3
  MaxTime = 4
  Serialized = TRUE
  Timeout = 2
  Gap = 0
  BatchMax = 2
SYMMETRY Symmetry
INVARIANTS NoOrphanedWrite
