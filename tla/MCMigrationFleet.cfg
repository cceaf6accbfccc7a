SPECIFICATION FleetSpec
CONSTANTS
  Partitions = {p1}
  Placements = {A, B}
  NoPlacement = None
  Clients = {c1}
  MaxEpoch = 7
  Callers = {k1}
  Barrier = 5
  MaxTime = 7
  Serialized = TRUE
  Timeout = 1
  Gap = 1
  BatchMax = 2
SYMMETRY Symmetry
INVARIANT NoOrphanedWrite
PROPERTIES BarrierHeld ImplementsHome
