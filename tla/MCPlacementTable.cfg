SPECIFICATION TableSpec
CONSTANTS
  Partitions = {p1, p2}
  Placements = {A, B}
  NoPlacement = None
  Clients = {c1, c2}
  MaxEpoch = 5
SYMMETRY Symmetry
INVARIANTS GateSound StampsUnique
