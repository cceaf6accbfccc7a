SPECIFICATION SinkSpec
CONSTANTS
  Requests = {r1}
  Clusters = {c1}
  None = None
  Threshold = 2
  Cooldown = 2
  Timeout = 1
PROPERTY DispatchBounded
