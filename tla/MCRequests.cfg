SPECIFICATION RequestsSpec
CONSTANTS
  None = None
  Clients = {c1}
  Indices = {"i"}
  Partitions <- MCPartitions
  Ids <- MCIds
  AutoIds <- MCAutoIds
  Deployments <- MCDeployments
  MaxEpoch = 3
INVARIANTS Isolation LogicalView CursorsHold SlotsConsistent PitDeleteTruthful
PROPERTIES OwnWritesOnly Answered
CHECK_DEADLOCK FALSE
