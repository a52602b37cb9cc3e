SPECIFICATION Spec
CONSTANTS
  v = v
  w = w
  Keys = {"vector_index", "agent_state_a"}
  KeepKeys = {"agent_state_a"}
  Sizes = {1, 2, 3}
  TotalBytes = 1
  RamLimit = 3
  FreeTarget = 0
  SsdBound = 0
  Vectors <- MCVectors
  Ids = {0, 1, 2}
  MaxRows = 3
  BuildMin = 2
  FaissAvailable = TRUE
  Cuda = TRUE
  NoIndex = NoIndex
SYMMETRY Exchange
INVARIANTS
  TypeOK
  SearchFaithful
  BlockGivenBack
  VramWithinTotal
  RamAccounted
PROPERTIES
  RefinesStore
  SpilledDataKept
