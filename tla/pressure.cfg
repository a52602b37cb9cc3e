SPECIFICATION Spec
CONSTANTS
  Keys = {"vector_index", "agent_state_a"}
  KeepKeys = {"agent_state_a"}
  Sizes = {1, 2}
  TotalBytes = 2
  RamLimit = 1
  FreeTarget = 0
  SsdBound = 0
INVARIANTS
  TypeOK
  VramWithinTotal
PROPERTIES
  TickEnds
