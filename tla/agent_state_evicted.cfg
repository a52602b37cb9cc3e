SPECIFICATION Spec
CONSTANTS
  Keys = {"vector_index", "agent_state_a", "agent_state_b"}
  KeepKeys = {"agent_state_a", "agent_state_b"}
  Sizes = {1, 2}
  TotalBytes = 2
  RamLimit = 2
  FreeTarget = 0
  SsdBound = 3
INVARIANTS
  SparesCriticalBlocks
