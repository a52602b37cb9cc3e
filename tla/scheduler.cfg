SPECIFICATION Spec
CONSTANTS
  Engines = {"llm", "vector"}
  Policies <- MCPolicies
  Targets = {50, 70}
  Occupancies = {0, 70, 100}
  MaxLoops = 3
  MaxTimeouts = 1
  TickBound = 2
INVARIANTS
  TypeOK
  LoopsBounded
  SharesNormalized
PROPERTIES
  OrderKept
  NoneStarves
  LoopsEnd
  TicksGoOn
