SPECIFICATION CollectorSpec
CONSTANTS
  Steps = 2
  Queue = 2
  Failures = 2
  ClearEdges = 4
  TargetClocks = 2
  Counts = 4
  MaxFlashes = 1
INVARIANTS
  CyclesInOrder
PROPERTIES
  PartUsedWell
  Recovers
