SPECIFICATION Spec
CONSTANTS
  Size = 4
  Watermark = 4
  TextCeiling = 2
  Holdoff = 2
  Flush = 1
  Sync = 1
  StopMax = 1
  Opening = 1
  MaxRows = 3
  Passes = 3
  Loss = 4
INVARIANTS
  RingInOrder
  RowsKept
PROPERTIES
  KeepsPromise
  StopEnds
CHECK_DEADLOCK FALSE
