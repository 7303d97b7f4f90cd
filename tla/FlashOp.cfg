SPECIFICATION Spec
CONSTANTS
  Callers = {"storage", "net"}
  Writer = "storage"
  Erase = 4
  ParkMax = 15
  Suspends = TRUE
INVARIANTS
  XipSafe
  LockoutSound
PROPERTIES
  DoneIsDone
  LockoutEnds
