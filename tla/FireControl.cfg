SPECIFICATION Spec
CONSTANTS
  Wrap = 1000
  Start = 4
  Horizon = 12
  MaxLag = 1
  Backdate = 1
  PulseMin = 1
  PulseMax = 1
  FireGap = 3
  Interval = 4
  Delay = 2
  Starts = {"APOGEE"}
INVARIANTS
  DelayKept
  ServedInTime
  NoFireRefused
  GapKeptForward
PROPERTIES
  RefireSpaced
CHECK_DEADLOCK FALSE
