SPECIFICATION Spec
CONSTANTS
  Sites = {padA, padB}
  NoSite = none
  Air = air
  Dwell = 1
  MaxRestarts = 1
  MaxCarries = 1
  MaxPlugs = 2
INVARIANTS
  RecordTells
  ApogeeDeclared
PROPERTIES
  RecordSettles
CHECK_DEADLOCK FALSE
