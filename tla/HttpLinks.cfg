SPECIFICATION Spec
CONSTANTS
  NLinks = 2
  NExchanges = 1
  HeadUnits = 2
  MaxBody = 1
  MaxAnswer = 3
  MaxWait = 1
  RxCap = 1
  TxCap = 3
  Mss = 2
  UnitsPerPass = 1
INVARIANTS
  FinBehindAll
  LentToOne
  LogGetsFiles
PROPERTIES
  Served
