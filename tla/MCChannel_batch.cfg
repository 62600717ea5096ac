SPECIFICATION Spec
CONSTANTS
  Cfg <- Batch
  CmdSlotCycles = 2
  Ranks = {0}
  Groups = {0, 1}
  BankIds = {0}
  Rows = {0, 1}
  StarvationLimit = 2
  PagematchLimit = 2
  Requests <- Competing
  Arrivals = {0, 5}
  InOrderArrivals = TRUE
  Admissions = {0, 1, 2, 3, 4}
INVARIANTS
  TypeOK
  PlacedWhenKnown
  ColumnSpacing
  RecoveryRespected
  RowCycle
  BudgetCloses
  PagematchCapped
  BatchServesMinimum
  SameRowInOrder
  BoundedOvertaking
CHECK_DEADLOCK FALSE
