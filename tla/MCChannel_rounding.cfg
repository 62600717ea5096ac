SPECIFICATION Spec
CONSTANTS
  Cfg <- HalfNanoseconds
  CmdSlotCycles = 2
  Ranks = {0}
  Groups = {0, 1}
  BankIds = {0}
  Rows = {0, 1}
  StarvationLimit = 16
  PagematchLimit = 4
  Requests <- TwoGroups
  Arrivals = {0, 7}
  InOrderArrivals = TRUE
  Admissions = {0, 1, 2, 3}
INVARIANTS
  RecoveryRespected
CHECK_DEADLOCK FALSE
