SPECIFICATION Spec
CONSTANTS
  Cfg <- ClosedPage
  CmdSlotCycles = 2
  Ranks = {0}
  Groups = {0, 1}
  BankIds = {0, 1}
  Rows = {0}
  StarvationLimit = 16
  PagematchLimit = 4
  Requests <- ThreeBanks
  Arrivals = {0}
  InOrderArrivals = TRUE
  Admissions = {0, 1, 2, 3, 4}
INVARIANTS
  RecoveryRespected
  ActivateSpacing
CHECK_DEADLOCK FALSE
