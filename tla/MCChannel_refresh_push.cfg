SPECIFICATION Spec
CONSTANTS
  Cfg <- FrequentRefresh
  CmdSlotCycles = 2
  Ranks = {0, 1}
  Groups = {0, 1}
  BankIds = {0}
  Rows = {0, 1}
  StarvationLimit = 16
  PagematchLimit = 4
  Requests <- TwoRanks
  Arrivals = {0, 8, 14}
  InOrderArrivals = TRUE
  Admissions = {0, 1, 2, 3}
INVARIANTS
  NoActInRefresh
CHECK_DEADLOCK FALSE
