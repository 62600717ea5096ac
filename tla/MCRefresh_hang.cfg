SPECIFICATION FairSpec
CONSTANTS
  Cfg <- NoRefresh
  CmdSlotCycles = 2
  Entries <- FirstDue
PROPERTIES
  LoopEnds
CHECK_DEADLOCK FALSE
