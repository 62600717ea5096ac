SPECIFICATION FairApiSpec
CONSTANTS
  Cores = {0}
  AxiIds = {0, 1}
  MaxCalls = 4
  Threads = {t1, t2}
  Files <- Logs
INVARIANTS
  NothingLost
  ReportedOnce
  LogLoadedWhole
PROPERTIES
  EverythingReported
CHECK_DEADLOCK FALSE
