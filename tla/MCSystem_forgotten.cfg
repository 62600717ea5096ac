SPECIFICATION Spec
CONSTANTS
  Cores = {0, 1}
  AxiIds = {0}
  Channels = {0}
  ChannelOf <- OneChannel
  ChunkBytes = 16
  MaxOutstanding = 2
  HistoryWindow = 0
  LatencyBuckets = 16
  Txns <- ThreeBanks
  MaxCalls = 5
  Cfg <- Base
  CmdSlotCycles = 2
  Ranks = {0}
  Groups = {0, 1}
  BankIds = {0, 1}
  Rows = {0, 1}
  StarvationLimit = 16
  PagematchLimit = 4
  Decode <- Interleaved
  Delay <- UpTo60
INVARIANTS
  CommandBusExclusive
CHECK_DEADLOCK FALSE
