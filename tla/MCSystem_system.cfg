SPECIFICATION Spec
CONSTANTS
  Cores = {0, 1}
  AxiIds = {0}
  Channels = {0}
  ChannelOf <- OneChannel
  ChunkBytes = 16
  MaxOutstanding = 2
  HistoryWindow = 0
  LatencyBuckets = 16
  Txns <- Bursts
  MaxCalls = 4
  Cfg <- Base
  CmdSlotCycles = 2
  Ranks = {0}
  Groups = {0, 1}
  BankIds = {0, 1}
  Rows = {0, 1}
  StarvationLimit = 1
  PagematchLimit = 4
  Decode <- Interleaved
  Delay <- UpTo60
INVARIANTS
  BarrierReachesDram
PROPERTIES
  ImplementsEngine
CHECK_DEADLOCK FALSE
