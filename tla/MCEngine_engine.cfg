SPECIFICATION FairSpec
CONSTANTS
  Cores = {0}
  AxiIds = {0, 1}
  Channels = {0, 1}
  ChannelOf <- Interleaved
  ChunkBytes = 4
  MaxOutstanding = 2
  HistoryWindow = 3
  LatencyBuckets = 5
  Txns <- Bursts
  MaxCalls = 4
  QueueDepth = 1
  Delays <- OneMayLag
INVARIANTS
  TypeOK
  EventsHaveWork
  SameIdInOrder
  ServedWhole
  BusTimeShared
  OutstandingCapped
  WindowsExact
  WaitExact
  PercentilesAccurate
  BarrierRespected
  NothingForgotten
PROPERTIES
  RunReturns
  ImplementsCalls
