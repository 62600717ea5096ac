SPECIFICATION FairSpec
CONSTANTS
  Specs <- SomeSpecs
  MaxThreads = 3
  Accepts <- Loads
  Metric <- Bandwidth
INVARIANTS
  EveryRowItsPoint
PROPERTIES
  SweepReports
CHECK_DEADLOCK FALSE
