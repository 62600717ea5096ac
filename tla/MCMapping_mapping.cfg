SPECIFICATION Spec
CONSTANTS
  AddressBits = 8
  Defaults <- StructDefaults
  DramPresets <- Parts
  Files <- AllFiles
  Ranges <- SomeRanges
  MaxTrackedHighRegions = 3
  MaxPushes = 2
INVARIANTS
  EveryLocationOnce
  AliasingReported
  PresetFillsDram
CHECK_DEADLOCK FALSE
