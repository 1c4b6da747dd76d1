SPECIFICATION DriverSpec
CONSTANTS
  SectorBytes = 4
  ZeroCount = 8
  DmaModes <- None
  NumBlocks = 3
  Backend = "mem"
  ActiveCores <- OneCore
  CommandsUsed <- DriverCommands
  Values <- DriverValues
  ControlBytes <- None
  DmaDirections <- None
  DmaLengths <- None
  LengthBound = 16
  OverflowChecks = TRUE
  Orders <- DataLast
  Counts = {1, 2, 3}
INVARIANTS
  SectorsInOrder
  InterruptsMatchWork
PROPERTIES
  TransferCompletes
