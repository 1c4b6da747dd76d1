SPECIFICATION Spec
CONSTANTS
  SectorBytes = 4
  ZeroCount = 2
  DmaModes <- SmallDmaModes
  NumBlocks = 3
  Backend = "raw"
  ActiveCores <- TwoCores
  CommandsUsed <- PioCommands
  Values <- FewValues
  ControlBytes <- None
  DmaDirections <- None
  DmaLengths <- None
  LengthBound = 16
  OverflowChecks = TRUE
INVARIANTS
  NoLostEdge
CHECK_DEADLOCK FALSE
