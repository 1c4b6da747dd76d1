SPECIFICATION Spec
CONSTANTS
  SectorBytes = 2
  ZeroCount = 3
  DmaModes <- SmallDmaModes
  NumBlocks = 2
  Backend = "mem"
  ActiveCores <- OneCore
  CommandsUsed <- Commands
  Values <- AllValues
  ControlBytes <- NoBits
  DmaDirections <- AnyDirection
  DmaLengths <- ZeroLength
  LengthBound = 16
  OverflowChecks = TRUE
INVARIANTS
  DriveSound
  NoLostEdge
PROPERTIES
  ImplementsStream
CHECK_DEADLOCK FALSE
