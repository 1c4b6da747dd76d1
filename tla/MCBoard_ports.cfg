SPECIFICATION MCSpec
CONSTANTS
  None = None
  Parts = {"gpio"}
  Lines <- PairLines
  PortOf <- PairPortOf
  Keys <- OneKey
  Scrolls <- Notches
  MaxScrolls = 3
  Bytes <- TwoRegisters
  Lens <- OneOrTwo
  BusAddrs = {8, 9}
  MaxAccesses = 2
  Window <- Near
  HighBytes = {0}
  CommandBytes <- Settings
  DataBytes <- Turnover
  CgramHeight = 3
  BelowZero = 63
  PointAddrs = {0}
  MaxPoints = 2
  Width = 4
  Height = 4
  Quads <- Turns
  Sources <- Colours
  Grounds <- Cleared
INVARIANTS WiredOr
CHECK_DEADLOCK FALSE
