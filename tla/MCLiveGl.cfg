SPECIFICATION MCSpec
CONSTANTS
  Names <- TwoNames
  Pointers <- OnePointer
  Sizes <- TwoSizes
  Sources <- OneSource
  MinColumns = 1
  MaxUv = 2
  SolidName = "sprite"
  MaxFrames = 3
  MaxPasses = 1
  MaxUploads = 3
  MaxDraws = 4
  MaxChars = 2
INVARIANTS
  TypeOK
  OneFramePicture
PROPERTIES
  IdleKeepsPicture
  TextureStays
CHECK_DEADLOCK FALSE
