SPECIFICATION MCSpec
CONSTANTS
  Reqs <- TwoReqs
  Null = "null"
  Completing = TRUE
  FileObjs <- TwoFiles
  Paths <- TwoPaths
  Sizes <- SmallSizes
  Boot <- SmallBoot
  Word = 16
  HeapStart = 1
  HeapEnd = 9
  Buttons <- ThreeButtons
  IdOf <- ButtonIds
  Wrap = 5
  MaxCalls = 3
  MaxOpens = 3
INVARIANTS
  TypeOK
  PendingIsQueued
  OwnFile
  BlocksApart
  BeliefIsPrev
PROPERTIES
  CompletionRuns
  FramesResume
  InputArrives
CHECK_DEADLOCK FALSE
