SPECIFICATION FairSpec
CONSTANTS
  Handles <- SplitHandles
  Lines <- SplitLines
  Threads <- SplitThreads
  LineOf <- SplitLineOf
  ThreadOf <- SplitThreadOf
  Uses <- SplitUses
  Kind = "Edge"
INVARIANTS NoPanic
PROPERTIES SettledIsSeen KeepsPromise
