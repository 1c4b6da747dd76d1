SPECIFICATION Spec
CONSTANTS
  Handles <- TimerHandles
  Lines <- TimerLines
  Threads <- TimerThreads
  LineOf <- TimerLineOf
  ThreadOf <- TimerThreadOf
  Uses <- TimerUses
  Kind = "Hi"
INVARIANT NoPanic
