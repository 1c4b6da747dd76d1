SPECIFICATION MCSpec
CONSTANTS
  Lo <- None
  Hi <- OneGpio
  ControlWords <- SleepWords
  EnableWords <- IrqWords
  FiqWords <- MailFiq
  Masks <- NoneOrAll
  MailWords <- OneBit
  MaxTasks = 2
INVARIANTS
  TypeOK
  UnreadMeansRung
  WaitIsCounted
PROPERTIES
  SleeperWakes
  MailWakes
  WaitEnds
CHECK_DEADLOCK FALSE
