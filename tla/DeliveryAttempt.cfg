SPECIFICATION Spec
CONSTANTS
  LastCommand = 2
  LastEvent = 3
  StageLimit = 2
  MaxCrashes = 1
  SealFails = TRUE
CHECK_DEADLOCK FALSE
INVARIANTS
  TypeOK
  SentAtMostOnce
  JournalInOrder
  NothingForgotten
PROPERTY
  RefinesMessageLane
