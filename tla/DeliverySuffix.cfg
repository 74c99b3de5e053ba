SPECIFICATION FairSpec
CONSTANTS
  LastCommand = 1
  LastEvent = 2
  StageLimit = 2
  SealFails = FALSE
  MaxCrashes = 0
CHECK_DEADLOCK FALSE
PROPERTY
  AcceptedLaneIsReleased
