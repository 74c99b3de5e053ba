SPECIFICATION FairSpec
CONSTANTS
  MaxRev = 2
  MaxWidth = 2
  MaxEvents = 3
INVARIANTS TypeOK
PROPERTIES NeverBackwards CatchesUp
CHECK_DEADLOCK FALSE
