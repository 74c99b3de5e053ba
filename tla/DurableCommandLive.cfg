SPECIFICATION FairSpec
CONSTANTS
  a = a
  b = b
  Calls = {a}
  Operations <- MCOperations
  Payloads <- MCPayloads
  Settings <- MCSameCommand
  MaxBytes = 1
  LaneLimit = 1
  Width = 2
  RetryLimit = 1
  MaxConns = 3
  MaxRestarts = 1
PROPERTIES CallEnds
CHECK_DEADLOCK FALSE
