SPECIFICATION Spec
CONSTANTS
  a = a
  b = b
  Calls = {a, b}
  Operations <- MCOperations
  Payloads <- MCPayloads
  Settings <- MCSettings
  MaxBytes = 1
  LaneLimit = 1
  Width = 2
  RetryLimit = 1
  MaxConns = 2
  MaxRestarts = 1
INVARIANTS TypeOK RunsOnce OneServerPerCall AnswerIsItsOwn
PROPERTIES RefinesCommandService
CHECK_DEADLOCK FALSE
