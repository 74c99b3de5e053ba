SPECIFICATION FairSpec
CONSTANTS
  Messages = {m1, m2}
  Compactions = {c}
  NoEntry = NoEntry
  MaxFaults = 1
INVARIANTS TypeOK NothingSentIsDrivable OneDriver
PROPERTY Drains
CHECK_DEADLOCK FALSE
