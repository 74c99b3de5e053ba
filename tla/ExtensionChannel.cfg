SPECIFICATION FairSpec
CONSTANTS
  Rpcs = {r1, r2}
  MailboxSize = 1
  StdinSize = 1
  MaxPending = 1
  MaxGen = 4
INVARIANTS TypeOK RoutedToAnnounced
PROPERTIES RpcEnds
CHECK_DEADLOCK FALSE
