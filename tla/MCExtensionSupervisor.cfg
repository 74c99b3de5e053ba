SPECIFICATION FairSpec
CONSTANTS
  v1 = v1
  v2 = v2
  g1 = g1
  g2 = g2
  NONE = NONE
  Built <- TwoViews
  Watched <- OneView
  HasServer = TRUE
  HasServerBuild = TRUE
  CrashBudget = 2
  WatchBudget = 3
  Pgids <- TwoPgids
  MaxWatchStops = 1
INVARIANTS
  TypeOK
  PredecessorsAreKilled
  StateIsTruthful
  WatchOwnsBundle
PROPERTIES
  LiveWatcherKept
  SpawnOnlyWhenBuilt
  ExitIsHandled
  WatcherIsRevived
