SPECIFICATION Spec
CONSTANTS
  server = server
  watch = watch
  build = build
  actor = actor
  viewsBuild = viewsBuild
  g1 = g1
  g2 = g2
  NONE = NONE
  Empty = Empty
  Torn = Torn
  Slots <- ThreeSlots
  Shared <- WatchSlot
  Writers <- TwoWriters
  Roles <- ActorAndBuild
  Groups <- TwoGroups
  DeathSignal = FALSE
CHECK_DEADLOCK FALSE
SYMMETRY Symmetry
INVARIANTS
  TypeOK
  TornByOverlapOnly
PROPERTIES
  OrphansAreSwept
  StrangersSpared
