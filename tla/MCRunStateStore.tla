-------------------------- MODULE MCRunStateStore --------------------------
(* Model checking of RunStateStore: an extension's actor, which records a  *)
(* server, watchers and builds, beside a detached build of its views.      *)
EXTENDS RunStateStore, TLC

CONSTANTS server, watch, build, actor, viewsBuild, g1, g2

ThreeSlots == {server, watch, build}
WatchSlot == {watch}
TwoWriters == {actor, viewsBuild}
TwoGroups == {g1, g2}
ActorAndBuild ==
  {<<actor, server>>, <<actor, watch>>, <<actor, build>>, <<viewsBuild, build>>}

Symmetry == Permutations(TwoGroups)
=============================================================================
