--------------------- MODULE ExtensionSupervisor_proofs ---------------------
(***************************************************************************)
(* Proofs about ExtensionSupervisor, for every extension: any finite sets  *)
(* of views, any crash budget, any number of process groups and of watch   *)
(* sessions.                                                               *)
(*                                                                         *)
(* The server part (ServerOK) and the watch part (WatchOK) of the          *)
(* invariant are inductive together; each action is treated once for each. *)
(* The lemmas of the first section say what the helpers of the start       *)
(* sequence leave behind, so that the actions that end in them share it.   *)
(***************************************************************************)
EXTENDS ExtensionSupervisor, FiniteSetTheorems, TLAPS

\* What the actor may be awaiting, and for whom.
OpShape ==
  /\ op \in [at : {"idle", "serverBuild", "viewBuild", "gateBuild", "stop", "watchStop"},
             then : {"none", "start", "manual", "stop", "restart", "rebuild"},
             view : Views \cup {NONE}, todo : SUBSET Views]
  /\ op.at = "idle" => op.then = "none"
  /\ op.at = "serverBuild" => op.then \in {"start", "manual"}
  /\ op.at = "viewBuild" => op.then = "start" /\ op.view \in Views
  /\ op.at = "gateBuild" => op.then = "none" /\ op.view \in Views
  /\ op.at = "stop" => op.then \in {"stop", "restart", "rebuild"}
  /\ op.at = "watchStop" => op.then = "none"

CrashesOK == crashes \in Nat /\ crashes < CrashBudget /\ backoff \in BOOLEAN

\* The server half of the inductive invariant.
ServerOK ==
  /\ state \in Lifecycle
  /\ leader \in {"none", "live", "clean", "crashed"}
  /\ pgid \in Pgids \cup {NONE} /\ groups \subseteq Pgids /\ dying \subseteq groups
  /\ CrashesOK
  /\ OpShape
  /\ PredecessorsAreKilled
  /\ StateIsTruthful

DiskOK ==
  /\ serverBuilt \in BOOLEAN /\ serverBuildFailed \in BOOLEAN
  /\ entries \subseteq Views /\ failedViews \subseteq Views

TaskShape ==
  /\ task \in [status : {"idle", "running", "done"}, view : Views \cup {NONE},
               todo : SUBSET Views, done : SUBSET Views, failed : Views \cup {NONE}]
  /\ task.status = "running" => task.view \in Views

WatchTypes ==
  /\ watchEnabled \in BOOLEAN /\ watchFailed \in BOOLEAN
  /\ watchers \in [Watched -> {"none", "live", "exited"}]
  /\ watchCrashes \in Nat /\ watchCrashes < WatchBudget /\ watchBackoff \in BOOLEAN

\* A report of the current generation is about a child that exited; while
\* the watch is being stopped there is none.
ReportsOK ==
  /\ watchGen \in Nat
  /\ op.at = "watchStop" => watchGen > 0
  /\ watchExits \subseteq [gen : Nat, view : Watched]
  /\ \A m \in watchExits :
       /\ m.gen <= watchGen
       /\ m.gen = watchGen => op.at # "watchStop" /\ watchers[m.view] = "exited"

\* WatchOwnsBundle, with the views the two builders have still to take.
OwnershipOK ==
  /\ op.at = "watchStop" => ~watchEnabled
  /\ op.at = "gateBuild" => ~watchEnabled /\ task.status = "idle"
  /\ watchEnabled /\ op.at = "viewBuild" => \A v \in Watched : v # op.view /\ v \notin op.todo
  /\ watchEnabled /\ task.status = "running" =>
       \A v \in Watched : v # task.view /\ v \notin task.todo

\* The watch half of the inductive invariant.
WatchOK == WatchTypes /\ ReportsOK /\ OwnershipOK /\ WatchKeptAlive

IInv == ServerOK /\ DiskOK /\ TaskShape /\ WatchOK

\* Where a start sequence that has the views of B to build leaves the actor.
InSequence(B) ==
  /\ op.at \in {"idle", "serverBuild", "viewBuild"}
  /\ op.at = "viewBuild" => op.view \in B /\ op.todo \subseteq B

-----------------------------------------------------------------------------
(* The helpers of the start sequence.                                      *)

\* record_crash ends in BackingOff with the timer armed or in Failed.
LEMMA RecordCrashEffect ==
  ASSUME CrashesOK, RecordCrash
  PROVE  /\ CrashesOK'
         /\ \/ state' = "BackingOff" /\ backoff' = TRUE
            \/ state' = "Failed" /\ backoff' = FALSE
<1>1. PICK kept \in 0 .. crashes :
           \/ /\ kept + 1 < CrashBudget
              /\ state' = "BackingOff" /\ crashes' = kept + 1 /\ backoff' = TRUE
           \/ /\ kept + 1 >= CrashBudget
              /\ state' = "Failed" /\ crashes' = 0 /\ backoff' = FALSE
  BY DEF RecordCrash
<1>2. crashes' \in Nat /\ crashes' < CrashBudget
  BY <1>1, SupervisorAssumption DEF CrashesOK
<1>3. backoff' \in BOOLEAN
  BY <1>1
<1>4. QED
  BY <1>1, <1>2, <1>3 DEF CrashesOK

\* spawn_child over killed survivors leaves one instance that is not killed, or
\* none and a crash.
LEMMA SpawnChildEffect ==
  ASSUME CrashesOK, NEW left \in SUBSET Pgids, dying' = left, SpawnChild(left), op' = Idle
  PROVE  ServerOK'
<1>1. OpShape'
  BY DEF OpShape, Idle
<1>2. CASE /\ \E g \in Pgids \ (left \cup {pgid}) : pgid' = g /\ groups' = left \cup {g}
           /\ leader' = "live" /\ state' = "Running"
           /\ backoff' = FALSE /\ UNCHANGED crashes
  BY <1>1, <1>2 DEF ServerOK, CrashesOK, PredecessorsAreKilled, StateIsTruthful, Lifecycle, Idle
<1>3. CASE NoChild(left) /\ RecordCrash
  BY <1>1, <1>3, RecordCrashEffect, SupervisorAssumption
     DEF ServerOK, PredecessorsAreKilled, StateIsTruthful, Lifecycle, Idle, NoChild
<1>4. QED
  BY <1>2, <1>3 DEF SpawnChild

\* The view builds of start_flow suspend the actor on a view of "todo", or
\* end with the spawn.
LEMMA ViewsThenSpawnEffect ==
  ASSUME CrashesOK, NEW left \in SUBSET Pgids, dying' = left,
         NEW todo \in SUBSET Views, ViewsThenSpawn(todo, left)
  PROVE  ServerOK' /\ InSequence(todo)'
<1> DEFINE needed == {v \in todo : v \in failedViews' \/ v \notin entries'}
<1>1. CASE op' = Idle /\ HasServer /\ SpawnChild(left)
  BY <1>1, SpawnChildEffect DEF InSequence, Idle
<1>2. CASE /\ op' = Idle
           /\ NoChild(left) /\ state' = "Stopped" /\ backoff' = FALSE /\ UNCHANGED crashes
  BY <1>2, SupervisorAssumption DEF ServerOK, CrashesOK, OpShape, PredecessorsAreKilled, StateIsTruthful,
              Lifecycle, Idle, NoChild, InSequence
<1>3. ASSUME NEW v \in needed,
             op' = Await("viewBuild", "start", v, todo \ {v}),
             state' = "Building", backoff' = FALSE, UNCHANGED crashes, NoChild(left)
      PROVE  ServerOK' /\ InSequence(todo)'
  BY <1>3, SupervisorAssumption DEF ServerOK, CrashesOK, OpShape, PredecessorsAreKilled, StateIsTruthful,
              Lifecycle, Await, NoChild, InSequence
<1>4. QED
  BY <1>1, <1>2, <1>3 DEF ViewsThenSpawn

\* start_flow, when what is left of earlier instances is killed.
LEMMA StartFlowEffect ==
  ASSUME CrashesOK, NEW left \in SUBSET Pgids, dying' = left,
         NEW rebuild, NEW B, B = Buildable, StartFlow(rebuild, left)
  PROVE  ServerOK' /\ InSequence(B)' /\ UNCHANGED <<diskVars, failVars>>
<1>1. B \in SUBSET Views
  BY DEF Buildable, Views
<1>2. CASE /\ op' = Await("serverBuild", "start", NONE, {})
           /\ state' = "Building" /\ backoff' = FALSE /\ UNCHANGED crashes
           /\ NoChild(left)
  BY <1>2, SupervisorAssumption
     DEF ServerOK, CrashesOK, OpShape, PredecessorsAreKilled, StateIsTruthful,
              Lifecycle, Await, NoChild, InSequence, StartFlow
<1>3. CASE ViewsThenSpawn(B, left)
  BY <1>1, <1>3, ViewsThenSpawnEffect DEF StartFlow
<1>4. QED
  BY <1>2, <1>3 DEF StartFlow
-----------------------------------------------------------------------------
(* The server half, action by action.                                      *)

\* What a start sequence has to build are views of the manifest.
LEMMA BuildableIsViews == Buildable \in SUBSET Views
BY DEF Buildable, Views

\* The actions that end in a start sequence start it over killed survivors.
LEMMA ServerStartSteps ==
  ASSUME ServerOK,
         \/ \E rebuild \in BOOLEAN : Start(rebuild) \/ RestartWithoutChild(rebuild)
         \/ BackoffFires
         \/ FinishStop
         \/ \E ok \in BOOLEAN : ServerBuildDone(ok)
         \/ \E outcome \in BuildOutcome : ViewBuildDone(outcome)
  PROVE  ServerOK'
<1> USE DEF ServerOK
<1>1. PICK B : B = Buildable
  OBVIOUS
<1>2. ASSUME op = Idle, state # "Running"  PROVE  groups = dying
  BY <1>2 DEF PredecessorsAreKilled, StateIsTruthful, Idle
<1>3. ASSUME NEW rebuild, Start(rebuild)  PROVE  ServerOK'
  <2>1. StartFlow(rebuild, groups) /\ groups = dying'
    BY <1>2, <1>3 DEF Start
  <2>2. QED
    BY <1>1, <2>1, StartFlowEffect
<1>4. ASSUME NEW rebuild, RestartWithoutChild(rebuild)  PROVE  ServerOK'
  <2>1. StartFlow(rebuild, groups) /\ groups = dying'
    BY <1>4 DEF RestartWithoutChild, PredecessorsAreKilled
  <2>2. QED
    BY <1>1, <2>1, StartFlowEffect
<1>5. CASE BackoffFires
  <2>1. StartFlow(FALSE, groups) /\ groups = dying'
    BY <1>2, <1>5 DEF BackoffFires, StateIsTruthful
  <2>2. QED
    BY <1>1, <2>1, StartFlowEffect
<1>6. CASE FinishStop
  <2>1. PICK left \in {groups, groups \ {pgid}} :
          AfterStop(left) /\ dying' = (dying \cup {pgid}) \cap left
    BY <1>6 DEF FinishStop
  <2>2. left \in SUBSET Pgids /\ dying' = left
    BY <2>1 DEF PredecessorsAreKilled
  <2>3. CASE /\ op' = Idle /\ state' = "Stopped" /\ NoChild(left)
             /\ UNCHANGED crashVars
    <3>1. backoff' # TRUE
      BY <1>6, <2>3 DEF FinishStop, StateIsTruthful, crashVars
    <3>2. QED
      BY <2>2, <2>3, <3>1, SupervisorAssumption
         DEF CrashesOK, OpShape, PredecessorsAreKilled, StateIsTruthful,
             Lifecycle, Idle, NoChild, crashVars
  <2>4. ASSUME NEW rebuild, StartFlow(rebuild, left)  PROVE  ServerOK'
    BY <1>1, <2>2, <2>4, StartFlowEffect
  <2>5. QED
    BY <2>1, <2>3, <2>4 DEF AfterStop
<1>7. ASSUME NEW ok, ServerBuildDone(ok)  PROVE  ServerOK'
  <2>1. CASE op.then = "start" /\ ok /\ ViewsThenSpawn(Buildable, groups)
    <3>1. groups = dying'
      BY <1>7, <2>1 DEF ServerBuildDone, PredecessorsAreKilled, StateIsTruthful
    <3>2. QED
      BY <2>1, <3>1, ViewsThenSpawnEffect, BuildableIsViews
  <2>2. CASE op.then = "start" /\ FailBuild
    BY <1>7, <2>2 DEF ServerBuildDone, FailBuild, CrashesOK, OpShape, PredecessorsAreKilled,
                      StateIsTruthful, Lifecycle, Idle, serverVars, crashVars
  <2>3. CASE /\ op.then = "manual" /\ op' = Idle
             /\ state' = IF ok /\ state = "Failed" THEN "Stopped" ELSE state
             /\ UNCHANGED <<serverVars, crashVars>>
    BY <1>7, <2>3 DEF ServerBuildDone, CrashesOK, OpShape, PredecessorsAreKilled,
                      StateIsTruthful, Lifecycle, Idle, serverVars, crashVars
  <2>4. QED
    BY <1>7, <2>1, <2>2, <2>3 DEF ServerBuildDone
<1>8. ASSUME NEW outcome, ViewBuildDone(outcome)  PROVE  ServerOK'
  <2>1. groups = dying' /\ op.todo \in SUBSET Views
    BY <1>8 DEF ViewBuildDone, PredecessorsAreKilled, StateIsTruthful, OpShape
  <2>2. CASE ViewsThenSpawn(op.todo, groups)
    BY <2>1, <2>2, ViewsThenSpawnEffect
  <2>3. CASE FailBuild
    BY <1>8, <2>3 DEF ViewBuildDone, FailBuild, CrashesOK, OpShape, PredecessorsAreKilled,
                      StateIsTruthful, Lifecycle, Idle, serverVars, crashVars
  <2>4. QED
    BY <1>8, <2>2, <2>3 DEF ViewBuildDone
<1>9. QED
  BY <1>3, <1>4, <1>5, <1>6, <1>7, <1>8

\* The other actions of the server and of the builds.
LEMMA ServerOtherSteps ==
  ASSUME ServerOK,
         \/ StopWithoutChild
         \/ \E then \in {"stop", "restart", "rebuild"} : BeginStop(then)
         \/ \E how \in {"clean", "crashed"} : ServerExits(how)
         \/ \E g \in Pgids : GroupGone(g)
         \/ UnpromptedExit
         \/ ServerBuild
         \/ \E outcome \in BuildOutcome : TaskBuildDone(outcome)
         \/ ViewsBuild
         \/ FinishViewsBuild
  PROVE  ServerOK'
<1> USE DEF ServerOK, PredecessorsAreKilled, StateIsTruthful, Lifecycle
<1>1. CASE StopWithoutChild
  BY <1>1, SupervisorAssumption DEF StopWithoutChild, CrashesOK, OpShape, Idle
<1>2. ASSUME NEW then \in {"stop", "restart", "rebuild"}, BeginStop(then)
      PROVE  ServerOK'
  BY <1>2 DEF BeginStop, CrashesOK, OpShape, Idle, Await, serverVars
<1>3. ASSUME NEW how \in {"clean", "crashed"}, ServerExits(how)  PROVE  ServerOK'
  BY <1>3 DEF ServerExits, CrashesOK, OpShape, crashVars
<1>4. CASE UnpromptedExit
  <2>1. groups' = dying' /\ pgid' = NONE /\ state = "Running" /\ backoff # TRUE
    BY <1>4 DEF UnpromptedExit, NoChild, Idle
  <2>2. CASE state' = "Stopped" /\ UNCHANGED crashVars
    BY <1>4, <2>1, <2>2, SupervisorAssumption DEF UnpromptedExit, NoChild, CrashesOK, OpShape, Idle, crashVars
  <2>3. CASE RecordCrash
    BY <1>4, <2>1, <2>3, RecordCrashEffect, SupervisorAssumption DEF UnpromptedExit, NoChild, OpShape, Idle
  <2>4. QED
    BY <1>4, <2>2, <2>3 DEF UnpromptedExit
<1>5. CASE ServerBuild
  BY <1>5 DEF ServerBuild, CrashesOK, OpShape, Idle, Await, serverVars, crashVars
<1>6. ASSUME NEW outcome, TaskBuildDone(outcome)  PROVE  ServerOK'
  BY <1>6 DEF TaskBuildDone, CrashesOK, OpShape, serverVars, crashVars
<1>7. CASE ViewsBuild
  BY <1>7 DEF ViewsBuild, CrashesOK, OpShape, serverVars, crashVars
<1>8. CASE FinishViewsBuild
  BY <1>8 DEF FinishViewsBuild, CrashesOK, OpShape, Idle, serverVars, crashVars
<1>9. ASSUME NEW g \in Pgids, GroupGone(g)  PROVE  ServerOK'
  BY <1>9 DEF GroupGone, CrashesOK, OpShape, crashVars
<1>10. QED
  BY <1>1, <1>2, <1>3, <1>4, <1>5, <1>6, <1>7, <1>8, <1>9

\* The watch facet leaves the lifecycle alone and gives the actor back.
LEMMA ServerWatchSteps ==
  ASSUME ServerOK,
         \/ WatchStart
         \/ \E outcome \in BuildOutcome : GateBuildDone(outcome)
         \/ \E v \in Watched : WatcherDies(v)
         \/ \E m \in watchExits : WatcherExited(m)
         \/ WatchBackoffFires
         \/ WatchStop
         \/ WatchStopDone
         \/ UNCHANGED vars
  PROVE  ServerOK'
<1> USE DEF ServerOK, PredecessorsAreKilled, StateIsTruthful, CrashesOK, OpShape,
            serverVars, crashVars
<1>1. ASSUME NEW todo \in SUBSET Views, GateThenWatch(todo)
      PROVE  \/ op' = Idle
             \/ \E v \in todo : op' = Await("gateBuild", "none", v, todo \ {v})
  BY <1>1 DEF GateThenWatch
<1>2. CASE WatchStart
  <2>1. Watched \cap Built \in SUBSET Views
    BY DEF Views
  <2>2. QED
    BY <1>1, <1>2, <2>1 DEF WatchStart, Idle, Await
<1>3. ASSUME NEW outcome, GateBuildDone(outcome)  PROVE  ServerOK'
  <2>1. op.todo \in SUBSET Views
    OBVIOUS
  <2>2. QED
    BY <1>1, <1>3, <2>1 DEF GateBuildDone, Idle, Await
<1>4. ASSUME NEW v \in Watched, WatcherDies(v)  PROVE  ServerOK'
  BY <1>4 DEF WatcherDies
<1>5. ASSUME NEW m \in watchExits, WatcherExited(m)  PROVE  ServerOK'
  BY <1>5 DEF WatcherExited
<1>6. CASE WatchBackoffFires
  BY <1>6 DEF WatchBackoffFires
<1>7. CASE WatchStop
  BY <1>7 DEF WatchStop, Idle, Await
<1>8. CASE WatchStopDone
  BY <1>8 DEF WatchStopDone, Idle
<1>9. CASE UNCHANGED vars
  BY <1>9 DEF vars
<1>10. QED
  BY <1>2, <1>3, <1>4, <1>5, <1>6, <1>7, <1>8, <1>9

\* Every step of the actor and of its children preserves the server half.
LEMMA ServerStep == ServerOK /\ [Next]_vars => ServerOK'
BY ServerStartSteps, ServerOtherSteps, ServerWatchSteps DEF Next

-----------------------------------------------------------------------------
(* Disk and detached build.                                                *)

\* The build flags and the entry files are about views of the manifest.
LEMMA DiskStep ==
  ASSUME OpShape, DiskOK, TaskShape, [Next]_vars
  PROVE  DiskOK'
<1> USE DEF DiskOK
<1>1. ASSUME NEW rebuild, NEW left, StartFlow(rebuild, left)  PROVE  DiskOK'
  BY <1>1 DEF StartFlow, diskVars, failVars
<1>2. ASSUME NEW v \in Views, NEW outcome, RecordViewBuild(v, outcome)  PROVE  DiskOK'
  BY <1>2 DEF RecordViewBuild
<1>3. ASSUME NEW ok \in BOOLEAN, ServerBuildDone(ok)  PROVE  DiskOK'
  BY <1>3 DEF ServerBuildDone
<1>4. ASSUME NEW outcome, ViewBuildDone(outcome) \/ GateBuildDone(outcome)  PROVE  DiskOK'
  BY <1>2, <1>4 DEF ViewBuildDone, GateBuildDone, OpShape
<1>5. ASSUME NEW outcome, TaskBuildDone(outcome)  PROVE  DiskOK'
  BY <1>5 DEF TaskBuildDone, TaskShape, failVars
<1>6. CASE FinishViewsBuild
  BY <1>6 DEF FinishViewsBuild, TaskShape, diskVars
<1>7. CASE \/ \E rebuild \in BOOLEAN : Start(rebuild) \/ RestartWithoutChild(rebuild)
           \/ BackoffFires
  BY <1>1, <1>7 DEF Start, RestartWithoutChild, BackoffFires
<1>8. CASE FinishStop
  BY <1>1, <1>8 DEF FinishStop, AfterStop, diskVars, failVars
<1>9. ASSUME ~FinishViewsBuild, UNCHANGED <<diskVars, failVars>>  PROVE  DiskOK'
  BY <1>9 DEF diskVars, failVars
<1>10. QED
  BY <1>3, <1>4, <1>5, <1>6, <1>7, <1>8, <1>9
     DEF Next, StopWithoutChild, BeginStop, ServerExits, GroupGone, UnpromptedExit, ServerBuild,
         ViewsBuild, WatchStart, WatcherDies, WatcherExited, WatchBackoffFires, WatchStop, WatchStopDone,
         vars, diskVars, failVars

\* The detached views build always works on a view of the manifest.
LEMMA TaskStep ==
  ASSUME TaskShape, [Next]_vars
  PROVE  TaskShape'
<1> USE DEF TaskShape
<1>1. ASSUME NEW todo \in SUBSET Views, NEW done \in SUBSET Views, NextTaskView(todo, done)
      PROVE  TaskShape'
  BY <1>1 DEF NextTaskView, Building, Finished
<1>2. ASSUME NEW outcome, TaskBuildDone(outcome)  PROVE  TaskShape'
  <2>1. task.todo \in SUBSET Views /\ task.done \cup {task.view} \in SUBSET Views
    BY <1>2 DEF TaskBuildDone
  <2>2. CASE task' = Finished(task.done, task.view)
    BY <2>1, <2>2 DEF Finished
  <2>3. QED
    BY <1>1, <1>2, <2>1, <2>2 DEF TaskBuildDone
<1>3. CASE ViewsBuild
  BY <1>1, <1>3, BuildableIsViews DEF ViewsBuild
<1>4. CASE FinishViewsBuild
  BY <1>4 DEF FinishViewsBuild, NoTask
<1>5. CASE UNCHANGED task
  BY <1>5
<1>6. QED
  BY <1>2, <1>3, <1>4, <1>5
     DEF Next, Start, RestartWithoutChild, StopWithoutChild, BeginStop, FinishStop, AfterStop,
         ServerExits, GroupGone, UnpromptedExit, BackoffFires, ServerBuild, ServerBuildDone,
         ViewBuildDone, GateBuildDone, WatchStart, WatcherDies, WatcherExited,
         WatchBackoffFires, WatchStop, WatchStopDone, vars

-----------------------------------------------------------------------------
(* The watch half.                                                         *)

\* What is left to show for an action that does not touch the watch, except
\* that crashes of it may leave the window.
LEMMA WatchFrame ==
  ASSUME WatchOK, UNCHANGED watchFacet, LongAwait \/ UNCHANGED watchCrashes, OwnershipOK',
         op.at = "watchStop" <=> op'.at = "watchStop"
  PROVE  WatchOK'
<1>1. watchCrashes' \in Nat /\ watchCrashes' < WatchBudget
  BY SupervisorAssumption DEF WatchOK, WatchTypes, LongAwait
<1>2. QED
  BY <1>1 DEF WatchOK, WatchTypes, ReportsOK, WatchKeptAlive, SessionGen, watchFacet

\* A start sequence leaves an enabled watch its views.
LEMMA SequenceKeepsOwnership ==
  ASSUME OwnershipOK, NEW B, UNCHANGED <<task, watchEnabled>>, InSequence(B)',
         watchEnabled => \A v \in Watched : v \notin B
  PROVE  OwnershipOK' /\ op'.at # "watchStop"
BY DEF OwnershipOK, InSequence

\* The steps of the server and of the builds leave the watch its views.
LEMMA WatchServerSteps ==
  ASSUME ServerOK, TaskShape, WatchOK,
         \/ \E rebuild \in BOOLEAN : Start(rebuild) \/ RestartWithoutChild(rebuild)
         \/ BackoffFires
         \/ FinishStop
         \/ \E ok \in BOOLEAN : ServerBuildDone(ok)
         \/ \E outcome \in BuildOutcome : ViewBuildDone(outcome)
  PROVE  WatchOK'
<1>1. PICK B : B = Buildable
  OBVIOUS
<1>2. watchEnabled => \A v \in Watched : v \notin B
  BY <1>1 DEF Buildable
<1>3. CrashesOK
  BY DEF ServerOK
<1>4. ASSUME NEW rebuild, NEW left \in SUBSET Pgids, dying' = left, StartFlow(rebuild, left),
             UNCHANGED <<task, watchFacet>>, LongAwait \/ UNCHANGED watchCrashes,
             op.at # "watchStop"
      PROVE  WatchOK'
  BY <1>1, <1>2, <1>3, <1>4, StartFlowEffect, SequenceKeepsOwnership, WatchFrame
     DEF WatchOK, watchFacet
<1>5. ASSUME NEW todo \in SUBSET Views, groups = dying', groups \in SUBSET Pgids,
             ViewsThenSpawn(todo, groups),
             UNCHANGED <<task, watchFacet>>, LongAwait,
             op.at # "watchStop", watchEnabled => \A v \in Watched : v \notin todo
      PROVE  WatchOK'
  BY <1>3, <1>5, ViewsThenSpawnEffect, SequenceKeepsOwnership, WatchFrame DEF WatchOK, watchFacet
<1>6. ASSUME op' = Idle, UNCHANGED <<task, watchFacet>>, LongAwait, op.at # "watchStop"
      PROVE  WatchOK'
  BY <1>6, WatchFrame DEF WatchOK, OwnershipOK, Idle, watchFacet
<1>7. groups \in SUBSET Pgids /\ (leader = "none" => groups = dying)
  BY DEF ServerOK, PredecessorsAreKilled
<1>8. op = Idle /\ state # "Running" => groups = dying
  BY DEF ServerOK, PredecessorsAreKilled, StateIsTruthful, Idle
<1>9. ASSUME NEW rebuild, Start(rebuild) \/ RestartWithoutChild(rebuild)  PROVE  WatchOK'
  BY <1>4, <1>7, <1>8, <1>9 DEF Start, RestartWithoutChild, Idle, watchVars
<1>10. CASE BackoffFires
  BY <1>4, <1>7, <1>8, <1>10 DEF BackoffFires, ServerOK, StateIsTruthful, Idle, watchVars
<1>11. CASE FinishStop
  <2>1. PICK left \in {groups, groups \ {pgid}} :
          AfterStop(left) /\ dying' = (dying \cup {pgid}) \cap left
    BY <1>11 DEF FinishStop
  <2>2. left \in SUBSET Pgids /\ dying' = left /\ op.at # "watchStop" /\ LongAwait
    BY <1>11, <2>1 DEF FinishStop, ServerOK, PredecessorsAreKilled
  <2>3. QED
    BY <1>4, <1>6, <2>1, <2>2 DEF AfterStop
<1>12. ASSUME NEW ok, ServerBuildDone(ok)  PROVE  WatchOK'
  <2>1. CASE op.then = "start" /\ ViewsThenSpawn(Buildable, groups)
    <3>1. groups = dying'
      BY <1>7, <1>12, <2>1 DEF ServerBuildDone, ServerOK, StateIsTruthful
    <3>2. B \in SUBSET Views
      BY <1>1, BuildableIsViews
    <3>3. QED
      BY <1>1, <1>2, <1>5, <1>7, <1>12, <2>1, <3>1, <3>2 DEF ServerBuildDone
  <2>2. QED
    BY <1>6, <1>12, <2>1 DEF ServerBuildDone, FailBuild
<1>13. ASSUME NEW outcome, ViewBuildDone(outcome)  PROVE  WatchOK'
  <2>1. groups = dying' /\ op.todo \in SUBSET Views
    BY <1>7, <1>13 DEF ViewBuildDone, ServerOK, StateIsTruthful, OpShape
  <2>2. watchEnabled => \A v \in Watched : v \notin op.todo
    BY <1>13 DEF WatchOK, OwnershipOK, ViewBuildDone
  <2>3. QED
    BY <1>5, <1>6, <1>7, <1>13, <2>1, <2>2 DEF ViewBuildDone, FailBuild
<1>14. QED
  BY <1>9, <1>10, <1>11, <1>12, <1>13

\* So do stop, the exits and the detached views build.
LEMMA WatchOtherSteps ==
  ASSUME ServerOK, TaskShape, WatchOK,
         \/ StopWithoutChild
         \/ \E then \in {"stop", "restart", "rebuild"} : BeginStop(then)
         \/ \E how \in {"clean", "crashed"} : ServerExits(how)
         \/ \E g \in Pgids : GroupGone(g)
         \/ UnpromptedExit
         \/ ServerBuild
         \/ \E outcome \in BuildOutcome : TaskBuildDone(outcome)
         \/ ViewsBuild
         \/ FinishViewsBuild
         \/ UNCHANGED vars
  PROVE  WatchOK'
<1> USE DEF OwnershipOK
<1>1. OwnershipOK
  BY DEF WatchOK
<1>2. ASSUME NEW todo, NEW done, NextTaskView(todo, done), UNCHANGED <<op, watchVars>>,
             op.at # "gateBuild", watchEnabled => \A v \in Watched : v \notin todo
      PROVE  OwnershipOK'
  BY <1>1, <1>2 DEF NextTaskView, Building, Finished, watchVars, watchFacet
<1>3. ASSUME UNCHANGED <<task, watchVars>>, op.at # "watchStop",
             op' = op \/ op'.at \in {"idle", "serverBuild", "stop"}
      PROVE  WatchOK'
  BY <1>1, <1>3, WatchFrame DEF watchVars, watchFacet
<1>4. CASE \/ StopWithoutChild
           \/ \E then \in {"stop", "restart", "rebuild"} : BeginStop(then)
           \/ UnpromptedExit
           \/ ServerBuild
  BY <1>3, <1>4 DEF StopWithoutChild, BeginStop, UnpromptedExit, ServerBuild, Idle, Await
<1>5. CASE \/ UNCHANGED vars
           \/ \E how \in {"clean", "crashed"} : ServerExits(how)
           \/ \E g \in Pgids : GroupGone(g)
  BY <1>1, <1>5, WatchFrame DEF ServerExits, GroupGone, vars, watchVars, watchFacet
<1>6. ASSUME NEW outcome, TaskBuildDone(outcome)  PROVE  WatchOK'
  <2>1. CASE task' = Finished(task.done, task.view)
    BY <1>1, <1>6, <2>1, WatchFrame DEF TaskBuildDone, Finished, watchVars, watchFacet
  <2>2. CASE NextTaskView(task.todo, task.done \cup {task.view})
    <3>1. OwnershipOK'
      BY <1>1, <1>2, <1>6, <2>2 DEF TaskBuildDone
    <3>2. QED
      BY <1>6, <3>1, WatchFrame DEF TaskBuildDone, watchVars
  <2>3. QED
    BY <1>6, <2>1, <2>2 DEF TaskBuildDone
<1>7. CASE ViewsBuild
  <2>1. OwnershipOK'
    BY <1>2, <1>7 DEF ViewsBuild, Buildable, Idle
  <2>2. QED
    BY <1>7, <2>1, WatchFrame DEF ViewsBuild, watchVars
<1>8. CASE FinishViewsBuild
  BY <1>1, <1>8, WatchFrame DEF FinishViewsBuild, NoTask, watchVars, watchFacet
<1>9. QED
  BY <1>4, <1>5, <1>6, <1>7, <1>8

-----------------------------------------------------------------------------
(* The actions of the watch facet.                                         *)

\* record_watch_crash: while the watch stays enabled a respawn is scheduled.
LEMMA WatchCrashedEffect ==
  ASSUME NEW n \in Nat \ {0}, NEW base \in Nat, WatchCrashed(n, base)
  PROVE  /\ watchCrashes' \in Nat /\ watchCrashes' < WatchBudget
         /\ watchEnabled' \in BOOLEAN /\ watchFailed' \in BOOLEAN /\ watchBackoff' \in BOOLEAN
         /\ watchEnabled' => watchBackoff' = TRUE
<1>1. WatchBudget \in Nat \ {0}
  BY SupervisorAssumption
<1>2. watchCrashes' \in Nat /\ watchCrashes' < WatchBudget
  BY <1>1 DEF WatchCrashed
<1>3. base + n < WatchBudget => (base + n) % WatchBudget = base + n
  BY <1>1
<1>4. watchEnabled' \in BOOLEAN /\ watchFailed' \in BOOLEAN /\ watchBackoff' \in BOOLEAN
  BY DEF WatchCrashed
<1>5. ASSUME watchEnabled'  PROVE  watchBackoff' = TRUE
  <2>1. base + n < WatchBudget
    BY <1>5 DEF WatchCrashed
  <2>2. watchCrashes' # 0
    BY <1>3, <2>1 DEF WatchCrashed
  <2>3. QED
    BY <2>2 DEF WatchCrashed
<1>6. QED
  BY <1>2, <1>4, <1>5

\* spawn_watch_children: a view that gets no child gets a respawn.
LEMMA SpawnWatchersEffect ==
  ASSUME WatchTypes, NEW base \in Nat, base < WatchBudget, NEW deadline \in BOOLEAN,
         SpawnWatchers(base, deadline)
  PROVE  /\ WatchTypes'
         /\ \A v \in Watched :
              /\ watchers[v] # "none" => watchers'[v] = watchers[v]
              /\ watchers[v] = "none" => watchers'[v] \in {"none", "live"}
              /\ watchEnabled' /\ watchers'[v] = "none" => watchBackoff'
<1> DEFINE missing == {v \in Watched : watchers[v] = "none"}
<1>1. PICK failing \in SUBSET missing :
        /\ watchers' = [v \in Watched |->
                          IF v \in missing \ failing THEN "live" ELSE watchers[v]]
        /\ \/ failing # {} /\ WatchCrashed(Cardinality(failing), base)
           \/ /\ failing = {}
              /\ watchEnabled' = TRUE /\ watchFailed' = FALSE
              /\ watchCrashes' \in 0 .. base /\ watchBackoff' = deadline
  BY DEF SpawnWatchers
<1>2. IsFiniteSet(failing)
  <2>1. IsFiniteSet(Watched) /\ failing \subseteq Watched
    BY SupervisorAssumption
  <2>2. QED
    BY <2>1, FS_Subset
<1>3. /\ watchers' \in [Watched -> {"none", "live", "exited"}]
      /\ \A v \in Watched :
           /\ watchers[v] # "none" => watchers'[v] = watchers[v]
           /\ watchers[v] = "none" => watchers'[v] \in {"none", "live"}
  BY <1>1 DEF WatchTypes
<1>4. CASE failing # {} /\ WatchCrashed(Cardinality(failing), base)
  <2>1. Cardinality(failing) \in Nat \ {0}
    BY <1>2, <1>4, FS_CardinalityType, FS_EmptySet
  <2>2. QED
    BY <1>3, <1>4, <2>1, WatchCrashedEffect DEF WatchTypes
<1>5. CASE /\ failing = {}
           /\ watchEnabled' = TRUE /\ watchFailed' = FALSE
           /\ watchCrashes' \in 0 .. base /\ watchBackoff' = deadline
  <2>1. \A v \in Watched : watchers'[v] # "none"
    BY <1>1, <1>5 DEF WatchTypes
  <2>2. watchCrashes' \in Nat /\ watchCrashes' < WatchBudget
    BY <1>5, SupervisorAssumption
  <2>3. QED
    BY <1>3, <1>5, <2>1, <2>2 DEF WatchTypes
<1>6. QED
  BY <1>1, <1>4, <1>5

\* Spawning from the mailbox: reports and ownership are as before.
LEMMA SpawnKeepsWatchOK ==
  ASSUME WatchOK, NEW base \in Nat, base < WatchBudget, NEW deadline \in BOOLEAN,
         SpawnWatchers(base, deadline), op' = Idle, UNCHANGED <<task, watchGen, watchExits>>,
         op.at # "watchStop", watchEnabled \/ task.status # "running"
  PROVE  WatchOK'
<1>1. /\ WatchTypes'
      /\ \A v \in Watched :
           /\ watchers[v] # "none" => watchers'[v] = watchers[v]
           /\ watchers[v] = "none" => watchers'[v] \in {"none", "live"}
           /\ watchEnabled' /\ watchers'[v] = "none" => watchBackoff'
  BY SpawnWatchersEffect DEF WatchOK
<1>2. ReportsOK'
  <2>1. \A m \in watchExits : m.view \in Watched
    BY DEF WatchOK, ReportsOK
  <2>2. QED
    BY <1>1, <2>1 DEF WatchOK, ReportsOK, Idle
<1>3. OwnershipOK'
  BY DEF WatchOK, OwnershipOK, Idle
<1>4. WatchKeptAlive'
  <2>1. SessionGen = watchGen /\ SessionGen' = watchGen
    BY DEF SessionGen, Idle
  <2>2. QED
    BY <1>1, <2>1 DEF WatchOK, WatchTypes, WatchKeptAlive
<1>5. QED
  BY <1>1, <1>2, <1>3, <1>4 DEF WatchOK

\* The facet's own actions keep reports, ownership and respawns in order.
LEMMA WatchFacetSteps ==
  ASSUME ServerOK, TaskShape, WatchOK,
         \/ WatchStart
         \/ \E outcome \in BuildOutcome : GateBuildDone(outcome)
         \/ \E v \in Watched : WatcherDies(v)
         \/ \E m \in watchExits : WatcherExited(m)
         \/ WatchBackoffFires
         \/ WatchStop
         \/ WatchStopDone
  PROVE  WatchOK'
<1> USE DEF WatchOK
<1>1. watchBackoff \in BOOLEAN /\ 0 \in Nat /\ 0 < WatchBudget
  BY SupervisorAssumption DEF WatchTypes
<1>2. ASSUME NEW todo, GateThenWatch(todo), UNCHANGED <<task, watchGen, watchExits>>,
             ~watchEnabled, task.status = "idle", op.at # "watchStop"
      PROVE  WatchOK'
  <2>1. CASE op' = Idle /\ SpawnWatchers(0, watchBackoff)
    BY <1>1, <1>2, <2>1, SpawnKeepsWatchOK
  <2>2. ASSUME NEW v \in todo, op' = Await("gateBuild", "none", v, todo \ {v}),
               UNCHANGED <<watchEnabled, watchFailed, watchers, watchCrashes, watchBackoff>>
        PROVE  WatchOK'
    BY <1>2, <2>2, WatchFrame DEF OwnershipOK, Await, watchFacet
  <2>3. QED
    BY <1>2, <2>1, <2>2 DEF GateThenWatch
<1>3. CASE WatchStart
  BY <1>2, <1>3 DEF WatchStart, Idle
<1>4. ASSUME NEW outcome, GateBuildDone(outcome)  PROVE  WatchOK'
  <2>1. op.at = "gateBuild" /\ ~watchEnabled /\ task.status = "idle"
    BY <1>4 DEF GateBuildDone, OwnershipOK
  <2>2. CASE GateThenWatch(op.todo)
    BY <1>2, <1>4, <2>1, <2>2 DEF GateBuildDone
  <2>3. CASE /\ op' = Idle /\ watchFailed' = TRUE /\ LongAwait
             /\ UNCHANGED <<watchEnabled, watchers, watchBackoff>>
    <3>1. watchCrashes' \in Nat /\ watchCrashes' < WatchBudget
      BY <2>3, SupervisorAssumption DEF LongAwait, WatchTypes
    <3>2. QED
      BY <1>4, <2>1, <2>3, <3>1
         DEF GateBuildDone, Idle, WatchTypes, ReportsOK, OwnershipOK, WatchKeptAlive, SessionGen
  <2>4. QED
    BY <1>4, <2>2, <2>3 DEF GateBuildDone
<1>5. ASSUME NEW v \in Watched, WatcherDies(v)  PROVE  WatchOK'
  <2>1. WatchTypes' /\ OwnershipOK'
    BY <1>5 DEF WatcherDies, WatchTypes, OwnershipOK
  <2>2. SessionGen' = SessionGen /\ SessionGen \in Nat /\ SessionGen <= watchGen
    BY <1>5 DEF WatcherDies, SessionGen, ReportsOK
  <2>3. ReportsOK'
    <3>1. SessionGen = watchGen => op.at # "watchStop"
      BY DEF SessionGen, ReportsOK
    <3>2. \A m \in watchExits : m.gen = watchGen => m.view # v
      BY <1>5 DEF WatcherDies, ReportsOK
    <3>3. QED
      BY <1>5, <2>2, <3>1, <3>2 DEF WatcherDies, ReportsOK, WatchTypes
  <2>4. WatchKeptAlive'
    BY <1>5, <2>2 DEF WatcherDies, WatchKeptAlive, WatchTypes
  <2>5. QED
    BY <2>1, <2>3, <2>4
<1>6. ASSUME NEW m \in watchExits, WatcherExited(m)  PROVE  WatchOK'
  <2>1. SessionGen = watchGen /\ SessionGen' = watchGen /\ OwnershipOK'
    BY <1>6 DEF WatcherExited, SessionGen, Idle, OwnershipOK, WatchCrashed
  <2>2. CASE m.gen # watchGen /\ UNCHANGED watchers
    BY <1>6, <2>1, <2>2
       DEF WatcherExited, StaleExit, WatchTypes, ReportsOK, WatchKeptAlive
  <2>3. CASE m.gen = watchGen
    <3>1. m.view \in Watched /\ watchers[m.view] = "exited"
      BY <1>6, <2>3 DEF ReportsOK
    <3>2. watchers' = [watchers EXCEPT ![m.view] = "none"] /\ watchExits' = watchExits \ {m}
      BY <1>6, <2>3, <3>1 DEF WatcherExited, StaleExit
    <3>3. \A k \in watchExits' : k.gen = watchGen => k.view # m.view
      BY <2>3, <3>2 DEF ReportsOK
    <3>4. ReportsOK'
      BY <1>6, <3>1, <3>2, <3>3 DEF WatcherExited, ReportsOK, WatchTypes, Idle
    <3>5. WatchTypes' /\ (watchEnabled' => watchBackoff' = TRUE)
      <4>1. CASE WatchCrashed(1, watchCrashes)
        <5>1. 1 \in Nat \ {0} /\ watchCrashes \in Nat
          BY DEF WatchTypes
        <5>2. /\ watchCrashes' \in Nat /\ watchCrashes' < WatchBudget
              /\ watchEnabled' \in BOOLEAN /\ watchFailed' \in BOOLEAN
              /\ watchBackoff' \in BOOLEAN
              /\ watchEnabled' => watchBackoff' = TRUE
          BY <4>1, <5>1, WatchCrashedEffect
        <5>3. watchers' \in [Watched -> {"none", "live", "exited"}]
          BY <3>2 DEF WatchTypes
        <5>4. QED
          BY <5>2, <5>3 DEF WatchTypes
      <4>2. CASE ~watchEnabled /\ UNCHANGED <<watchEnabled, watchFailed, watchCrashes, watchBackoff>>
        BY <3>2, <4>2 DEF WatchTypes
      <4>3. QED
        BY <1>6, <2>3, <3>1, <4>1, <4>2 DEF WatcherExited, StaleExit
    <3>6. WatchKeptAlive'
      BY <2>1, <3>1, <3>2, <3>5 DEF WatchKeptAlive, WatchTypes
    <3>7. QED
      BY <2>1, <3>4, <3>5, <3>6
  <2>4. QED
    BY <1>6, <2>2, <2>3 DEF WatcherExited, StaleExit
<1>7. CASE WatchBackoffFires
  <2>1. CASE watchEnabled /\ SpawnWatchers(watchCrashes, FALSE)
    BY <1>7, <2>1, SpawnKeepsWatchOK DEF WatchBackoffFires, WatchTypes, Idle
  <2>2. CASE ~watchEnabled /\ watchBackoff' = FALSE
             /\ UNCHANGED <<watchEnabled, watchFailed, watchers, watchCrashes>>
    BY <1>7, <2>2
       DEF WatchBackoffFires, WatchTypes, ReportsOK, OwnershipOK, WatchKeptAlive, SessionGen
  <2>3. QED
    BY <1>7, <2>1, <2>2 DEF WatchBackoffFires
<1>8. CASE WatchStop
  <2>1. WatchTypes' /\ OwnershipOK'
    BY <1>1, <1>8 DEF WatchStop, WatchTypes, OwnershipOK, Idle, Await
  <2>2. ReportsOK'
    BY <1>8 DEF WatchStop, ReportsOK, Idle, Await
  <2>3. WatchKeptAlive'
    BY <1>8 DEF WatchStop, WatchKeptAlive, WatchTypes, ReportsOK, SessionGen, Idle, Await
  <2>4. QED
    BY <2>1, <2>2, <2>3
<1>9. CASE WatchStopDone
  <2>1. WatchTypes' /\ OwnershipOK' /\ WatchKeptAlive'
    <3>1. ~watchEnabled
      BY <1>9 DEF WatchStopDone, OwnershipOK
    <3>2. watchCrashes' \in Nat /\ watchCrashes' < WatchBudget
      BY <1>9, SupervisorAssumption DEF WatchStopDone, LongAwait, WatchTypes
    <3>3. QED
      BY <1>9, <3>1, <3>2 DEF WatchStopDone, WatchTypes, OwnershipOK, WatchKeptAlive, Idle
  <2>2. SessionGen \in Nat /\ SessionGen < watchGen
    BY <1>9 DEF WatchStopDone, SessionGen, ReportsOK
  <2>3. ReportsOK'
    BY <1>9, <2>2 DEF WatchStopDone, ReportsOK, Idle
  <2>4. QED
    BY <2>1, <2>3
<1>10. QED
  BY <1>3, <1>4, <1>5, <1>6, <1>7, <1>8, <1>9

\* Every step preserves the watch half.
LEMMA WatchStep == ServerOK /\ TaskShape /\ WatchOK /\ [Next]_vars => WatchOK'
BY WatchServerSteps, WatchOtherSteps, WatchFacetSteps DEF Next

-----------------------------------------------------------------------------
(* The theorems.                                                           *)

\* The actor of a new extension satisfies the invariant, whatever is on disk.
LEMMA InitIInv == Init => IInv
<1> SUFFICES ASSUME Init  PROVE  IInv
  OBVIOUS
<1>1. 0 \in Nat /\ 0 < CrashBudget /\ 0 < WatchBudget
  BY SupervisorAssumption
<1>2. ServerOK
  BY <1>1, SupervisorAssumption
     DEF Init, ServerOK, CrashesOK, OpShape, PredecessorsAreKilled, StateIsTruthful, Lifecycle, Idle
<1>3. DiskOK /\ TaskShape
  BY DEF Init, DiskOK, TaskShape, NoTask
<1>4. WatchOK
  BY <1>1
     DEF Init, WatchOK, WatchTypes, ReportsOK, OwnershipOK, WatchKeptAlive, Idle, NoTask
<1>5. QED
  BY <1>2, <1>3, <1>4 DEF IInv

\* The invariant is inductive.
LEMMA NextIInv == IInv /\ [Next]_vars => IInv'
BY ServerStep, DiskStep, TaskStep, WatchStep DEF IInv, ServerOK

\* Server, builds and watch of an extension never leave the invariant.
THEOREM Inductive == Spec => []IInv
BY InitIInv, NextIInv, PTL DEF Spec

\* The variables keep their types: in particular neither crash count of
\* record_crash and record_watch_crash ever reaches the budget.
THEOREM TypeCorrect == Spec => []TypeOK
<1>1. IInv => TypeOK
  BY DEF IInv, ServerOK, CrashesOK, OpShape, DiskOK, TaskShape, WatchOK, WatchTypes, ReportsOK, TypeOK
<1>2. QED
  BY <1>1, Inductive, PTL

\* spawn_child is never reached over a predecessor that was not killed: every
\* live group but the leader's was sent SIGKILL, by stop_child or by the sweep
\* of handle_unprompted_exit, whether or not it is gone by then.
THEOREM PredecessorsKilled == Spec => []PredecessorsAreKilled
<1>1. IInv => PredecessorsAreKilled
  BY DEF IInv, ServerOK
<1>2. QED
  BY <1>1, Inductive, PTL

\* The status set_state publishes agrees with the child, the actor's await
\* and the restart timer.
THEOREM TruthfulState == Spec => []StateIsTruthful
<1>1. IInv => StateIsTruthful
  BY DEF IInv, ServerOK
<1>2. QED
  BY <1>1, Inductive, PTL

\* Neither run_view_builds nor the detached views build takes a view of an
\* enabled watch, however the watch was enabled while they were under way.
THEOREM WatchOwnership == Spec => []WatchOwnsBundle
<1>1. IInv => WatchOwnsBundle
  BY DEF IInv, WatchOK, OwnershipOK, WatchOwnsBundle, ActorBuilds, TaskBuilds
<1>2. QED
  BY <1>1, Inductive, PTL

\* spawn_watch_children and handle_watch_child_exited together never forget
\* a watched view.
THEOREM WatchIsKeptAlive == Spec => []WatchKeptAlive
<1>1. IInv => WatchKeptAlive
  BY DEF IInv, WatchOK
<1>2. QED
  BY <1>1, Inductive, PTL

\* The generation test of handle_watch_child_exited protects the children
\* of a later watch session from the reports of an earlier one.
THEOREM LiveWatchersAreKept == Spec => LiveWatcherKept
<1> DEFINE Kept == \A v \in Watched :
                     watchers[v] = "live" /\ watchers'[v] = "none" => op.at = "watchStop"
<1>1. ASSUME IInv, [Next]_vars  PROVE  Kept
  <2> USE DEF IInv, WatchOK, WatchTypes
  <2>1. ASSUME NEW m \in watchExits, WatcherExited(m)  PROVE  Kept
    BY <1>1, <2>1 DEF WatcherExited, StaleExit, ReportsOK
  <2>2. ASSUME NEW base, NEW deadline, SpawnWatchers(base, deadline)  PROVE  Kept
    BY <1>1, <2>2 DEF SpawnWatchers
  <2>3. ASSUME NEW todo, GateThenWatch(todo)  PROVE  Kept
    BY <2>2, <2>3 DEF GateThenWatch
  <2>4. CASE WatchStart \/ WatchBackoffFires \/ \E o \in BuildOutcome : GateBuildDone(o)
    BY <2>2, <2>3, <2>4 DEF WatchStart, WatchBackoffFires, GateBuildDone
  <2>5. ASSUME NEW v \in Watched, WatcherDies(v)  PROVE  Kept
    BY <1>1, <2>5 DEF WatcherDies
  <2>6. CASE WatchStopDone
    BY <2>6 DEF WatchStopDone
  <2>7. CASE UNCHANGED watchers
    BY <2>7
  <2>8. QED
    BY <1>1, <2>1, <2>4, <2>5, <2>6, <2>7
       DEF Next, Start, RestartWithoutChild, StopWithoutChild, BeginStop, FinishStop, AfterStop,
           ServerExits, GroupGone, UnpromptedExit, BackoffFires, ServerBuild, ServerBuildDone,
           ViewBuildDone, TaskBuildDone, ViewsBuild, FinishViewsBuild, WatchStop, vars,
           watchVars, watchFacet
<1>2. QED
  BY <1>1, Inductive, PTL DEF Spec, LiveWatcherKept

-----------------------------------------------------------------------------
(* Builds and spawns.                                                      *)

ServerGood == ~serverBuildFailed /\ (HasServerBuild => serverBuilt)
ViewGood(v) == v \in entries /\ v \notin failedViews

\* What a start sequence has established when it is suspended on a build:
\* the server's binary is good, and so is every view that is not still to do.
BuildsOK ==
  /\ serverBuildFailed \in BOOLEAN /\ serverBuilt \in BOOLEAN
  /\ serverBuildFailed => HasServerBuild
  /\ op.at = "serverBuild" => HasServerBuild
  /\ op.at = "viewBuild" =>
       /\ ServerGood
       /\ \A v \in Buildable : v = op.view \/ v \in op.todo \/ ViewGood(v)

\* The step of SpawnOnlyWhenBuilt.
GoodSpawn ==
  pgid' \notin {pgid, NONE} =>
    /\ ~serverBuildFailed' /\ (HasServerBuild => serverBuilt')
    /\ \A v \in Buildable : v \in entries' /\ v \notin failedViews'

\* A start sequence over a good server that leaves nothing but "todo" to
\* build spawns the server on good builds, or is suspended in BuildsOK.
LEMMA SequenceBuilds ==
  ASSUME NEW todo, NEW left, ViewsThenSpawn(todo, left),
         ServerGood', UNCHANGED watchEnabled,
         serverBuildFailed' \in BOOLEAN, serverBuilt' \in BOOLEAN,
         \A v \in Buildable : v \in todo \/ ViewGood(v)'
  PROVE  BuildsOK' /\ GoodSpawn
<1>1. UNCHANGED Buildable
  BY DEF Buildable
<1>2. CASE op' = Idle /\ {v \in todo : v \in failedViews' \/ v \notin entries'} = {}
  BY <1>2 DEF Idle, BuildsOK, GoodSpawn, ServerGood, ViewGood
<1>3. ASSUME NEW v \in {w \in todo : w \in failedViews' \/ w \notin entries'},
             op' = Await("viewBuild", "start", v, todo \ {v}), NoChild(left)
      PROVE  BuildsOK' /\ GoodSpawn
  BY <1>1, <1>3 DEF Await, NoChild, BuildsOK, GoodSpawn, ServerGood, ViewGood
<1>4. QED
  BY <1>2, <1>3 DEF ViewsThenSpawn

\* start_flow rebuilds a server whose last build failed, so it reaches the
\* views over a good one only.
LEMMA StartFlowBuilds ==
  ASSUME BuildsOK, NEW rebuild, NEW left, StartFlow(rebuild, left), UNCHANGED watchEnabled
  PROVE  BuildsOK' /\ GoodSpawn
<1>1. CASE HasServerBuild /\ op' = Await("serverBuild", "start", NONE, {}) /\ NoChild(left)
  BY <1>1 DEF StartFlow, Await, NoChild, BuildsOK, GoodSpawn, diskVars, failVars
<1>2. CASE ~(HasServerBuild /\ (rebuild \/ serverBuildFailed \/ ~serverBuilt))
           /\ ViewsThenSpawn(Buildable, left)
  <2>1. ServerGood' /\ serverBuildFailed' \in BOOLEAN /\ serverBuilt' \in BOOLEAN
    BY <1>2 DEF StartFlow, BuildsOK, ServerGood, diskVars, failVars
  <2>2. QED
    BY <1>2, <2>1, SequenceBuilds
<1>3. QED
  BY <1>1, <1>2 DEF StartFlow

\* The actions of the server and of its start sequence.
LEMMA BuildsServerSteps ==
  ASSUME BuildsOK,
         \/ \E rebuild \in BOOLEAN : Start(rebuild) \/ RestartWithoutChild(rebuild)
         \/ BackoffFires
         \/ FinishStop
         \/ \E ok \in BOOLEAN : ServerBuildDone(ok)
         \/ \E outcome \in BuildOutcome : ViewBuildDone(outcome)
  PROVE  BuildsOK' /\ GoodSpawn
<1> USE DEF watchVars, watchFacet
<1>1. ASSUME NEW rebuild, Start(rebuild) \/ RestartWithoutChild(rebuild)
      PROVE  BuildsOK' /\ GoodSpawn
  BY <1>1, StartFlowBuilds DEF Start, RestartWithoutChild
<1>2. CASE BackoffFires
  BY <1>2, StartFlowBuilds DEF BackoffFires
<1>3. CASE FinishStop
  <2>1. ASSUME NEW left, op' = Idle, NoChild(left), UNCHANGED <<diskVars, failVars>>
        PROVE  BuildsOK' /\ GoodSpawn
    BY <2>1 DEF Idle, NoChild, BuildsOK, GoodSpawn, diskVars, failVars
  <2>2. QED
    BY <1>3, <2>1, StartFlowBuilds DEF FinishStop, AfterStop
<1>4. ASSUME NEW ok \in BOOLEAN, ServerBuildDone(ok)  PROVE  BuildsOK' /\ GoodSpawn
  <2>1. HasServerBuild /\ serverBuildFailed' \in BOOLEAN /\ serverBuilt' \in BOOLEAN
    BY <1>4 DEF ServerBuildDone, BuildsOK
  <2>2. CASE ok /\ ViewsThenSpawn(Buildable, groups)
    <3>1. ServerGood'
      BY <1>4, <2>2 DEF ServerBuildDone, ServerGood
    <3>2. QED
      BY <1>4, <2>1, <2>2, <3>1, SequenceBuilds DEF ServerBuildDone
  <2>3. CASE op' = Idle /\ UNCHANGED serverVars
    BY <2>1, <2>3 DEF Idle, BuildsOK, GoodSpawn, serverVars
  <2>4. QED
    BY <1>4, <2>2, <2>3 DEF ServerBuildDone, FailBuild
<1>5. ASSUME NEW outcome, ViewBuildDone(outcome)  PROVE  BuildsOK' /\ GoodSpawn
  <2>1. /\ ServerGood' /\ serverBuildFailed' \in BOOLEAN /\ serverBuilt' \in BOOLEAN
        /\ serverBuildFailed' => HasServerBuild
    BY <1>5 DEF ViewBuildDone, RecordViewBuild, BuildsOK, ServerGood
  <2>2. CASE outcome = "ok" /\ ViewsThenSpawn(op.todo, groups)
    <3>1. \A v \in Buildable : v \in op.todo \/ ViewGood(v)'
      BY <1>5, <2>2 DEF ViewBuildDone, RecordViewBuild, BuildsOK, ViewGood
    <3>2. QED
      BY <1>5, <2>1, <2>2, <3>1, SequenceBuilds DEF ViewBuildDone
  <2>3. CASE FailBuild
    BY <2>1, <2>3 DEF FailBuild, Idle, BuildsOK, GoodSpawn, serverVars
  <2>4. QED
    BY <1>5, <2>2, <2>3 DEF ViewBuildDone
<1>6. QED
  BY <1>1, <1>2, <1>3, <1>4, <1>5

\* The other actions spawn nothing, and while a start sequence is suspended
\* they change neither the watch nor what the sequence has established.
LEMMA BuildsOtherSteps ==
  ASSUME BuildsOK,
         \/ StopWithoutChild
         \/ \E then \in {"stop", "restart", "rebuild"} : BeginStop(then)
         \/ \E how \in {"clean", "crashed"} : ServerExits(how)
         \/ \E g \in Pgids : GroupGone(g)
         \/ UnpromptedExit
         \/ ServerBuild
         \/ \E outcome \in BuildOutcome : TaskBuildDone(outcome)
         \/ ViewsBuild
         \/ FinishViewsBuild
         \/ WatchStart
         \/ \E outcome \in BuildOutcome : GateBuildDone(outcome)
         \/ \E v \in Watched : WatcherDies(v)
         \/ \E m \in watchExits : WatcherExited(m)
         \/ WatchBackoffFires
         \/ WatchStop
         \/ WatchStopDone
         \/ UNCHANGED vars
  PROVE  BuildsOK' /\ GoodSpawn
<1> USE DEF BuildsOK, GoodSpawn, ServerGood, ViewGood, Buildable, Idle, Await,
            serverVars, diskVars, failVars, watchVars, watchFacet
<1>1. CASE StopWithoutChild
  BY <1>1 DEF StopWithoutChild
<1>2. ASSUME NEW then, BeginStop(then)  PROVE  BuildsOK' /\ GoodSpawn
  BY <1>2 DEF BeginStop
<1>3. ASSUME NEW how, ServerExits(how)  PROVE  BuildsOK' /\ GoodSpawn
  BY <1>3 DEF ServerExits
<1>4. CASE UnpromptedExit
  BY <1>4 DEF UnpromptedExit, NoChild
<1>5. CASE ServerBuild
  BY <1>5 DEF ServerBuild
<1>6. ASSUME NEW outcome, TaskBuildDone(outcome)  PROVE  BuildsOK' /\ GoodSpawn
  BY <1>6 DEF TaskBuildDone
<1>7. CASE ViewsBuild \/ FinishViewsBuild
  BY <1>7 DEF ViewsBuild, FinishViewsBuild
<1>8. ASSUME NEW todo, GateThenWatch(todo)
      PROVE  op' = Idle \/ \E v \in todo : op' = Await("gateBuild", "none", v, todo \ {v})
  BY <1>8 DEF GateThenWatch
<1>9. CASE WatchStart
  BY <1>8, <1>9 DEF WatchStart
<1>10. ASSUME NEW outcome, GateBuildDone(outcome)  PROVE  BuildsOK' /\ GoodSpawn
  BY <1>8, <1>10 DEF GateBuildDone, RecordViewBuild
<1>11. ASSUME NEW v, WatcherDies(v)  PROVE  BuildsOK' /\ GoodSpawn
  BY <1>11 DEF WatcherDies
<1>12. ASSUME NEW m, WatcherExited(m)  PROVE  BuildsOK' /\ GoodSpawn
  BY <1>12 DEF WatcherExited
<1>13. CASE WatchBackoffFires
  BY <1>13 DEF WatchBackoffFires
<1>14. CASE WatchStop \/ WatchStopDone
  BY <1>14 DEF WatchStop, WatchStopDone
<1>15. CASE UNCHANGED vars
  BY <1>15 DEF vars
<1>16. ASSUME NEW g, GroupGone(g)  PROVE  BuildsOK' /\ GoodSpawn
  BY <1>16 DEF GroupGone
<1>17. QED
  BY <1>1, <1>2, <1>3, <1>4, <1>5, <1>6, <1>7, <1>9, <1>10, <1>11, <1>12, <1>13, <1>14, <1>15,
     <1>16

\* Both theorems below rest on this: BuildsOK is inductive, and its steps
\* spawn the server on good builds only.
LEMMA BuildsStep == BuildsOK /\ [Next]_vars => BuildsOK' /\ GoodSpawn
BY BuildsServerSteps, BuildsOtherSteps DEF Next

\* spawn_child is reached only after run_server_build and run_view_builds
\* have left nothing to build, whichever command, timer or build led there.
THEOREM SpawnsOnGoodBuilds == Spec => SpawnOnlyWhenBuilt
<1>1. ASSUME Init  PROVE  BuildsOK
  <2>1. ~serverBuildFailed /\ serverBuildFailed \in BOOLEAN /\ serverBuilt \in BOOLEAN
    BY <1>1 DEF Init
  <2>2. op.at = "idle"
    BY <1>1 DEF Init, Idle
  <2>3. QED
    BY <2>1, <2>2 DEF BuildsOK
<1>2. QED
  BY <1>1, BuildsStep, PTL DEF Spec, SpawnOnlyWhenBuilt, GoodSpawn

\* fail_build never calls record_crash: a build that fails spends nothing of
\* the budget of automatic restarts, nor of that of the watch.
THEOREM FailedBuildIsNoCrash == Spec => BuildFailureKeepsBudget
<1> DEFINE Failed == \/ op.at = "serverBuild" /\ serverBuildFailed'
                     \/ op.at = "viewBuild" /\ op.view \in failedViews'
           Keeps  == Failed => crashes' = crashes /\ watchCrashes' <= watchCrashes
<1>1. ASSUME IInv, [Next]_vars  PROVE  Keeps
  <2> USE DEF Idle, crashVars, watchVars
  <2>0. watchCrashes \in Nat
    BY <1>1 DEF IInv, WatchOK, WatchTypes
  <2>1. ASSUME NEW ok \in BOOLEAN, ServerBuildDone(ok)  PROVE  Keeps
    <3>1. watchCrashes' <= watchCrashes /\ op.at = "serverBuild" /\ serverBuildFailed' = ~ok
      BY <2>0, <2>1 DEF ServerBuildDone, LongAwait
    <3>2. CASE ok
      BY <3>1, <3>2
    <3>3. CASE ~ok
      BY <2>1, <3>1, <3>3 DEF ServerBuildDone, FailBuild
    <3>4. QED
      BY <3>2, <3>3
  <2>2. ASSUME NEW outcome, ViewBuildDone(outcome)  PROVE  Keeps
    BY <2>0, <2>2 DEF ViewBuildDone, RecordViewBuild, FailBuild, LongAwait
  <2>3. CASE op.at \notin {"serverBuild", "viewBuild"}
    BY <2>3
  <2>4. CASE UNCHANGED <<crashes, watchCrashes>>
    BY <2>0, <2>4
  <2>5. ASSUME NEW how, ServerExits(how)  PROVE  Keeps
    BY <2>4, <2>5 DEF ServerExits
  <2>6. ASSUME NEW outcome, TaskBuildDone(outcome)  PROVE  Keeps
    BY <2>4, <2>6 DEF TaskBuildDone
  <2>7. ASSUME NEW v, WatcherDies(v)  PROVE  Keeps
    BY <2>4, <2>7 DEF WatcherDies
  <2>8. CASE UNCHANGED vars
    BY <2>4, <2>8 DEF vars
  <2>9. ASSUME op # Idle
        PROVE  /\ \A rebuild : ~Start(rebuild) /\ ~RestartWithoutChild(rebuild)
               /\ ~StopWithoutChild /\ ~UnpromptedExit /\ ~BackoffFires /\ ~ServerBuild
               /\ ~ViewsBuild /\ ~FinishViewsBuild
               /\ \A then : ~BeginStop(then)
    BY <2>9 DEF Start, RestartWithoutChild, StopWithoutChild, UnpromptedExit, BackoffFires,
                ServerBuild, ViewsBuild, FinishViewsBuild, BeginStop
  <2>10. ASSUME op # Idle
         PROVE  ~WatchStart /\ ~WatchBackoffFires /\ ~WatchStop /\ \A m : ~WatcherExited(m)
    BY <2>10 DEF WatchStart, WatchBackoffFires, WatchStop, WatcherExited
  <2>11. CASE FinishStop \/ WatchStopDone \/ \E outcome : GateBuildDone(outcome)
    BY <2>3, <2>11 DEF FinishStop, WatchStopDone, GateBuildDone
  <2>12. CASE op = Idle
    BY <2>3, <2>12
  <2>13. ASSUME NEW g, GroupGone(g)  PROVE  Keeps
    BY <2>4, <2>13 DEF GroupGone
  <2>14. QED
    BY <1>1, <2>1, <2>2, <2>5, <2>6, <2>7, <2>8, <2>9, <2>10, <2>11, <2>12, <2>13 DEF Next
<1>2. QED
  BY <1>1, Inductive, PTL DEF Spec, BuildFailureKeepsBudget
=============================================================================
