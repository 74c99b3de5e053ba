------------------------ MODULE ExtensionSupervisor ------------------------
(***************************************************************************)
(* L2 supervision of one extension: the actor task of                      *)
(* crates/remux/src/extensions/supervisor.rs that owns the server child,   *)
(* the manifest builds and the watch sidecar.                              *)
(*                                                                         *)
(* The actor takes one mailbox command, child exit or timer at a time and  *)
(* runs its handler to the end.  A handler that awaits a build or the      *)
(* reaping of a child is cut in two actions with "op" naming the await;    *)
(* while op is not idle, children may exit and the detached views build    *)
(* goes on, but no other handler starts.  The parts of a handler between   *)
(* two awaits are one action, whatever it calls.                           *)
(*                                                                         *)
(* Time is abstract: a timer that is armed may fire, and a server crash    *)
(* that is recorded finds an arbitrary number of the earlier ones outside  *)
(* the window.  The watch's crashes leave it during a long await or after  *)
(* a respawn that succeeded: without one the next crash follows within     *)
(* BACKOFF_CAP_MS, and a budget of such gaps is shorter than               *)
(* CRASH_WINDOW_MS.  A process group that was sent SIGKILL takes its time  *)
(* to go.                                                                  *)
(***************************************************************************)
EXTENDS Integers, FiniteSets

CONSTANTS
  Built,           \* views whose manifest entry declares a build
  Watched,         \* views whose manifest entry declares a watch
  HasServer,       \* the manifest declares a server
  HasServerBuild,  \* the server declares a build
  CrashBudget,     \* crashes in the window that end automatic restarts
  WatchBudget,     \* the same of watchers (CRASH_BUDGET too, bounded apart)
  Pgids,           \* process group ids a server may be given
  MaxWatchStops,   \* bound on watch/stop requests (each one bumps a counter)
  NONE

ASSUME SupervisorAssumption ==
  /\ IsFiniteSet(Built) /\ IsFiniteSet(Watched)
  /\ HasServer \in BOOLEAN /\ HasServerBuild \in BOOLEAN
  /\ HasServerBuild => HasServer
  /\ CrashBudget \in Nat \ {0} /\ WatchBudget \in Nat \ {0}
  /\ MaxWatchStops \in Nat
  /\ NONE \notin Built \cup Watched \cup Pgids

VARIABLES
  state,             \* Lifecycle, as published in the status
  op,                \* the await the actor is suspended in
  serverBuilt,       \* the server binary exists on disk
  serverBuildFailed, \* last_build_failed
  entries,           \* views whose entry file exists on disk
  failedViews,       \* failed_view_builds
  leader,            \* the direct child: none, live, or exited but not reaped
  pgid,              \* the recorded group of the child
  groups,            \* server groups that still have a live member
  dying,             \* those that were sent SIGKILL
  crashes,           \* crash_times inside the window
  backoff,           \* backoff_deadline is set
  task,              \* the detached views build (views_build_in_flight)
  watchEnabled, watchFailed,
  watchers,          \* watch_children: none, live, or exited but not reported
  watchGen,          \* watch_generation
  watchExits,        \* WatchChildExited messages in the mailbox
  watchCrashes,      \* watch_crash_times inside the window
  watchBackoff

serverVars == <<leader, pgid, groups, dying>>
crashVars  == <<crashes, backoff>>
diskVars   == <<serverBuilt, entries>>
failVars   == <<serverBuildFailed, failedViews>>
watchFacet == <<watchEnabled, watchFailed, watchers, watchGen, watchExits, watchBackoff>>
watchVars  == <<watchFacet, watchCrashes>>
vars == <<state, op, serverVars, crashVars, diskVars, failVars, task, watchVars>>

Views == Built \cup Watched

Lifecycle == {"Stopped", "Building", "Running", "Stopping", "BackingOff", "Failed"}

Idle == [at |-> "idle", then |-> "none", view |-> NONE, todo |-> {}]
Await(at, then, view, todo) ==
  [at |-> at, then |-> then, view |-> view, todo |-> todo]

NoTask == [status |-> "idle", view |-> NONE, todo |-> {}, done |-> {}, failed |-> NONE]

TypeOK ==
  /\ state \in Lifecycle
  /\ op \in [at : {"idle", "serverBuild", "viewBuild", "gateBuild", "stop", "watchStop"},
             then : {"none", "start", "manual", "stop", "restart", "rebuild"},
             view : Views \cup {NONE}, todo : SUBSET Views]
  /\ serverBuilt \in BOOLEAN /\ serverBuildFailed \in BOOLEAN
  /\ entries \subseteq Views /\ failedViews \subseteq Views
  /\ leader \in {"none", "live", "clean", "crashed"}
  /\ pgid \in Pgids \cup {NONE} /\ groups \subseteq Pgids /\ dying \subseteq groups
  /\ crashes \in Nat /\ crashes < CrashBudget /\ backoff \in BOOLEAN
  /\ task \in [status : {"idle", "running", "done"}, view : Views \cup {NONE},
               todo : SUBSET Views, done : SUBSET Views, failed : Views \cup {NONE}]
  /\ watchEnabled \in BOOLEAN /\ watchFailed \in BOOLEAN
  /\ watchers \in [Watched -> {"none", "live", "exited"}]
  /\ watchGen \in Nat
  /\ watchExits \subseteq [gen : Nat, view : Watched]
  /\ watchCrashes \in Nat /\ watchCrashes < WatchBudget /\ watchBackoff \in BOOLEAN

Init ==
  /\ state = "Stopped" /\ op = Idle
  /\ serverBuilt \in BOOLEAN /\ serverBuildFailed = FALSE
  /\ entries \in SUBSET Views /\ failedViews = {}
  /\ leader = "none" /\ pgid = NONE /\ groups = {} /\ dying = {}
  /\ crashes = 0 /\ backoff = FALSE
  /\ task = NoTask
  /\ watchEnabled = FALSE /\ watchFailed = FALSE
  /\ watchers = [v \in Watched |-> "none"]
  /\ watchGen = 0 /\ watchExits = {}
  /\ watchCrashes = 0 /\ watchBackoff = FALSE

-----------------------------------------------------------------------------
(* Spawning and crash bookkeeping of the server.  Each helper fixes        *)
(* state, op, serverVars except "dying", and crashVars; "left" is the set  *)
(* of groups that survive what the handler did before it.                  *)

\* Mutant: the budget test lets one crash too many through.
RecordCrashPastBudget ==
  \E kept \in 0 .. crashes :
    \/ /\ kept + 1 <= CrashBudget
       /\ state' = "BackingOff" /\ crashes' = kept + 1 /\ backoff' = TRUE
    \/ /\ kept + 1 > CrashBudget
       /\ state' = "Failed" /\ crashes' = 0 /\ backoff' = FALSE

\* record_crash: back off, or give up when the budget is spent.
RecordCrash ==
  \E kept \in 0 .. crashes :
    \/ /\ kept + 1 < CrashBudget
       /\ state' = "BackingOff" /\ crashes' = kept + 1 /\ backoff' = TRUE
    \/ /\ kept + 1 >= CrashBudget
       /\ state' = "Failed" /\ crashes' = 0 /\ backoff' = FALSE

NoChild(left) == leader' = "none" /\ pgid' = NONE /\ groups' = left

\* spawn_child: a failed gateway preparation or spawn counts as a crash.
SpawnChild(left) ==
  \/ /\ \E g \in Pgids \ (left \cup {pgid}) : pgid' = g /\ groups' = left \cup {g}
     /\ leader' = "live" /\ state' = "Running"
     /\ backoff' = FALSE /\ UNCHANGED crashes
  \/ NoChild(left) /\ RecordCrash

\* run_view_builds from "todo" on, then the spawn that ends start_flow.
ViewsThenSpawn(todo, left) ==
  LET needed == {v \in todo : v \in failedViews' \/ v \notin entries'}
  IN \/ /\ needed = {}
        /\ op' = Idle
        /\ IF HasServer
           THEN SpawnChild(left)
           ELSE NoChild(left) /\ state' = "Stopped" /\ backoff' = FALSE /\ UNCHANGED crashes
     \/ \E v \in needed :
          /\ op' = Await("viewBuild", "start", v, todo \ {v})
          /\ state' = "Building" /\ backoff' = FALSE /\ UNCHANGED crashes
          /\ NoChild(left)

\* Mutant: the build sequence does not know of the watch.
BuildableWatchIgnored == Built

\* Views the build sequence does not leave to their watcher.
Buildable == IF watchEnabled THEN Built \ Watched ELSE Built

\* Mutant: a failed server build is forgotten while an older binary exists.
StartFlowOnStaleBinary(rebuild, left) ==
  /\ UNCHANGED <<diskVars, failVars>>
  /\ IF HasServerBuild /\ (rebuild \/ ~serverBuilt)
     THEN /\ op' = Await("serverBuild", "start", NONE, {})
          /\ state' = "Building" /\ backoff' = FALSE /\ UNCHANGED crashes
          /\ NoChild(left)
     ELSE ViewsThenSpawn(Buildable, left)

\* start_flow
StartFlow(rebuild, left) ==
  /\ UNCHANGED <<diskVars, failVars>>
  /\ IF HasServerBuild /\ (rebuild \/ serverBuildFailed \/ ~serverBuilt)
     THEN /\ op' = Await("serverBuild", "start", NONE, {})
          /\ state' = "Building" /\ backoff' = FALSE /\ UNCHANGED crashes
          /\ NoChild(left)
     ELSE ViewsThenSpawn(Buildable, left)

-----------------------------------------------------------------------------
(* Commands, timers and exits that drive the server.                       *)

\* Cmd::Start; when the server is up it changes nothing.
Start(rebuild) ==
  /\ op = Idle /\ state # "Running"
  /\ StartFlow(rebuild, groups)
  /\ UNCHANGED <<dying, task, watchVars>>

\* Mutant: stop leaves the restart timer armed.
StopKeepsBackoff ==
  /\ op = Idle /\ leader = "none"
  /\ state' = "Stopped" /\ pgid' = NONE
  /\ UNCHANGED <<op, leader, groups, dying, crashVars, diskVars, failVars, task, watchVars>>

\* Cmd::Stop and Cmd::Restart with no child to reap.
StopWithoutChild ==
  /\ op = Idle /\ leader = "none"
  /\ state' = "Stopped" /\ backoff' = FALSE /\ pgid' = NONE
  /\ UNCHANGED <<op, leader, groups, dying, crashes, diskVars, failVars, task, watchVars>>

RestartWithoutChild(rebuild) ==
  /\ op = Idle /\ leader = "none"
  /\ StartFlow(rebuild, groups)
  /\ UNCHANGED <<dying, task, watchVars>>

\* stop_child up to its first await: stdin closed, the escalation begins.
BeginStop(then) ==
  /\ op = Idle /\ leader # "none"
  /\ op' = Await("stop", then, NONE, {})
  /\ state' = "Stopping" /\ backoff' = FALSE
  /\ UNCHANGED <<serverVars, crashes, diskVars, failVars, task, watchVars>>

AfterStop(left) ==
  /\ \/ /\ op.then = "stop"
        /\ op' = Idle /\ state' = "Stopped" /\ NoChild(left)
        /\ UNCHANGED <<crashVars, diskVars, failVars>>
     \/ op.then = "restart" /\ StartFlow(FALSE, left)
     \/ op.then = "rebuild" /\ StartFlow(TRUE, left)
  /\ UNCHANGED <<task, watchFacet>>

\* A wait for a build or a group may last longer than the crash window.
LongAwait == watchCrashes' \in 0 .. watchCrashes

\* The rest of stop_child: EOF, SIGTERM or SIGKILL took the child, it is
\* reaped, its group is killed.  The wait for the group to go ends in time or
\* is given up (extension:group-lingering); a restart goes on either way.
FinishStop ==
  /\ op.at = "stop"
  /\ \E left \in {groups, groups \ {pgid}} :
       AfterStop(left) /\ dying' = (dying \cup {pgid}) \cap left
  /\ LongAwait

\* The child exits; helpers it started in its group may outlive it.
ServerExits(how) ==
  /\ leader = "live" /\ leader' = how
  /\ groups' \in {groups, groups \ {pgid}}
  /\ UNCHANGED <<state, op, pgid, dying, crashVars, diskVars, failVars, task, watchVars>>

\* The last member of a killed group is gone.
GroupGone(g) ==
  /\ g \in dying
  /\ groups' = groups \ {g} /\ dying' = dying \ {g}
  /\ UNCHANGED <<state, op, leader, pgid, crashVars, diskVars, failVars, task, watchVars>>

\* Mutants: the helpers of a crashed server survive; a clean exit is missed.
UnpromptedExitUnswept ==
  /\ op = Idle /\ leader \in {"clean", "crashed"}
  /\ NoChild(groups)
  /\ \/ leader = "clean" /\ state' = "Stopped" /\ UNCHANGED crashVars
     \/ leader = "crashed" /\ RecordCrash
  /\ UNCHANGED <<op, dying, diskVars, failVars, task, watchVars>>

UnpromptedCrashOnly ==
  /\ op = Idle /\ leader = "crashed"
  /\ NoChild(groups) /\ dying' = (dying \cup {pgid}) \cap groups /\ RecordCrash
  /\ UNCHANGED <<op, diskVars, failVars, task, watchVars>>

\* handle_unprompted_exit: the group is killed, and not waited for.
UnpromptedExit ==
  /\ op = Idle /\ leader \in {"clean", "crashed"}
  /\ NoChild(groups) /\ dying' = (dying \cup {pgid}) \cap groups
  /\ \/ leader = "clean" /\ state' = "Stopped" /\ UNCHANGED crashVars
     \/ leader = "crashed" /\ RecordCrash
  /\ UNCHANGED <<op, diskVars, failVars, task, watchVars>>

\* The backoff timer of the actor's select loop.
BackoffFires ==
  /\ op = Idle /\ backoff
  /\ StartFlow(FALSE, groups)
  /\ UNCHANGED <<dying, task, watchVars>>

-----------------------------------------------------------------------------
(* Builds.                                                                 *)

\* handle_server_build up to its await; refused while views are being built.
ServerBuild ==
  /\ op = Idle /\ HasServerBuild /\ task.status = "idle"
  /\ op' = Await("serverBuild", "manual", NONE, {})
  /\ UNCHANGED <<state, serverVars, crashVars, diskVars, failVars, task, watchVars>>

\* fail_build
FailBuild == op' = Idle /\ state' = "Failed" /\ UNCHANGED <<serverVars, crashVars>>

\* The server build ends, under start_flow or under server/build.
ServerBuildDone(ok) ==
  /\ op.at = "serverBuild"
  /\ serverBuildFailed' = ~ok
  /\ serverBuilt' = (ok \/ serverBuilt)
  /\ LongAwait
  /\ UNCHANGED <<dying, entries, failedViews, task, watchFacet>>
  /\ \/ /\ op.then = "start" /\ ok
        /\ ViewsThenSpawn(Buildable, groups)
     \/ op.then = "start" /\ ~ok /\ FailBuild
     \/ /\ op.then = "manual"
        /\ op' = Idle
        /\ state' = IF ok /\ state = "Failed" THEN "Stopped" ELSE state
        /\ UNCHANGED <<serverVars, crashVars>>

BuildOutcome == {"ok", "failed", "unpublished"}

\* What a view build leaves on disk and in failed_view_builds.
RecordViewBuild(v, outcome) ==
  /\ entries' = IF outcome = "failed" THEN entries ELSE entries \cup {v}
  /\ failedViews' = IF outcome = "ok" THEN failedViews \ {v} ELSE failedViews \cup {v}
  /\ UNCHANGED <<serverBuilt, serverBuildFailed>>

\* A build of run_view_builds ends: go on with the next view, or fail.
ViewBuildDone(outcome) ==
  /\ op.at = "viewBuild"
  /\ RecordViewBuild(op.view, outcome)
  /\ \/ outcome = "ok" /\ ViewsThenSpawn(op.todo, groups)
     \/ outcome # "ok" /\ FailBuild
  /\ LongAwait
  /\ UNCHANGED <<dying, task, watchFacet>>

\* start_views_build: the task runs beside the actor.
Building(todo, v, done) ==
  [status |-> "running", view |-> v, todo |-> todo \ {v}, done |-> done, failed |-> NONE]

Finished(done, failed) ==
  [status |-> "done", view |-> NONE, todo |-> {}, done |-> done, failed |-> failed]

\* run_manual_views_build takes its next view, or reports the outcome.
NextTaskView(todo, done) ==
  \/ \E v \in todo : task' = Building(todo, v, done)
  \/ todo = {} /\ task' = Finished(done, NONE)

ViewsBuild ==
  /\ op = Idle /\ Built # {} /\ task.status = "idle"
  /\ NextTaskView(Buildable, {})
  /\ UNCHANGED <<state, op, serverVars, crashVars, diskVars, failVars, watchVars>>

TaskBuildDone(outcome) ==
  /\ task.status = "running"
  /\ entries' = IF outcome = "failed" THEN entries ELSE entries \cup {task.view}
  /\ \/ outcome = "ok" /\ NextTaskView(task.todo, task.done \cup {task.view})
     \/ outcome # "ok" /\ task' = Finished(task.done, task.view)
  /\ UNCHANGED <<state, op, serverVars, crashVars, serverBuilt, failVars, watchVars>>

\* finish_views_build
FinishViewsBuild ==
  /\ op = Idle /\ task.status = "done"
  /\ task' = NoTask
  /\ failedViews' = (failedViews \ task.done) \cup ({task.failed} \ {NONE})
  /\ state' = IF task.failed = NONE /\ state = "Failed" /\ ~HasServer
              THEN "Stopped" ELSE state
  /\ UNCHANGED <<op, serverVars, crashVars, diskVars, serverBuildFailed, watchVars>>

-----------------------------------------------------------------------------
(* The watch facet.                                                        *)

\* Mutant: no respawn is scheduled.
WatchCrashedUnscheduled(n, base) ==
  /\ watchCrashes' = (base + n) % WatchBudget
  /\ watchBackoff' = FALSE
  /\ watchEnabled' = (base + n < WatchBudget)
  /\ watchFailed' = ~watchEnabled'

\* record_watch_crash, n times in a row, after "base" earlier crashes.
\* Spending the budget disables the watch and starts the count again.
WatchCrashed(n, base) ==
  /\ watchCrashes' = (base + n) % WatchBudget
  /\ watchBackoff' = (watchCrashes' # 0)
  /\ watchEnabled' = (base + n < WatchBudget)
  /\ watchFailed' = ~watchEnabled'

\* spawn_watch_children: one child per watched view that has none.
SpawnWatchers(base, deadline) ==
  LET missing == {v \in Watched : watchers[v] = "none"}
  IN \E failing \in SUBSET missing :
       /\ watchers' = [v \in Watched |->
                         IF v \in missing \ failing THEN "live" ELSE watchers[v]]
       /\ \/ failing # {} /\ WatchCrashed(Cardinality(failing), base)
          \/ /\ failing = {}
             /\ watchEnabled' = TRUE /\ watchFailed' = FALSE
             /\ watchCrashes' \in 0 .. base /\ watchBackoff' = deadline

\* handle_watch_start from "todo" on: the next gating build, or the children.
GateThenWatch(todo) ==
  LET needed == {v \in todo : v \in failedViews' \/ v \notin entries'}
  IN \/ /\ needed = {}
        /\ op' = Idle
        /\ SpawnWatchers(0, watchBackoff)
     \/ /\ \E v \in needed : op' = Await("gateBuild", "none", v, todo \ {v})
        /\ UNCHANGED <<watchEnabled, watchFailed, watchers, watchCrashes, watchBackoff>>

WatchStart ==
  /\ op = Idle /\ Watched # {} /\ task.status = "idle" /\ ~watchEnabled
  /\ UNCHANGED <<diskVars, failVars>>
  /\ GateThenWatch(Watched \cap Built)
  /\ UNCHANGED <<state, serverVars, crashVars, task, watchGen, watchExits>>

GateBuildDone(outcome) ==
  /\ op.at = "gateBuild"
  /\ RecordViewBuild(op.view, outcome)
  /\ \/ outcome = "ok" /\ GateThenWatch(op.todo)
     \/ /\ outcome # "ok"
        /\ op' = Idle /\ watchFailed' = TRUE /\ LongAwait
        /\ UNCHANGED <<watchEnabled, watchers, watchBackoff>>
  /\ UNCHANGED <<state, serverVars, crashVars, task, watchGen, watchExits>>

\* A watch child dies; its monitor task posts the exit.  stop_watchers bumps
\* the generation before the children of the old one are gone.
SessionGen == IF op.at = "watchStop" THEN watchGen - 1 ELSE watchGen

WatcherDies(v) ==
  /\ watchers[v] = "live"
  /\ watchers' = [watchers EXCEPT ![v] = "exited"]
  /\ watchExits' = watchExits \cup {[gen |-> SessionGen, view |-> v]}
  /\ UNCHANGED <<state, op, serverVars, crashVars, diskVars, failVars, task,
                 watchEnabled, watchFailed, watchGen, watchCrashes, watchBackoff>>

\* Mutant: reports are not told apart by generation.
NeverStale(m) == FALSE

\* handle_watch_child_exited: a report of an earlier generation is dropped.
StaleExit(m) == m.gen # watchGen

WatcherExited(m) ==
  /\ op = Idle /\ m \in watchExits
  /\ watchExits' = watchExits \ {m}
  /\ \/ /\ StaleExit(m) \/ watchers[m.view] = "none"
        /\ UNCHANGED <<watchers, watchEnabled, watchFailed, watchCrashes, watchBackoff>>
     \/ /\ ~StaleExit(m) /\ watchers[m.view] # "none"
        /\ watchers' = [watchers EXCEPT ![m.view] = "none"]
        /\ IF watchEnabled
           THEN WatchCrashed(1, watchCrashes)
           ELSE UNCHANGED <<watchEnabled, watchFailed, watchCrashes, watchBackoff>>
  /\ UNCHANGED <<state, op, serverVars, crashVars, diskVars, failVars, task, watchGen>>

\* The watch backoff timer of the actor's select loop.
WatchBackoffFires ==
  /\ op = Idle /\ watchBackoff
  /\ IF watchEnabled
     THEN SpawnWatchers(watchCrashes, FALSE)
     ELSE watchBackoff' = FALSE /\ UNCHANGED <<watchEnabled, watchFailed, watchers, watchCrashes>>
  /\ UNCHANGED <<state, op, serverVars, crashVars, diskVars, failVars, task,
                 watchGen, watchExits>>

\* stop_watchers up to the wait for its groups.  The crash times stay until the
\* next start clears them; as nothing reads them in between, they go here.
WatchStop ==
  /\ op = Idle /\ watchGen < MaxWatchStops
  /\ watchGen' = watchGen + 1
  /\ watchBackoff' = FALSE /\ watchEnabled' = FALSE /\ watchFailed' = FALSE
  /\ watchCrashes' = 0
  /\ op' = IF \A v \in Watched : watchers[v] = "none"
           THEN Idle ELSE Await("watchStop", "none", NONE, {})
  /\ UNCHANGED <<state, serverVars, crashVars, diskVars, failVars, task, watchers,
                 watchExits>>

\* SIGTERM, then SIGKILL, or the wait for the groups is given up; the monitors
\* report to the old generation, those of lingering groups later.
WatchStopDone ==
  /\ op.at = "watchStop"
  /\ op' = Idle /\ LongAwait
  /\ watchers' = [v \in Watched |-> "none"]
  /\ watchExits' = watchExits \cup
       {[gen |-> SessionGen, view |-> v] : v \in {w \in Watched : watchers[w] = "live"}}
  /\ UNCHANGED <<state, serverVars, crashVars, diskVars, failVars, task,
                 watchEnabled, watchFailed, watchGen, watchBackoff>>

-----------------------------------------------------------------------------
Next ==
  \/ \E rebuild \in BOOLEAN : Start(rebuild) \/ RestartWithoutChild(rebuild)
  \/ StopWithoutChild
  \/ \E then \in {"stop", "restart", "rebuild"} : BeginStop(then)
  \/ FinishStop
  \/ \E how \in {"clean", "crashed"} : ServerExits(how)
  \/ \E g \in Pgids : GroupGone(g)
  \/ UnpromptedExit
  \/ BackoffFires
  \/ ServerBuild
  \/ \E ok \in BOOLEAN : ServerBuildDone(ok)
  \/ \E outcome \in BuildOutcome :
       ViewBuildDone(outcome) \/ GateBuildDone(outcome) \/ TaskBuildDone(outcome)
  \/ ViewsBuild
  \/ FinishViewsBuild
  \/ WatchStart
  \/ \E v \in Watched : WatcherDies(v)
  \/ \E m \in watchExits : WatcherExited(m)
  \/ WatchBackoffFires
  \/ WatchStop
  \/ WatchStopDone

Spec == Init /\ [][Next]_vars

(***************************************************************************)
(* Builds end because execute() times them out, stops end because they     *)
(* escalate to SIGKILL and give up waiting: an await of the actor ends.    *)
(* tokio::select! polls its ready branches in random order, so a branch    *)
(* that is ready every time the loop comes round is taken: strong fairness *)
(* for exits, the watch timer and mailbox reports.                         *)
(***************************************************************************)
AwaitEnds ==
  \/ \E ok \in BOOLEAN : ServerBuildDone(ok)
  \/ \E o \in BuildOutcome : ViewBuildDone(o) \/ GateBuildDone(o)
  \/ FinishStop \/ WatchStopDone

Fairness ==
  /\ WF_vars(AwaitEnds)
  /\ SF_vars(UnpromptedExit) /\ SF_vars(WatchBackoffFires)
  /\ SF_vars(\E m \in watchExits : WatcherExited(m))

FairSpec == Spec /\ Fairness

-----------------------------------------------------------------------------
(* Safety.                                                                 *)

\* The server is never started over a predecessor that nobody has killed:
\* whatever the mix of stops, crashes, failed spawns and timers, every live
\* group but the current one was sent SIGKILL, also when no child is tracked,
\* and the current one was not.  It may take its time to go, which neither a
\* crash nor, in the end, a stop waits for (stop_child; the crash-path sweep of
\* handle_unprompted_exit).
PredecessorsAreKilled ==
  /\ groups \ {pgid} \subseteq dying /\ pgid \notin dying
  /\ leader = "none" => groups \subseteq dying

\* The published lifecycle state agrees with the child, with the actor and
\* with the timer: Running and Stopping have a child and no other state has
\* one, Building lasts as long as a start builds, and a restart is armed
\* exactly in BackingOff, so Failed is left by a command only.
StateIsTruthful ==
  /\ leader # "none" <=> state \in {"Running", "Stopping"}
  /\ state = "Stopping" <=> op.at = "stop"
  /\ state = "Building" <=> op.then = "start"
  /\ backoff <=> state = "BackingOff"

\* While the watch is enabled its views are built by nobody else, neither by
\* the start sequence nor by the detached views build ("the watcher owns
\* that dist", run_view_builds).
ActorBuilds(v) == op.at \in {"viewBuild", "gateBuild"} /\ op.view = v
TaskBuilds(v)  == task.status = "running" /\ task.view = v

WatchOwnsBundle ==
  watchEnabled => \A v \in Watched : ~ActorBuilds(v) /\ ~TaskBuilds(v)

\* An enabled watch keeps every view alive: a view without a child has a
\* respawn scheduled, and a child that died has its exit report on the way.
WatchKeptAlive ==
  \A v \in Watched :
    /\ watchEnabled /\ watchers[v] = "none" => watchBackoff
    /\ watchers[v] = "exited" => [gen |-> SessionGen, view |-> v] \in watchExits

\* An exit report never unregisters a child that is alive: only watch/stop
\* empties the slot of a live watcher, so a report of a stopped session
\* cannot hit its successor.
LiveWatcherKept ==
  [][\A v \in Watched :
       watchers[v] = "live" /\ watchers'[v] = "none" => op.at = "watchStop"]_vars

\* The server is spawned only on a good build: no server build has failed
\* since the last good one, and every view the sequence had to build is built.
SpawnOnlyWhenBuilt ==
  [][pgid' \notin {pgid, NONE} =>
       /\ ~serverBuildFailed' /\ (HasServerBuild => serverBuilt')
       /\ \A v \in Buildable : v \in entries' /\ v \notin failedViews']_vars

\* A failed build lands in Failed without touching the crash budget.
BuildFailureKeepsBudget ==
  [][\/ op.at = "serverBuild" /\ serverBuildFailed'
     \/ op.at = "viewBuild" /\ op.view \in failedViews'
       => crashes' = crashes /\ watchCrashes' <= watchCrashes]_vars

-----------------------------------------------------------------------------
(* Liveness, under FairSpec.                                               *)

\* A server exit is noticed even if it happens while a handler is awaiting.
ExitIsHandled == leader \in {"clean", "crashed"} ~> leader \in {"none", "live"}

\* A dead watcher is respawned, unless the watch is turned off or gives up.  It
\* does give up on a watcher that keeps failing, since its crashes come faster
\* than they leave the window, except if the actor is called away to other
\* work again and again.
WatcherIsRevived ==
  \A v \in Watched :
    \/ []<>(op # Idle)
    \/ watchEnabled /\ watchers[v] # "live" ~> watchers[v] = "live" \/ ~watchEnabled
=============================================================================
