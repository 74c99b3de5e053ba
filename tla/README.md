# Remux: a verification project

Remux runs coding agents and tools on a machine and shows them on a phone. This directory holds TLA+ models of the
parts where several activities meet, the TLC configurations that check them on small instances, and proofs that the
TLA+ proof system checks for every value of the constants.

    tlc -config MCExtensionSupervisor.cfg MCExtensionSupervisor.tla
    tlapm ExtensionSupervisor_proofs.tla

`PROJECT.json` maps every definition to the lines it models and lists runs, mutants, hazards, findings and theorems.

## 1. Inventory

Paths are relative to `src/`. "Hard" names what a test would hardly reach.

| Part | State | Operations | Hard | Module |
|---|---|---|---|---|
| Extension supervisor, L2 (`crates/remux/src/extensions/supervisor.rs`) | lifecycle, child and process group, crash window, restart timer, build results, watch children | start, stop, restart, builds, watch start and stop; exits and timers | an exit during an await, a group that outlives its leader and its SIGKILL, a stale exit report, a build beside a watch, a timer after a stop | ExtensionSupervisor |
| Extension RPC channel (`supervisor.rs`, `process.rs`) and gateway generations (`http/extension_gateways.rs`) | mailbox, pending map, stdin queue, prepared and active generation, readiness | request, cancellation, reply, spawn, stop, exit, readiness report | a request racing the end of its child; late lines of an old child; full queues; a reader that ends before its child | ExtensionChannel |
| Run-state store (`extensions/runstate.rs`) | entries, the file, its temporary file | record, remove, persist, boot sweep | several writers at one temporary file; a write that fails or is cut off by death; pid reuse; leaderless groups | RunStateStore |
| Durable commands (`rpc/commands.rs`, `rpc/ws.rs`, `app/src/remote/RemuxConnectionProvider.tsx`, `remuxRpcClient.ts`) | registry of outcomes, dispatch lane, two ends of a connection, calls of the phone | send, retry, cancel, admit, join, complete, evict, expire, restart | one command over two connections, lost replies, a replaced worker, eviction | DurableCommand, CommandService |
| Jobs (`rpc/ws.rs` 1103-1290) | records with a revision, abort handles | start, update, cancel, evict, broadcast | a cancellation racing completion or the storing of the handle; an id started again; broadcasts out of order | JobRegistry |
| Process supervision and guardian, L1 and L0.5 (`supervise.rs`, `guardian.rs`) | worker, backoff, pending signal, restart request, protection, frozen units, remembered operations | spawn, poll, signal, restart, backoff; engage, release, pause, stop; pressure samples | a signal or a restart at every step of a crash; two threads over one list of units; a systemctl that fails half way | WorkerSupervision |
| Agent: delivery attempts (`extensions/agent/server/src/native-runtime`) | queue rows, attempt rows, staged observations, turns, journal, session | dispatch, evidence, staging, admission, boot recovery, resolution | a crash between "possibly sent" and the answer; four activities over one stage | DeliveryAttempt, MessageLane |
| Codex: pending queue (`extensions/codex/server/src/operation_queue.rs`, `thread_runtime.rs`, `thread_commands.rs`, `app_server.rs`) | queue and quarantine of a thread, its runtime state, the claim to drive it, the connection | submit, remove, run now (start, steer, interrupt), drive, forward events, reconnect and reconcile | answers and notifications that overtake each other; two threads that both want to drive; a request that was given up but is taken | CodexOperationQueue |
| Codex viewer: transcript (`extensions/codex/viewer/transcript/resourceStore.ts`, `layoutStore.ts`, `resumeSync.ts`, `viewer-kit/src/ipc.ts`) | what is on screen, the pending refresh, reads in flight, the resume | invalidate, refresh, page, measure, pause, resume, disconnect | an older read answered after a newer one; a refresh nobody starts; invalidations that are lost | TranscriptSync |
| Agent viewer's store, federation checkouts and credentials, viewer bundles, terminal sessions, notification presence | copies of server state; checkouts; the published bundle | read, invalidate; take, release; publish | a child ending while its checkout is resolved; publication beside a read | candidates (section 6) |
| Manifest, discovery, auth, config, CLI | files read once | parse, validate | - | not modelled: data |
| File service, logs, notifications, maintenance, resource governance, other HTTP surfaces | files, bounded logs, systemd units | I/O | - | not modelled: I/O |
| Phone app and viewers' screens, viewer kit, editor | screens | - | - | not modelled: user interface |

How they interact. The phone sends requests over a WebSocket to the worker (`rpc/ws.rs`); a request for an extension
goes through the router to the extension's supervisor, which writes it to the child's stdin. Every group the
supervisor spawns is recorded in the run-state store, which the next worker reads at boot. The agent extension is such
a child: it queues the user's messages in SQLite and hands them to a provider (a Claude process, a Codex app server).
The worker itself is a child of the process supervisor, which shares its process with the guardian. The Codex extension
keeps a queue of its own and talks to one app server; its viewer on the phone keeps a copy of a thread's transcript,
which the extension invalidates.

## 2. Modules

| Module | Composes | Role |
|---|---|---|
| ExtensionSupervisor | - | the actor: server, builds, watch |
| ExtensionSupervisor_proofs | ExtensionSupervisor | its theorems |
| ExtensionChannel | - | callers, actor, child, stdout readers, gateway slot |
| ExtensionChannel_proofs | ExtensionChannel | its theorems |
| RunStateStore | - | entries, file, groups, boot sweep |
| RunStateStore_proofs | RunStateStore | its theorems |
| CommandService | - | abstract: what the phone may rely on when it sends a command |
| DurableCommand | `INSTANCE CommandService` | phone, connections, lane, registry, executions; refines CommandService |
| DurableCommand_proofs | DurableCommand | its theorems |
| MessageLane | - | abstract: what a conversation promises about its messages |
| DeliveryAttempt | `INSTANCE MessageLane` | dispatcher, consumer, boot, resolution, provider; refines MessageLane |
| DeliveryAttempt_proofs | DeliveryAttempt | its theorems |
| JobRegistry | - | table of jobs; starter, task and canceller of each |
| JobRegistry_proofs | JobRegistry | its theorems |
| WorkerSupervision | - | main thread, guardian's listener, pressure thread, worker |
| CodexOperationQueue | - | lane, forwarder, connection, app server |
| CodexOperationQueue_proofs | CodexOperationQueue | its theorems |
| TranscriptSync | - | the viewer's reads of one transcript, its resume, the server |
| TranscriptSync_proofs | TranscriptSync | its theorems |
| MC* | the module of that name | constants for TLC |

### ExtensionSupervisor
The actor takes one command, exit or timer at a time. A handler that awaits a build or the reaping of a child is cut
there into two actions (`StartFlow` / `ServerBuildDone`, `BeginStop` / `FinishStop`, ...), and `op` names the await.
`task` is the detached views build, `watchExits` the exit reports in the mailbox, each with its `watch_generation`.
Every recorded crash of the server keeps an arbitrary number of the earlier ones in the window, which stands for the
clock. The watch's crashes leave their window only during a long await (`LongAwait`) or after a respawn that succeeded:
with neither in between, the next crash comes within the backoff's cap, and a budget of such gaps fits in the window. A
spawn may fail. A group that was sent SIGKILL is `dying` until `GroupGone`; the crash path does not wait for that, and
`FinishStop` waits or gives up (extension:group-lingering), so that a new server may start beside a dying predecessor.
Not in this module: the run-state slots, the gateway and the RPC proxy.

### ExtensionChannel
A caller posts in the mailbox (waiting for room) and may be dropped at any time (not waiting for room). `pending` is
the map shared by the actor and the readers. Each generation has its own reader; it looks at the generation counter
when it takes a line and acts later, so that a line may be overtaken by the end of its generation. A line that is too
long or not UTF-8 ends the reader for good while the child may live on (`ReaderFails`). `slot` is the
gateway's prepared and active generation, switched under its lock; `ready` is `gateway_ready_generation`. The
lifecycle is ExtensionSupervisor's, reduced to spawns and the two ways a child ends; a stop may overtake requests that
wait in the mailbox. Host replies to requests of the child, notifications and the proxied traffic are left out.

### RunStateStore
A writer is an actor or a detached build of views; `Roles` says which writer fills which slot, and all writers share the
one store and the one temporary name. A writer changes the entries under the lock, then persists in three steps: open
(which truncates), write, rename, on inodes, so that two of them can get hold of the same file; each step may fail and
the failure is dropped (`PersistFails`). It spawns a server or build when it has none under supervision, since the
actor's `child` and the build's await say so; the groups of several watched views share the slot `watch`, and an entry
made by another build is replaced. A group may outlive its removal (a lingering group). The worker may die at every
point. A group has a leader and helpers; the death signal of PDEATHSIG reaches the leader or misses it (`DeathSignal`).
The leader's pid may be used again, which the start ticks tell from the original. `alone`, `overlapped`, `kept` and
`owed` are history: whether persists overlapped, which slots are as they were when the file was last replaced, and which
groups the next boot owes a kill. Version 1 files and builds that end by themselves are left out.

### DurableCommand and CommandService
A call is sent over one connection after another until it is answered. A connection has two ends that learn of its
loss separately; the reader of a client that was marked disconnected before it began to wait stays. The registry is
kept as record, completion order (`age`) and byte count; `execs` and `forgotten` are history for the properties. What
is dropped at an admission is an oldest part of `age` that has expired (`\E n`, the clock is abstract) and then as
many as the limits ask for (`Evicted`); `RunsOnce` says that a second execution of an operation begins only after the
first has ended and has been dropped. A restart gives the worker a new instance and clears what it knew. Queries, subscriptions and the phone's promotion
breaker are left out. `Setting` in the MC module chooses whether the two calls ask for the same command, for one
operation id with other parameters, or for two operations.

CommandService is the promise, without connections, lanes, requests or limits: a command is begun only when none of its
operation is remembered, and for one call only in one life of the service; it runs to its end unless the service dies
and is remembered until then; a call is told once, how a command equal to its own has ended or that it will not be
told. The mapping reads `runs` from `execs`, `kept` from the registry's records and `told` from the state of the call
at the phone. Most actions of DurableCommand (connecting, sending, waiting, losing, cancelling) map to a stutter.

### DeliveryAttempt and MessageLane
The runtime is single-threaded; a step is what runs between two awaits. Four activities interleave: `disp` the
dispatcher, `cons` the event consumer, `boot` the recovery, `resolver` the user's resolution. The database variables
(`queue`, `attempt`, `staged`, `turn`, `paused`, `log`) survive `Crash`. Both adapters are covered: Claude's process
ends with the runtime, the Codex app server may outlive it and can be asked for a turn's presence. Only root-turn
attempts are modelled; an unknown result and what the dispatcher does with it are one step.

MessageLane is the promise: a message is offered once, it holds the lane until it is settled, and it becomes a turn
only if the provider has taken it. `Outcome` is the refinement mapping from attempt rows and stages.

### JobRegistry
An operation id is started under the table's mutex; the record is copied there and sent to the phones later, so that
copies of one job overtake each other (`Copy`, `Send`). A *life* is one admission of an id: an id whose record was
evicted can be started again, and threads of the former life still act by the id's name. The starter stores the abort
handle after the task has been spawned (`Spawn`, `StoreHandle`); an abort takes effect at the task's next await
(`DropTask`). `told` is what a phone that keeps the highest revision knows. The action of a phone that reads a job
changes nothing and is left out.

### WorkerSupervision
The main thread's poll loop is cut at its branches: it sees a signal, a restart request, the end of the grace period or
the worker's exit. `Afterwards` is the decision after a worker was reaped (stop, spawn at once, back off). The worker
boots, wedges (the watchdog ends it), leaves by itself, crashes, or sticks while it closes. The guardian's listener and
the pressure thread call systemctl for one unit at a time (`MutateUnit`, `MonitorUnit`) and stop at the first failure.
A worker is taken to need longer to boot than the main thread needs to its first poll.

### CodexOperationQueue
The lane takes one viewer request at a time and the forwarder one event; each is cut where it gives up a lock or waits.
`driving` is the claim to drive the thread, taken by either. Answers go straight to the waiting thread, notifications
through the channel `events`. A request that timed out or whose connection was lost remains in `requests` on behalf of
nobody, and the app server may still take it. After `Disconnect` the forwarder reconnects, lists the threads and
reconciles. The app server is external: one turn at a time, a steer joins it or is refused. Edit, fork and the start of
a thread, and the management of the app server, are left out.

### TranscriptSync
An action of the viewer runs to its next await. The server is its revision and the revision at which turns were last
removed (`cut`), which makes a read of a window fail. The read generation is the flag `fresh` of each read: advancing
the generation clears the flag of all (`Outdated`). `pending` is the one coalesced refresh with its timer. Everything a
connection carries is lost with it. `twin` and `paged` in the reads and the refresh, and `excused`, are history. Version 1 of the
protocol and the reads of details are left out.

## 3. Runs

| Run | Configuration | Question and answer |
|---|---|---|
| supervisor | MCExtensionSupervisor.cfg | Do all interleavings of commands, exits, timers, builds and the watch start no server over a predecessor that nobody killed, keep a truthful status, owned bundles? Are exits handled and watchers revived? Yes |
| channel | ExtensionChannel.cfg | Does traffic reach announced generations only, do the queues keep their limits, does every request end? Yes, unless the child lives on behind a reader that has ended |
| run_state | RunStateStore.cfg | With two writers at one file and writes that fail: is the file torn only by an overlap, is a group whose record reached the file killed at the next boot, does the sweep spare strangers? Yes |
| command | DurableCommand.cfg | Does a remembered operation run once, is an answer its own, is the registry bounded and exact, does admitted work go on, is it CommandService? Yes |
| command_live | DurableCommandLive.cfg | Does every call end? Yes |
| jobs | JobRegistry.cfg | Is a record active exactly while its task is unfinished, is the last change announced, does every job settle? Yes, for ids that were never cancelled |
| worker | WorkerSupervision.cfg | Does a signal end supervisor and worker, is a restart request served, is the status true? Yes |
| guardian_frozen | GuardianFrozen.cfg | Are the background units thawed when the protection is over? No |
| delivery | DeliveryAttempt.cfg | Is a message sent once, in order, never dropped in doubt, and is the conversation a lane? Yes |
| delivery_suffix | DeliverySuffix.cfg | Is the lane of a finished turn always released? No |
| codex_queue | CodexOperationQueue.cfg | Is nothing that may have been taken dispatched again, is there one driver, does the queue drain? Yes |
| transcript | TranscriptSync.cfg | Does the screen never go back, and does it catch up with the server? Yes, but for the excused cases |

Every property of a passing run is broken by a mutant of the code it is about (`mutants`): for example
`UnpromptedExitUnswept` leaves the helpers of a crashed server alive, `CompleteAndRelease` forgets an outcome at once,
`OpenInPlace` writes the file without a temporary one.

### Bounds, and why they suffice
- supervisor: two views that are built and one of them watched (one may be skipped while the other builds), two process
  groups (an old, possibly dying, and a new instance), a budget of two crashes of the server (one before, one at the
  limit) and of three of the watch (`WatchBudget`: a respawn that fails, one more, and the limit), one watch/stop (a
  report is stale after one). The code has one budget for both; they are bounded apart to keep the run small.
  `WatcherIsRevived` does not lean on the size of the budget: since crashes of the watch leave the window only as said in
  section 2, a watcher that keeps failing spends any budget, and the property excuses an actor that is called away to
  other work again and again.
- channel: two requests over two children (`MaxGen = 4`: a child takes two generation numbers) and queues of one, so
  that every queue is full in some state.
- run_state: an actor with its server, watch and build slots and a detached build that shares the build slot (two writers
  that overlap in every way), two groups (symmetric), so that a slot is filled while it still has a group, and by either
  writer. A leader may escape the death signal (`DeathSignal = FALSE`), which is the harder case for `OrphansAreSwept`
  and `StrangersSpared`.
- command: two calls, two connections, one restart, room for one record or two, one byte of outcome, a lane of one and
  a retry limit of one. The last connection is never lost, otherwise the phone would only wait for the next.
  command_live has one call over three connections.
- jobs: two ids, a table of one record and three lives, so that the second id evicts the first and the third life may be
  the first id's again; one cancellation. The ids are alike, `BeginsWithFirst` keeps the behaviours that begin with one.
- worker: one unit that also ends with the worker, one slice, two operation ids (one request repeated or two), backoff
  saturating at two, one failure of systemctl. guardian_frozen needs two units, no operations.
- delivery: two messages of three events, a stage of two rows (256 in the code) so that it overflows, one crash.
- codex_queue: two messages and a compaction (one in flight, one behind it, one to steer or interrupt for) and one
  fault: a lost connection, a late request, or a notification that is not a turn's start or end.
- transcript: two changes (one may be lost, one may remove turns), two widths, three of pages, pauses, lost connections,
  failed reads and thread changes: a resume can overtake a page, a refresh and another resume.

### Fairness, and why the code grants it
- Supervisor: an await of the actor ends, because `execute` times builds out and stops escalate to SIGKILL and give up
  waiting for the group: weak fairness of `AwaitEnds`. `tokio::select!` polls its ready branches in random order, so one
  that is ready every time is taken: strong fairness for exits, the watch's timer and reports. Nothing is assumed of
  commands, children, dying groups, detached builds or the server's timer.
- Channel: tasks of the runtime run; a stop ends (SIGKILL), and a live child reads and answers what it has read. That
  last one is an assumption on extensions; without it a request waits as long as its child lives, since the channel
  has no timeout of its own. For the same reason `RpcEnds` excepts a child that stays alive behind a reader that has
  ended (`Deaf`). Nothing makes a child announce, exit or be spawned.
- Commands: the phone reconnects when it has no served connection (its heartbeat and backoff), and what neither side
  needs anyone's doing for goes on. Losses, cancellations and restarts are never fair.
- Jobs: the three threads of a life go on and the router answers. Nobody has to start, read or cancel.
- Worker: the main thread goes on, the grace period passes, the watchdog ends a wedged worker, and one that closes ends
  or sticks. No worker has to boot. `RestartServed` excuses an operator's signal, a worker that left before the request
  was taken, a failed spawn or wait, and a worker that sticks while it closes, which only a signal has killed.
- Delivery: awaits end, buffered events are read, the provider works on what it has taken. Its suffix counterexample
  holds under all of that.
- Codex queue: both threads run, a turn ends, and a request ends, were it by its timeout. `Drains` excuses a queue held up
  by an entry of unknown outcome, and what `excused` records: an entry of unknown outcome that was removed without a
  drive, a lost connection, a turn recorded as running or stopping after it had ended, and a turn that ended before its
  driver had given the claim back (`operation_queue.rs:582` rechecks only when nothing was started).
- Transcript: what is on its way arrives, timers fire, reads are answered, a resume ends: weak fairness of those steps
  only. The user, the connection and the server may stop. `CatchesUp` excuses a failed read, which is not repeated,
  and a refresh that a page has stranded (section 5).

CHECK_DEADLOCK is off where the system may come to rest (all calls over, all groups spent, all messages settled); the
supervisor run checks it.

## 4. Proofs

`ExtensionSupervisor_proofs` (any finite sets of views, any budget, any number of groups and watch sessions) proves
the six safety properties of the run "supervisor", and two that no run checks, `WatchKeptAlive` (a watched view without a
child has a respawn scheduled) and `BuildFailureKeepsBudget` (a failed build is no crash):

- `TypeCorrect`, `PredecessorsKilled`, `TruthfulState`, `WatchOwnership`, `WatchIsKeptAlive` from the inductive invariant
  `IInv == ServerOK /\ DiskOK /\ TaskShape /\ WatchOK`, and `LiveWatchersAreKept` as an action property from it.
  The listed properties are not inductive. `OpShape` adds which await belongs to which handler (else
  `ServerBuildDone` could end a build nobody started); `ReportsOK` adds that a report of the current generation is
  about a child that exited, and that none exists while the watch is being stopped (else a report could hit a live
  watcher); `OwnershipOK` adds the views a builder still has to take (else the next one might be a watched view).
  Each action is treated once for the server half and once for the watch half.
- `SpawnsOnGoodBuilds` and `FailedBuildIsNoCrash` need `BuildsOK` besides: what the start sequence has behind it when
  it awaits the next build is good. The lemmas `SequenceBuilds` and `StartFlowBuilds` say it of the helpers, and the
  actions that end in a helper share them.

`ExtensionChannel_proofs` (any requests, queue sizes and number of generations) proves the two invariants of the run
"channel", `TypeCorrect` (the queues and the pending map keep their limits) and `Routing`, and `PendingServed` (nobody
is left in the pending map of a dead child), which no run checks. The
invariant adds to them that a reader only holds readiness reports of generations that announced themselves
(`ReportsOK`), that a prepared generation is the current one of a running server (`SlotOK`), and that a child has a
generation number left for its end (`ChildOK`).

`RunStateStore_proofs` (any finite set of writers, any roles and groups):

- `TypeCorrect` and `StrangersAreSpared`: `TypeOK` needs that a writer that creates the temporary file finds an inode
  nobody uses: there are two more inodes than writers (`FreshInode`). `StrangersOK` adds that a pid is used again only
  after its group has emptied.
- `TornFilesAreShared`, `FileKeepsUnchangedSlots` and `RecordedOrphansAreSwept`, also for any number of writers and any
  failures. `AloneOK` says what a writer whose persist nobody has overlapped leaves at each step, `FileOK` that
  the file agrees with the entries on the kept slots, `ChildrenOK` that the entry of a slot with one writer follows the
  group supervised there, `OwedOK` that what the boot owes a kill is listed in the file it reads.

`JobRegistry_proofs` (any operation ids, table size, lives and cancellations) proves the run's three invariants
(`TypeCorrect`, `RecordsAreTasks`, `ChangesAreAnnounced`). `TasksOK` adds the order of the threads of a life
and that a record belongs to a life of its id, or a thread of an evicted life could touch a later one. `NewsOK` adds
that a copy under way is older than the record or is the record, and that someone still owes the announcement of a
change the phones have not seen.

`TranscriptSync_proofs` (any number of changes, widths and events) proves `TypeCorrect` and the action property
`ScreenNeverBackwards`. The invariant says that the answer of the only read of a generation is at least what is on
screen, because the screen has not changed since it was asked for (`Ahead`); that two reads of one generation know it
(`Twins`); and what a closed thread, a resume and the widths leave behind.

`CodexOperationQueue_proofs` (any messages, compactions and faults) proves `TypeCorrect`, `ClaimIsExclusive` and
`NothingIsSentAgain`. The invariant follows an entry: it is in the queue, in a thread's hand or in a request, is asked to
start a turn once and to steer once (`CarriedOK`, `StartsOK`, `SteersOK`), and what may have been taken is out
of the queue, quarantined or being steered. `BudgetOK` counts what can still be taken, which bounds `turns`.

`DurableCommand_proofs` (any calls, operations, parameters, limits, connections and restarts) proves
`OperationsRunOnce`, `NoBlindRetry`, `AnswersAreOwn` and `AdmittedRuns` (only a restart stops what was admitted), all
from one invariant (`Invariance`): which connections have been opened and that the promoted one leads to the instance
last seen (`ConnsOK`); that every request of a waiting call went to the instance it remembers (`AdmittedThere`); that a record
stands for an execution of its operation at the running instance and that the terminal ones are those of the
completion order (`RecordOK`, `AgeOK`, `LiveOK`); and whose outcome a request carries (`ReqOK`). The registry is
spoken of by predicates of its six variables, so that one lemma about evicting (`EvictionKeeps`), starting
(`StartKeeps`) and completing (`OutcomeKeeps`) serves all the steps that do it.
`TypeCorrect` adds the limits (`LimitsOK`): records, bytes, lane and requests being handled keep to theirs and
`bytes` is exact. A sum over records would need induction over data; the model counts instead a set in which every
byte is named by its operation and its place (`BytesOf`), and the facts on unions and cardinalities suffice
(`BytesMore`, `BytesFewer`). `EvictedFits` says that the eviction loop ends with what fits, or with nothing terminal
left; it needs that the loop's count is the least that fits, hence `LeastIsThere`.
`ServesCommands` is the refinement of CommandService. The invariant has nothing that ties an execution to the
connections, and without that a call could be begun in two lives: `ServiceOK` adds that what is connected leads to the
running instance and that what a call ran at an instance was asked for over a connection to it. The rest is one lemma
per kind of step. The delicate ones insert or complete a record and evict others in the same step: what leaves has
ended (`OnlyEndedIsForgotten`), and a completion never evicts its own outcome, because without the others it fits
(`NewestStays`, which needs `LimitsOK`). `AdmittedRuns` follows from it in substance and is proved for itself, as a
property of one step in the words of the code.

`DeliveryAttempt_proofs` (any messages, events per turn, stage limit and number of crashes) proves the three safety
invariants of the run "delivery", its `TypeOK`, and the refinement of MessageLane (`ImplementsLane`), all from
`IInv`:

- `ActivitiesOK` says which of the four activities can be under way beside each other, and what a session that has gone
  takes with it. `MessagesOK` relates, per message, its row, the hand-over and the process: a message is written only
  while its attempt is open, and evidence exists only of what the provider has taken. That is what makes `writes` at
  most one, and a refusal safe.
- `SilentOK` and `DispatchOK` follow the message of the dispatcher; without them an attempt could be rejected with a
  stage, or a call time out on an attempt that was refused.
- `LaneOK`: at most one message holds the lane and only that one has a stage. `LaneMoves` turns what a step does to the
  outcome of its one message into the step of MessageLane, so that every action is treated once for both.
- `JournalOK` looks at the pipeline stream, batch or stage, journal. `Flow` says that of each source what is further on
  was made earlier, `RestOK` that the rest of a batch is about no message with a stage (else it would overtake the
  stage), `SnapsOK` that what is being prepared is still the beginning of the stage unless another activity has admitted
  it, `Remembered` that nothing has dropped out. They are predicates of the parts of the pipeline, and one lemma for each
  way of moving observations (`NextIsEmitted`, `BatchIsRead`, `BatchIsShared`, `StageIsJournaled`, `RestIsJournaled`,
  `MemoryIsLost`) serves all the actions.
- `Without` (what is not yet in the journal or the stage) is defined by the indices it keeps, because `SelectSeq` is
  recursive and out of the prover's reach; `KthCounts` and `WithoutIs` prove that it keeps the order and what it keeps.

Assumptions: `SupervisorAssumption`, `ChannelAssumption`, `StoreAssumption`, `JobsAssumption`, `SyncAssumption`,
`QueueAssumption`, `CommandAssumption` and `DeliveryAssumption`, in the modules they are about; TLC evaluates them. They ask that sets of
actors are finite, that limits are natural numbers (positive where the code's constants are) and that "nobody" is none
of the values. Every inductive invariant was checked by TLC on the instance of its run before it was proved.

Only model-checked: all liveness (out of the prover's reach, as is ENABLED), and `TypeOK` of WorkerSupervision, the
only invariant of a component whose other properties are about progress.

## 5. Where documents and code disagree

With a run that shows it:

- delivery_suffix: the admission that loses the race does not drain what it staged, so the lane of a finished turn can
  stay held until the next event or boot.
- guardian_frozen: `sample_protection` clears the flag before it thaws and drops the error of the first systemctl that
  fails, so that the remaining units stay frozen until the next episode. `docs/architecture/remux-runtime.md:107` says it
  thaws them after recovery. A mutation beside the pressure thread can do the same.

Seen while modelling, without a run of their own (paths below `crates/remux/src`, `extensions/codex` and `docs`):

- A build beside a watch: when the watch has given up, the watchers of other views live on while `watch_enabled` is off; the
  next start then builds their views beside them (`extensions/supervisor.rs:985`). `specs/view-build-watch.md:150` says
  such a view is skipped. ExtensionSupervisor allows it; `WatchOwnsBundle` speaks of enabled watches.
- Gateway readiness: the reader activates the generation and publishes its readiness in two steps
  (`extensions/supervisor.rs:2289`). A stop between them leaves the stopped server's status ready until the next spawn or
  stop; `tests/chaos.rs:293` asserts otherwise. New traffic follows the slot, and `RoutedToAnnounced` holds.
- Overlapping instances: `extensions/supervisor.rs:1845` kills the group "before any respawn so instances can never
  overlap", line 1931 says "restart can never overlap two instances". The crash path does not wait for the killed group,
  and a stop gives up waiting (1995-2004, which the code reports as `extension:group-lingering`); both go on to spawn. What
  holds is `PredecessorsAreKilled`.
- Unread answers: `read_lines` "resolves when the stream reaches EOF" (`extensions/process.rs:117`), and also at the first
  line that is too long or not UTF-8 (143, 153, 159). The child is not stopped, its later answers go nowhere, and
  requests wait as long as it lives (`RpcEnds` excepts this).
- Run state, temporary file: `persist` runs after the lock is released and every writer uses one temporary name
  (`extensions/runstate.rs:117`); line 92 calls the rewriting atomic. Two that overlap can leave a torn file or the
  older snapshot, which is all that `TornByOverlapOnly` excepts; a write that fails is dropped (146-152), and the file
  stays older than the entries until the next one.
- Run state, watch slot: `extensions/runstate.rs:29` says that an extension has at most one watch group at a time; it has
  one for each watched view, recorded in the one slot over the one before (`extensions/supervisor.rs:1391`), so that
  the file knows the last only.
- Run state, orphans: the death signal kills the recorded leader, and the sweep skips a group whose leader is gone
  (`runstate.rs:189`); line 4 says the file covers re-parented grandchildren.
- Run state, build slot: two builds can be live in the one slot of `runstate.rs:35`, a detached views build beside a build of
  the actor. The file knows the later one, and its removal by either forgets the other (`Sole` and `entries` in `Registered`).
- Jobs: a cancellation that falls into the task's first poll records "canceled" (`rpc/ws.rs:1275-1277`); the task goes on to
  its first await, records "running" over it (1180) and is dropped there, so that the record stays running. A slow starter
  can also store its handle in the record of a later life of the id. `Untouched` leaves ids that were cancelled out of
  the jobs' properties for these reasons.
- Guardian: an operation id is remembered before the mutation is tried (`guardian.rs:212`); a retry after a failure is
  answered "replayed".
- Codex steer: a message is steered while it is still in the queue and not yet marked (`server/src/operation_queue.rs:460`);
  if the turn ends meanwhile the driver dispatches it as well. The test at line 933 is named
  `ambiguous_send_now_is_quarantined_and_not_replayed`. `NothingSentIsDrivable` excepts exactly this window.
- Codex busy without a turn: the lane records a turn as running (`server/src/thread_commands.rs:566`, 506) after the
  forwarder has recorded its end; the thread then stays busy (`operation_queue.rs:338`) and its queue waits until the
  next event. `Drains` excuses it.
- Transcript, stranded refresh: a refresh that comes due during a page is run by nobody
  (`viewer/transcript/resourceStore.ts:449`, 600). `specs/codex/server-authoritative-transcript-windows.md:675`: "New
  invalidations mark it dirty and cause one trailing sync".
- Transcript, two reads of a generation: `setWidth` issues a read in the current generation (`resourceStore.ts:667`,
  `layoutStore.ts:141`) beside the one in flight; the same line of the document asks for at most one.
- Transcript, resume: the tail that a resume reads is outdated by a refresh that preserves the window, so that the tail
  may not be shown (the same document, line 36). The batch of invalidations keeps the first of equal keys and with it
  drops `affectsOrder` of a later one (`viewer/ipc/resourceInvalidations.ts:58`).

## 6. Plan

Done: supervisor, channel, run-state store, commands, jobs, process supervision with the guardian, delivery, the Codex
queue and the Codex viewer's transcript.

Next, proofs: `TypeOK` of WorkerSupervision, and with it that the recorded status is the worker's.

Next, modelling: federation checkouts and credentials; viewer bundle publication; the agent viewer's store; steer and
compact attempts of DeliveryAttempt and the end of a foreign `preparing` attempt; the supervisor's run-state slots
composed with RunStateStore; file relay leases; notification presence; terminal attach and replay.

## 7. Not modelled, and why

Parsing and validation of manifests and settings, authentication, serving of files, logs and monitoring are data or
I/O with no protocol between activities. User interfaces are left out except for the phone's command path. Providers,
extension servers and the operating system appear as nondeterministic actions (marked external in the map). Clocks are
abstract everywhere: a timer that is set may fire. Payloads are model values; only what a property tells apart is kept
(which command, which parameters, which event of a turn).
