--------------------------- MODULE WorkerSupervision ---------------------------
(***************************************************************************)
(* The process that keeps the worker alive: crates/remux/src/supervise.rs  *)
(* (L1) and crates/remux/src/guardian.rs (L0.5) in one process.            *)
(*                                                                         *)
(*   supervisor  the main thread: spawns the worker, polls it, forwards a  *)
(*               pending signal, takes restart requests, reaps, waits;     *)
(*   http        the guardian's listener, one request at a time: restart   *)
(*               the worker, engage or release the protection, pause,      *)
(*               resume, stop or restart an extension;                     *)
(*   monitor     the pressure thread: it samples every 250 ms and freezes  *)
(*               or thaws the background units.                            *)
(*                                                                         *)
(* The threads share a flag, restart_worker, and another, protecting; both *)
(* http and monitor call systemctl for one unit after the other.  The      *)
(* worker is a process that may crash, wedge or leave at any moment.       *)
(***************************************************************************)
EXTENDS Naturals, FiniteSets

CONSTANTS
    Unit,           \* background, build and research scopes (freeze_matching)
    Ordinary,       \* those that end with the worker (cleanup_ordinary_scopes)
    Slice,          \* the slices of one extension
    Operation,      \* operation ids of mutations
    MaxExponent,    \* bound: backoff_exponent and the failure count saturate here
    MaxFaults       \* bound: how many calls of systemctl fail

ASSUME SupervisionAssumption == /\ Ordinary \subseteq Unit
                                /\ {MaxExponent, MaxFaults} \subseteq Nat
                                /\ MaxExponent > 0

VARIABLES
    sup,        \* where the main thread is
    asked,      \* guardian_restart_requested, a local of the poll loop
    forwarded,  \* forwarded_at.is_some()
    grace,      \* the seven seconds after it are over
    exponent,   \* backoff_exponent
    signal,     \* pending_signal
    restart,    \* restart_worker
    status,     \* worker_pid set, consecutive_boot_failures, next_retry_at_ms set
    worker,     \* the worker process
    code,       \* how it ended
    protecting, \* the flag of the protection
    frozen,     \* the units and slices that are frozen
    known,      \* operations: the ids of mutations begun so far
    http,       \* the mutation under way and the units it still has to do
    monitor,    \* what the pressure thread does, likewise
    faults

supVars == <<sup, asked, forwarded, grace, exponent, signal, status>>
workerVars == <<worker, code>>
guardVars == <<protecting, frozen, known, http, monitor, faults>>
vars == <<supVars, restart, workerVars, guardVars>>

Idle == [doing |-> "nothing", todo |-> {}]
OverUnits == {"engage", "release"}
OverSlices == {"pause", "resume", "stop", "restartExtension"}
Mutation == {"restartWorker"} \cup OverUnits \cup OverSlices
Freezing == {"engage", "pause"}
Over == {"stopped", "failed"}

Init ==
    /\ sup = "spawn"
    /\ asked = FALSE /\ forwarded = FALSE /\ grace = FALSE
    /\ exponent = 0 /\ signal = FALSE /\ restart = FALSE
    /\ status = [pid |-> FALSE, failures |-> 0, retry |-> FALSE]
    /\ worker = "none" /\ code = "none"
    /\ protecting = FALSE /\ frozen = {} /\ known = {}
    /\ http = Idle /\ monitor = Idle /\ faults = 0

-----------------------------------------------------------------------------
(* The worker.  It ignores SIGTERM when it is wedged or already closing; one *)
(* that wedges while it closes is out of its watchdog's reach.               *)

Gone == worker \in {"none", "dead"}

Signalled(w) == CASE w = "booting" -> "dead"
                  [] w = "ready"   -> "closing"
                  [] OTHER         -> w

SendTerm == /\ worker' = Signalled(worker)
            /\ code' = IF worker = "booting" THEN "crash" ELSE code

Dies(how) == worker' = "dead" /\ code' = how

\* A worker takes longer to boot than the main thread to its first poll.
Polled == sup \in {"signal", "restart", "kill"}

Boots == worker = "booting" /\ Polled /\ worker' = "ready" /\ UNCHANGED code
Wedges == worker = "ready" /\ worker' = "wedged" /\ UNCHANGED code
\* A stop of the service signals the worker as well as the supervisor.
Leaves == worker = "ready" /\ worker' = "closing" /\ UNCHANGED code
Closes == worker = "closing" /\ Dies("clean")
Sticks == worker = "closing" /\ worker' = "stuck" /\ UNCHANGED code
RestartsItself == worker = "ready" /\ Dies("restart")
Crashes == ~Gone /\ Dies("crash")
\* The watchdog aborts a wedged worker.
Watchdog == worker = "wedged" /\ Dies("crash")

WorkerStep ==
    /\ sup \notin Over
    /\ Boots \/ Wedges \/ Leaves \/ Closes \/ Sticks \/ RestartsItself \/ Crashes \/ Watchdog
    /\ UNCHANGED <<supVars, restart, guardVars>>

-----------------------------------------------------------------------------
(* The main thread.                                                         *)

Goes(from, to) == sup = from /\ sup' = to

Spawn ==
    /\ \/ /\ Goes("spawn", "register")
          /\ worker' = "booting" /\ code' = "none"
       \/ /\ Goes("spawn", "failed")
          /\ UNCHANGED workerVars
    /\ asked' = FALSE /\ forwarded' = FALSE /\ grace' = FALSE
    /\ UNCHANGED <<exponent, signal, status, restart, guardVars>>

\* set_worker_starting
Register ==
    /\ Goes("register", "wait")
    /\ status' = [status EXCEPT !.pid = TRUE, !.retry = FALSE]
    /\ UNCHANGED <<asked, forwarded, grace, exponent, signal, restart, workerVars, guardVars>>

\* try_wait
Wait ==
    /\ \/ worker = "dead" /\ Goes("wait", "reap")
       \/ worker # "dead" /\ Goes("wait", "signal")
    /\ UNCHANGED <<asked, forwarded, grace, exponent, signal, status, restart,
                   workerVars, guardVars>>

\* try_wait fails: the worker is killed and waited for.
WaitFails ==
    /\ Goes("wait", "failed")
    /\ worker' = "dead" /\ code' = IF worker = "dead" THEN code ELSE "crash"
    /\ UNCHANGED <<asked, forwarded, grace, exponent, signal, status, restart, guardVars>>

ForwardSignal ==
    /\ Goes("signal", "restart")
    /\ IF signal /\ ~forwarded
       THEN forwarded' = TRUE /\ SendTerm
       ELSE UNCHANGED <<forwarded, workerVars>>
    /\ UNCHANGED <<asked, grace, exponent, signal, status, restart, guardVars>>

\* take_worker_restart is a swap: it empties the flag even when the worker
\* was told before.
TakeRestart ==
    /\ Goes("restart", "kill")
    /\ restart' = FALSE
    /\ IF restart /\ ~asked
       THEN asked' = TRUE /\ SendTerm
       ELSE UNCHANGED <<asked, workerVars>>
    /\ UNCHANGED <<forwarded, grace, exponent, signal, status, guardVars>>

\* Mutant: a worker that does not leave is waited for.
KillNever ==
    /\ Goes("kill", "wait")
    /\ UNCHANGED <<asked, forwarded, grace, exponent, signal, status, restart,
                   workerVars, guardVars>>

KillAfterGrace ==
    /\ Goes("kill", "wait")
    /\ IF grace /\ ~Gone THEN Dies("crash") ELSE UNCHANGED workerVars
    /\ UNCHANGED <<asked, forwarded, grace, exponent, signal, status, restart, guardVars>>

GraceElapses ==
    /\ forwarded /\ ~grace /\ sup \notin Over
    /\ grace' = TRUE
    /\ UNCHANGED <<sup, asked, forwarded, exponent, signal, status, restart,
                   workerVars, guardVars>>

Capped(n) == IF n < MaxExponent THEN n + 1 ELSE n

Stops == Goes("reap", "stopped") /\ UNCHANGED <<exponent, status>>

\* Mutant: the published failure count is not reset.
SpawnsUnreset ==
    /\ Goes("reap", "spawn")
    /\ exponent' = 0
    /\ UNCHANGED status

SpawnsAtOnce ==
    /\ Goes("reap", "spawn")
    /\ exponent' = 0
    /\ status' = [status EXCEPT !.failures = 0, !.retry = FALSE]

\* The delay begins anew after a minute of uptime.
Delays ==
    /\ Goes("reap", "backoff")
    /\ \E base \in {0, exponent} : exponent' = Capped(base)
    /\ status' = [pid |-> FALSE, failures |-> exponent', retry |-> TRUE]

\* Mutant: the exit code is looked at before the guardian's request.
CodeFirst ==
    \/ (forwarded \/ code = "clean") /\ Stops
    \/ ~forwarded /\ code # "clean" /\ (asked \/ code = "restart") /\ SpawnsAtOnce
    \/ ~forwarded /\ ~asked /\ code = "crash" /\ Delays

\* What a worker's end leads to.
Afterwards ==
    \/ forwarded /\ Stops
    \/ ~forwarded /\ (asked \/ code = "restart") /\ SpawnsAtOnce
    \/ ~forwarded /\ ~asked /\ code = "clean" /\ Stops
    \/ ~forwarded /\ ~asked /\ code = "crash" /\ Delays

\* The scopes of the worker end with it, frozen or not.
Reap ==
    /\ Afterwards
    /\ frozen' = frozen \ Ordinary
    /\ UNCHANGED <<asked, forwarded, grace, signal, restart, workerVars,
                   protecting, known, http, monitor, faults>>

\* The wait is left for a signal.
Backoff ==
    /\ \/ signal /\ Goes("backoff", "stopped")
       \/ ~signal /\ Goes("backoff", "spawn")
    /\ UNCHANGED <<asked, forwarded, grace, exponent, signal, status, restart,
                   workerVars, guardVars>>

\* SIGINT or SIGTERM arrives.
Signal ==
    /\ ~signal /\ sup \notin Over
    /\ signal' = TRUE
    /\ UNCHANGED <<sup, asked, forwarded, grace, exponent, status, restart,
                   workerVars, guardVars>>

Supervise == Spawn \/ Register \/ Wait \/ WaitFails \/ ForwardSignal \/ TakeRestart
             \/ KillAfterGrace \/ Reap \/ Backoff

-----------------------------------------------------------------------------
(* The guardian's listener.                                                 *)

Targets(what) == CASE what \in OverUnits  -> Unit
                   [] what \in OverSlices -> Slice
                   [] OTHER               -> {}

\* An id that is known is answered as replayed, and nothing is done.
Post(o, what) ==
    /\ sup \notin Over /\ http = Idle
    /\ o \notin known
    /\ known' = known \cup {o}
    /\ http' = [doing |-> what, todo |-> Targets(what)]
    /\ UNCHANGED <<supVars, restart, workerVars, protecting, frozen, monitor, faults>>

Freeze(what, u) == IF what \in Freezing THEN frozen \cup {u} ELSE frozen \ {u}

\* One call of systemctl.  A restart of an extension is a stop of its slices
\* and, with each, a request to restart the worker.
MutateUnit(u) ==
    /\ sup \notin Over
    /\ u \in http.todo
    /\ http' = [http EXCEPT !.todo = @ \ {u}]
    /\ frozen' = Freeze(http.doing, u)
    /\ restart' = (restart \/ http.doing = "restartExtension")
    /\ UNCHANGED <<supVars, workerVars, protecting, known, monitor, faults>>

\* systemctl fails, for a unit that is gone since it was listed or for any
\* other reason: the rest is left undone and the id stays known.
MutateFails ==
    /\ sup \notin Over
    /\ http.todo # {} /\ faults < MaxFaults
    /\ faults' = faults + 1
    /\ http' = Idle
    /\ UNCHANGED <<supVars, restart, workerVars, protecting, frozen, known, monitor>>

MutateDone ==
    /\ sup \notin Over
    /\ http # Idle /\ http.todo = {}
    /\ http' = Idle
    /\ restart' = (restart \/ http.doing = "restartWorker")
    /\ protecting' = CASE http.doing = "engage"  -> TRUE
                       [] http.doing = "release" -> FALSE
                       [] OTHER                  -> protecting
    /\ UNCHANGED <<supVars, workerVars, frozen, known, monitor, faults>>

-----------------------------------------------------------------------------
(* The pressure thread: it swaps the flag first and calls systemctl after.  *)

\* The heartbeat is late under pressure, or it is back; in between nothing
\* happens.
Sample ==
    /\ sup \notin Over /\ monitor = Idle
    /\ protecting' = ~protecting
    /\ monitor' = [doing |-> IF protecting THEN "release" ELSE "engage", todo |-> Unit]
    /\ UNCHANGED <<supVars, restart, workerVars, frozen, known, http, faults>>

MonitorUnit(u) ==
    /\ sup \notin Over
    /\ u \in monitor.todo
    /\ monitor' = IF monitor.todo = {u} THEN Idle ELSE [monitor EXCEPT !.todo = @ \ {u}]
    /\ frozen' = Freeze(monitor.doing, u)
    /\ UNCHANGED <<supVars, restart, workerVars, protecting, known, http, faults>>

\* The error is dropped, and with it the units that were still to be done.
MonitorFails ==
    /\ sup \notin Over
    /\ monitor.todo # {} /\ faults < MaxFaults
    /\ faults' = faults + 1
    /\ monitor' = Idle
    /\ UNCHANGED <<supVars, restart, workerVars, protecting, frozen, known, http>>

Next ==
    \/ Supervise \/ GraceElapses \/ Signal \/ WorkerStep
    \/ \E o \in Operation, what \in Mutation : Post(o, what)
    \/ \E u \in Unit \cup Slice : MutateUnit(u) \/ MonitorUnit(u)
    \/ MutateFails \/ MutateDone \/ Sample \/ MonitorFails

Spec == Init /\ [][Next]_vars

\* The main thread goes on, the grace period passes, the watchdog fires on a
\* wedged worker and a closing one leaves or sticks.  No worker has to boot
\* and nobody has to ask for anything.
FairSpec ==
    /\ Spec
    /\ WF_vars(Supervise)
    /\ WF_vars(GraceElapses)
    /\ WF_vars(WorkerStep /\ (Watchdog \/ Closes \/ Sticks))

-----------------------------------------------------------------------------
\* Types; and the status endpoint tells the number of failures the next delay
\* is computed from, and of a retry only while no worker has been registered.
TypeOK ==
    /\ sup \in {"spawn", "register", "wait", "signal", "restart", "kill", "reap",
                "backoff"} \cup Over
    /\ worker \in {"none", "booting", "ready", "wedged", "closing", "stuck", "dead"}
    /\ code \in {"none", "restart", "clean", "crash"}
    /\ worker = "dead" <=> code # "none"
    /\ exponent \in 0..MaxExponent
    /\ {asked, forwarded, grace, signal, restart, protecting} \subseteq BOOLEAN
    /\ status \in [pid: BOOLEAN, failures: 0..MaxExponent, retry: BOOLEAN]
    /\ status.failures = exponent
    /\ status.retry => sup \in {"backoff", "spawn", "register"} \cup Over
    /\ DOMAIN http = DOMAIN Idle /\ http.todo \subseteq Unit \cup Slice
    /\ DOMAIN monitor = DOMAIN Idle /\ monitor.todo \subseteq Unit
    /\ frozen \subseteq Unit \cup Slice
    /\ known \subseteq Operation
    /\ faults \in 0..MaxFaults

\* A signal ends it all: whatever the worker and the guardian do, and even if
\* the worker wedges while it closes, the supervisor ends and leaves no worker.
ShutdownEnds == signal ~> (sup \in Over /\ Gone)

\* A restart asked of the guardian is followed by a new worker, also when the
\* worker exits cleanly for it, crashes first or is wedged.  Excused are an
\* operator's signal, a worker that left before the request was taken, a
\* failure to spawn or wait, and a worker that wedges while it closes, which
\* the guardian does not kill.
RestartServed ==
    restart ~> \/ sup \in {"spawn", "failed"}
               \/ sup = "stopped" /\ (signal \/ ~asked)
               \/ worker = "stuck"

\* docs/architecture/remux-runtime.md:107: the guardian "freezes lower priority
\* build/background/research scopes and thaws them after recovery".
FrozenWhileProtecting ==
    ~protecting /\ monitor = Idle /\ http = Idle => frozen \cap Unit = {}
=============================================================================
