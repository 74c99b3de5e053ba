-------------------------- MODULE CodexOperationQueue --------------------------
(***************************************************************************)
(* The pending queue of one Codex thread                                   *)
(* (extensions/codex/server/src/operation_queue.rs), the runtime state it  *)
(* asks whether the thread is busy (thread_runtime.rs), the commands it    *)
(* sends (thread_commands.rs) and the connection to the Codex app server   *)
(* (app_server.rs, main.rs).                                               *)
(*                                                                         *)
(* Two threads of the extension share the stores: the lane takes one       *)
(* request of the viewers at a time, the forwarder one event of the app    *)
(* server at a time.  Each is cut where it gives up a lock or waits for an *)
(* answer.  The reader of the socket hands answers to the waiting thread   *)
(* and notifications to the forwarder's channel, so that nothing orders    *)
(* an answer with the notifications that were sent after it.               *)
(*                                                                         *)
(* The app server is external: it runs one turn at a time, takes a message *)
(* into the running turn or refuses it, and may take a request that the    *)
(* extension has stopped waiting for.                                      *)
(***************************************************************************)
EXTENDS Integers, Sequences, SequencesExt, FiniteSets

CONSTANTS
  Messages,     \* messages of the user, each submitted once
  Compactions,  \* compactions, each submitted once
  NoEntry,      \* no entry in hand
  MaxFaults     \* bound on lost connections, requests that time out, and
                \* notifications other than a turn's start and end

ASSUME QueueAssumption ==
  /\ IsFiniteSet(Messages) /\ IsFiniteSet(Compactions)
  /\ Messages \cap Compactions = {} /\ NoEntry \notin Messages \cup Compactions
  /\ MaxFaults \in Nat

Entries == Messages \cup Compactions
NoTurn == 0
Turns == 1 .. Cardinality(Entries)

VARIABLES
  entries, unknown,  \* the thread's PendingQueueStore
  status, active,    \* the thread's ThreadRuntimeState
  driving,           \* the thread is in driving_threads
  pc, cur,           \* per thread of the extension: next step, entry in hand
  aim,               \* the turn the lane steers or interrupts
  note,              \* the notification the forwarder has in hand
  submitted,         \* entries the viewers have submitted
  connected, events, \* the connection and the forwarder's channel
  requests, answer,  \* requests on their way, and who has been answered what
  turn, turns,       \* the app server: the running turn, turns so far
  taken,             \* how often the app server has taken an entry
  faults,            \* counter of the bound
  excused            \* history: a wake-up may have been lost, see Drains

store == <<entries, unknown>>
runtime == <<status, active>>
appServer == <<turn, turns, taken>>
vars == <<store, runtime, driving, pc, cur, aim, note, submitted, connected,
          events, requests, answer, appServer, faults, excused>>

Lane == "lane"
Forwarder == "forwarder"
Threads == {Lane, Forwarder}
LateCaller == "nobody"

\* What the app server says of the thread.
Note(kind, t) == [kind |-> kind, turn |-> t]
Asides == {"item", "active", "idle", "error", "systemError"}
NoNote == Note("none", NoTurn)
Ends == {"completed", "interrupted", "failed"}
Clearing == {"interrupted", "failed", "error", "systemError"}

\* A request carries its caller, so that an answer finds it.
Request(a, kind, e, t) == [from |-> a, kind |-> kind, entry |-> e, turn |-> t]
NoAnswer == [ok |-> FALSE, turn |-> -1]
Ok(t) == [ok |-> TRUE, turn |-> t]
Failure == [ok |-> FALSE, turn |-> NoTurn]

PCs == {"idle", "append", "drive", "pop", "send", "await", "clear", "release",
        "done", "recheck", "sendDirect", "awaitDirect", "steer", "steering", "interrupt", "interrupting",
        "effect", "reconnect", "list", "clearRuntime", "read"}

TypeOK ==
  /\ ToSet(entries) \subseteq submitted /\ submitted \subseteq Entries
  /\ Len(entries) = Cardinality(ToSet(entries))
  /\ unknown \subseteq ToSet(entries) \cap Messages
  /\ status \in {"ready", "running", "stopping", "failed"}
  /\ active \in Turns \cup {NoTurn}
  /\ driving \in BOOLEAN /\ connected \in BOOLEAN
  /\ pc \in [Threads -> PCs] /\ cur \in [Threads -> Entries \cup {NoEntry}]
  /\ aim \in Turns \cup {NoTurn} /\ turn \in Turns \cup {NoTurn}
  /\ turns \in Turns \cup {0} /\ taken \in [Entries -> 0 .. 2]
  /\ \A r \in requests : r.from \in Threads \cup {LateCaller}
  /\ faults \in 0 .. MaxFaults

Init ==
  /\ entries = <<>> /\ unknown = {}
  /\ status = "ready" /\ active = NoTurn /\ driving = FALSE
  /\ pc = [a \in Threads |-> "idle"] /\ cur = [a \in Threads |-> NoEntry]
  /\ aim = NoTurn /\ note = NoNote /\ submitted = {}
  /\ connected = TRUE /\ events = <<>>
  /\ requests = {} /\ answer = [a \in Threads |-> NoAnswer]
  /\ turn = NoTurn /\ turns = 0 /\ taken = [e \in Entries |-> 0]
  /\ faults = 0 /\ excused = FALSE

Busy == status \in {"running", "stopping"}
InQueue(e) == Contains(entries, e)
Drivable == entries # <<>> /\ Head(entries) \notin unknown
Goto(a, step) == pc' = [pc EXCEPT ![a] = step]
Holds(a, e) == cur' = [cur EXCEPT ![a] = e]

\* Mutant: the queue is emptied, the marks stay.
ClearEntriesOnly == entries' = <<>> /\ UNCHANGED unknown

\* PendingQueueStore::clear and ::remove, which keeps all entries but the one
\* that has this id.
Clear == entries' = <<>> /\ unknown' = {}
Without(e) == entries' = RemoveFirst(entries, e) /\ unknown' = unknown \ {e}

\* AppServerRuntime::request: on a lost connection it connects first, which
\* announces a reconnection to the forwarder.
Sends(a, request) ==
  /\ requests' = requests \cup {request}
  /\ answer' = [answer EXCEPT ![a] = NoAnswer]
  /\ connected' = TRUE
  /\ events' = IF connected THEN events
               ELSE Append(events, Note("reconnected", NoTurn))
Fails(a) == /\ answer' = [answer EXCEPT ![a] = Failure]
            /\ UNCHANGED <<connected, events, requests>>
Answered(a) == answer[a] # NoAnswer
Forget(a) == answer' = [answer EXCEPT ![a] = NoAnswer]

\* record_turn_accepted; a compaction's answer names no turn.
Accepted(t) ==
  /\ status' = "running" /\ active' = IF t = NoTurn THEN active ELSE t

\* The forwarder has already recorded the end of the turn that the lane is
\* about to record as accepted or stopping: nothing will end it again.
Overtaken == turn = NoTurn /\ \A n \in ToSet(events) : n.kind \notin Ends

-----------------------------------------------------------------------------
(* Driving the queue: both threads do it.                                  *)

UnchangedInDrive == UNCHANGED <<aim, note, submitted, appServer, faults>>

\* Mutant: the claim of the other thread is not looked at.
ClaimAlways(a) ==
  /\ pc[a] = "drive"
  /\ IF Busy THEN Goto(a, "idle") /\ UNCHANGED driving
             ELSE Goto(a, "pop") /\ driving' = TRUE
  /\ UNCHANGED <<store, runtime, cur, connected, events, requests, answer, excused>>
  /\ UnchangedInDrive

\* drive_if_idle: a busy thread, or one that is being driven, is left alone.
Claim(a) ==
  /\ pc[a] = "drive"
  /\ IF Busy \/ driving THEN Goto(a, "idle") /\ UNCHANGED driving
                        ELSE Goto(a, "pop") /\ driving' = TRUE
  /\ UNCHANGED <<store, runtime, cur, connected, events, requests, answer, excused>>
  /\ UnchangedInDrive

\* drive_claimed_thread, up to the request.
Pop(a) ==
  /\ pc[a] = "pop"
  /\ IF ~Busy /\ Drivable
       THEN /\ entries' = Tail(entries)
            /\ Holds(a, Head(entries)) /\ Goto(a, "send")
       ELSE Goto(a, "release") /\ UNCHANGED <<entries, cur>>
  /\ UNCHANGED <<unknown, runtime, driving, connected, events, requests, answer, excused>>
  /\ UnchangedInDrive

\* dispatch_queued_message and dispatch_queued_compaction: thread/resume, which
\* may fail, then turn/start or thread/compact/start.
Send(a) ==
  /\ pc[a] \in {"send", "sendDirect"}
  /\ LET queued == pc[a] = "send" IN
     \/ /\ (Sends(a, Request(a, "start", cur[a], NoTurn)) \/ Fails(a))
        /\ Goto(a, IF queued THEN "await" ELSE "awaitDirect") /\ UNCHANGED cur
     \/ /\ Goto(a, IF queued THEN "clear" ELSE "idle") /\ Holds(a, NoEntry)
        /\ UNCHANGED <<connected, events, requests, answer>>
  /\ UNCHANGED <<store, runtime, driving, excused>> /\ UnchangedInDrive

\* start_turn and dispatch_queued_compaction, from the answer on.
Dispatched(a) ==
  /\ pc[a] \in {"await", "awaitDirect"} /\ Answered(a)
  /\ Forget(a) /\ Holds(a, NoEntry)
  /\ LET queued == pc[a] = "await" IN
     \/ /\ answer[a].ok /\ Accepted(answer[a].turn)
        /\ excused' = (excused \/ (a = Lane /\ Overtaken))
        /\ Goto(a, IF queued THEN "done" ELSE "idle")
     \/ /\ ~answer[a].ok /\ UNCHANGED excused
        /\ IF cur[a] \in Messages THEN status' = "failed" /\ active' = NoTurn
                                  ELSE UNCHANGED runtime
        /\ Goto(a, IF queued THEN "clear" ELSE "idle")
  /\ UNCHANGED <<store, driving, connected, events, requests>> /\ UnchangedInDrive

\* drive_claimed_thread: a failed dispatch empties the queue.
DropQueue(a) ==
  /\ pc[a] = "clear" /\ Clear /\ Goto(a, "release")
  /\ UNCHANGED <<runtime, driving, cur, connected, events, requests, answer, excused>>
  /\ UnchangedInDrive

\* Mutant: the queue is not looked at again.
ReleaseAndStop(a) ==
  /\ pc[a] \in {"release", "done"} /\ driving' = FALSE /\ Goto(a, "idle")
  /\ excused' = (excused \/ (pc[a] = "done" /\ ~Busy))
  /\ UNCHANGED <<store, runtime, cur, connected, events, requests, answer>>
  /\ UnchangedInDrive

\* drive_if_idle gives the claim back; unless it has started something it
\* looks at the queue once more.  What it has started may be over by then, and
\* the forwarder that recorded this has found the thread claimed.
Release(a) ==
  /\ pc[a] \in {"release", "done"} /\ driving' = FALSE
  /\ Goto(a, IF pc[a] = "done" THEN "idle" ELSE "recheck")
  /\ excused' = (excused \/ (pc[a] = "done" /\ ~Busy))
  /\ UNCHANGED <<store, runtime, cur, connected, events, requests, answer>>
  /\ UnchangedInDrive

Recheck(a) ==
  /\ pc[a] = "recheck"
  /\ Goto(a, IF Drivable /\ ~Busy THEN "drive" ELSE "idle")
  /\ UNCHANGED <<store, runtime, driving, cur, connected, events, requests, answer, excused>>
  /\ UnchangedInDrive

Drive(a) ==
  \/ Claim(a) \/ Pop(a) \/ Send(a) \/ Dispatched(a)
  \/ DropQueue(a) \/ Release(a) \/ Recheck(a)

-----------------------------------------------------------------------------
(* The lane: requests of the viewers, one at a time.                       *)

UnchangedInLane == UNCHANGED <<driving, note, appServer, faults>>
NoTraffic == UNCHANGED <<connected, events, requests, answer>>

\* submit_message and submit_compact: refused while the turn is stopping,
\* dispatched at once when nothing is running or queued.
Submit(e) ==
  /\ pc[Lane] = "idle" /\ e \notin submitted /\ submitted' = submitted \cup {e}
  /\ IF status = "stopping"
       THEN UNCHANGED <<pc, cur>>
       ELSE /\ Holds(Lane, e)
            /\ Goto(Lane, IF ~Busy /\ entries = <<>> THEN "sendDirect" ELSE "append")
  /\ UNCHANGED <<store, runtime, aim, excused>> /\ NoTraffic /\ UnchangedInLane

\* The thread may have become idle since: drive_if_idle follows.
AppendEntry ==
  /\ pc[Lane] = "append"
  /\ entries' = Append(entries, cur[Lane])
  /\ Holds(Lane, NoEntry) /\ Goto(Lane, "drive")
  /\ UNCHANGED <<unknown, runtime, aim, submitted, excused>>
  /\ NoTraffic /\ UnchangedInLane

\* queue/remove.  The queue behind a removed entry is not driven.
RemoveEntry(e) ==
  /\ pc[Lane] = "idle" /\ InQueue(e) /\ Without(e)
  /\ excused' = (excused \/ e \in unknown)
  /\ UNCHANGED <<runtime, pc, cur, aim, submitted>> /\ NoTraffic /\ UnchangedInLane

\* queue/run-now: a message is steered into the active turn and stays in the
\* queue meanwhile; without an active turn the queue is driven.
RunNow(e) ==
  /\ pc[Lane] = "idle" /\ InQueue(e) /\ e \in Messages \ unknown
  /\ \/ /\ active = NoTurn /\ Goto(Lane, "drive") /\ UNCHANGED <<cur, aim>>
     \/ /\ active # NoTurn /\ status # "stopping"
        /\ Goto(Lane, "steer") /\ Holds(Lane, e) /\ aim' = active
  /\ UNCHANGED <<store, runtime, submitted, excused>>
  /\ NoTraffic /\ UnchangedInLane

\* steer_queued_message: thread/resume may fail, else turn/steer is sent.
Steer ==
  /\ pc[Lane] = "steer"
  /\ (Sends(Lane, Request(Lane, "steer", cur[Lane], aim)) \/ Fails(Lane))
  /\ Goto(Lane, "steering")
  /\ UNCHANGED <<store, runtime, cur, aim, submitted, excused>> /\ UnchangedInLane

\* Mutant: a failed steer leaves the message as it was.
QuarantineNothing(e) == UNCHANGED store

\* mark_outcome_unknown, which asks whether the entry still is in the queue.
Quarantine(e) ==
  /\ unknown' = IF InQueue(e) THEN unknown \cup {e} ELSE unknown
  /\ UNCHANGED entries

Steered ==
  /\ pc[Lane] = "steering" /\ Answered(Lane) /\ Forget(Lane)
  /\ IF answer[Lane].ok THEN Without(cur[Lane]) ELSE Quarantine(cur[Lane])
  /\ Holds(Lane, NoEntry) /\ aim' = NoTurn /\ Goto(Lane, "idle")
  /\ UNCHANGED <<runtime, submitted, connected, events, requests, excused>>
  /\ UnchangedInLane

\* turn/interrupt empties the queue first; without an active turn it fails.
Interrupt ==
  /\ pc[Lane] = "idle" /\ Clear
  /\ aim' = active /\ Goto(Lane, IF active = NoTurn THEN "idle" ELSE "interrupt")
  /\ UNCHANGED <<runtime, cur, submitted, excused>> /\ NoTraffic
  /\ UnchangedInLane

SendInterrupt ==
  /\ pc[Lane] = "interrupt" /\ Goto(Lane, "interrupting")
  /\ (Sends(Lane, Request(Lane, "interrupt", NoEntry, aim)) \/ Fails(Lane))
  /\ UNCHANGED <<store, runtime, cur, aim, submitted, excused>> /\ UnchangedInLane

\* record_turn_stopping, when the app server has agreed.
Interrupted ==
  /\ pc[Lane] = "interrupting" /\ Answered(Lane) /\ Forget(Lane)
  /\ IF answer[Lane].ok
       THEN /\ status' = "stopping" /\ active' = aim
            /\ excused' = (excused \/ Overtaken)
       ELSE UNCHANGED <<runtime, excused>>
  /\ aim' = NoTurn /\ Goto(Lane, "idle")
  /\ UNCHANGED <<store, cur, submitted, connected, events, requests>>
  /\ UnchangedInLane

LaneStep ==
  \/ Drive(Lane) \/ AppendEntry \/ Steer \/ Steered \/ SendInterrupt \/ Interrupted
Viewer ==
  \/ Interrupt \/ \E e \in Entries : Submit(e) \/ RemoveEntry(e) \/ RunNow(e)

-----------------------------------------------------------------------------
(* The forwarder: events of the app server, one at a time.                 *)

UnchangedInForwarder == UNCHANGED <<driving, cur, aim, submitted, appServer, faults>>

\* ThreadRuntimeStore::record_notification.
StatusAfter(n) ==
  CASE n.kind \in {"started", "active"}            -> "running"
    [] n.kind = "item"                             -> IF status = "stopping" THEN status ELSE "running"
    [] n.kind \in {"completed", "interrupted", "idle"} -> "ready"
    [] n.kind \in {"failed", "error", "systemError"}   -> "failed"
    [] OTHER                                       -> status
ActiveAfter(n) ==
  CASE n.kind = "started"                          -> n.turn
    [] n.kind = "item"                             -> IF status = "stopping" THEN active ELSE n.turn
    [] StatusAfter(n) \in {"ready", "failed"} /\ n.kind \in Ends \cup Asides -> NoTurn
    [] OTHER                                       -> active

\* The runtime learns of the event first, the queue in a step of its own.
TakeEvent ==
  /\ pc[Forwarder] = "idle" /\ events # <<>>
  /\ LET n == Head(events) IN
     /\ status' = StatusAfter(n) /\ active' = ActiveAfter(n)
     /\ note' = IF n.kind = "completed" \/ n.kind \in Clearing THEN n ELSE NoNote
     /\ Goto(Forwarder, CASE note' # NoNote          -> "effect"
                          [] n.kind = "disconnected" -> "reconnect"
                          [] n.kind = "reconnected"  -> "list"
                          [] OTHER                   -> "idle")
     /\ IF n.kind = "disconnected" THEN Clear ELSE UNCHANGED store
  /\ events' = Tail(events)
  /\ UNCHANGED <<connected, requests, answer, excused>> /\ UnchangedInForwarder

\* record_notification of the queue: a completed turn drives it, every other
\* end and an error empty it.
Effect ==
  /\ pc[Forwarder] = "effect" /\ note' = NoNote
  /\ IF note.kind = "completed" THEN Goto(Forwarder, "drive") /\ UNCHANGED store
                                ELSE Goto(Forwarder, "idle") /\ Clear
  /\ UNCHANGED <<runtime, excused>> /\ NoTraffic /\ UnchangedInForwarder

\* After clear_all the forwarder reconnects, if nobody has.
Reconnect ==
  /\ pc[Forwarder] = "reconnect" /\ Goto(Forwarder, "idle")
  /\ \/ ~connected /\ connected' = TRUE
        /\ events' = Append(events, Note("reconnected", NoTurn))
     \/ UNCHANGED <<connected, events>>
  /\ UNCHANGED <<store, runtime, note, requests, answer, excused>>
  /\ UnchangedInForwarder

\* reconcile_app_server_state: list the threads, forget the runtime, and read
\* the thread if it was active.  `note` remembers what the list said.
ListThreads ==
  /\ pc[Forwarder] = "list"
  /\ \/ /\ Goto(Forwarder, "clearRuntime")
        /\ note' = IF turn = NoTurn THEN NoNote ELSE Note("active", turn)
     \/ Goto(Forwarder, "idle") /\ UNCHANGED note
  /\ UNCHANGED <<store, runtime, excused>> /\ NoTraffic /\ UnchangedInForwarder

ClearRuntime ==
  /\ pc[Forwarder] = "clearRuntime" /\ status' = "ready" /\ active' = NoTurn
  /\ Goto(Forwarder, IF note = NoNote THEN "idle" ELSE "read")
  /\ note' = NoNote
  /\ UNCHANGED <<store, excused>> /\ NoTraffic /\ UnchangedInForwarder

ReadThread ==
  /\ pc[Forwarder] = "read" /\ Goto(Forwarder, "idle")
  /\ \/ status' = "running" /\ active' = IF turn = NoTurn THEN active ELSE turn
     \/ UNCHANGED runtime
  /\ UNCHANGED <<store, note, excused>> /\ NoTraffic /\ UnchangedInForwarder

ForwarderStep ==
  \/ Drive(Forwarder) \/ TakeEvent \/ Effect \/ Reconnect
  \/ ListThreads \/ ClearRuntime \/ ReadThread

-----------------------------------------------------------------------------
(* The app server and the connection to it (external).                     *)

UnchangedInServer == UNCHANGED <<store, runtime, driving, pc, cur, aim, note, submitted>>

\* route_app_server_message: an answer finds its caller, if it still waits.
Replies(r, result) ==
  /\ requests' = requests \ {r}
  /\ answer' = IF r.from = LateCaller THEN answer ELSE [answer EXCEPT ![r.from] = result]
Emit(n) == events' = IF connected THEN Append(events, n) ELSE events
Takes(e) == taken' = [taken EXCEPT ![e] = @ + 1]
Fault == faults < MaxFaults /\ faults' = faults + 1

StartTurn(r) ==
  /\ r.kind = "start" /\ turn = NoTurn
  /\ turns' = turns + 1 /\ turn' = turns' /\ Takes(r.entry)
  /\ Replies(r, Ok(IF r.entry \in Messages THEN turn' ELSE NoTurn))
  /\ Emit(Note("started", turn'))
  /\ UNCHANGED <<connected, faults, excused>> /\ UnchangedInServer

\* A message for a thread with a running turn goes into that turn.
JoinTurn(r) ==
  /\ r.entry \in Messages /\ turn # NoTurn
  /\ r.kind = "start" \/ (r.kind = "steer" /\ r.turn = turn)
  /\ Takes(r.entry) /\ Replies(r, Ok(turn))
  /\ UNCHANGED <<turn, turns, connected, events, faults, excused>> /\ UnchangedInServer

StopTurn(r) ==
  /\ r.kind = "interrupt" /\ turn = r.turn
  /\ turn' = NoTurn /\ Emit(Note("interrupted", turn)) /\ Replies(r, Ok(turn))
  /\ UNCHANGED <<turns, taken, connected, faults, excused>> /\ UnchangedInServer

Refuse(r) ==
  /\ Replies(r, Failure)
  /\ UNCHANGED <<appServer, connected, events, faults, excused>> /\ UnchangedInServer

EndTurn ==
  /\ turn # NoTurn /\ turn' = NoTurn
  /\ \E kind \in {"completed", "failed"} : Emit(Note(kind, turn))
  /\ UNCHANGED <<turns, taken, connected, requests, answer, faults, excused>>
  /\ UnchangedInServer

\* Items start and the thread is active during a turn only, idle without one.
Aside(kind) ==
  /\ Fault
  /\ kind \in {"item", "active"} => turn # NoTurn
  /\ kind = "idle" => turn = NoTurn
  /\ Emit(Note(kind, turn))
  /\ UNCHANGED <<appServer, connected, requests, answer, excused>>
  /\ UnchangedInServer

Awaits(a) == pc[a] \in {"await", "awaitDirect", "steering", "interrupting"} /\ ~Answered(a)
Late(who) == {IF r.from \in who THEN [r EXCEPT !.from = LateCaller] ELSE r : r \in requests}

\* request_once: recv_timeout gives up, the request remains on its way.
Timeout(a) ==
  /\ Awaits(a) /\ Fault /\ requests' = Late({a})
  /\ answer' = [answer EXCEPT ![a] = Failure]
  /\ UNCHANGED <<appServer, connected, events, excused>> /\ UnchangedInServer

\* The reader or the writer of the socket finds it closed: drain_pending fails
\* every waiting caller, and what is notified from here on is lost.
Disconnect ==
  /\ connected /\ connected' = FALSE /\ Fault
  /\ requests' = Late(Threads)
  /\ answer' = [a \in Threads |-> IF Awaits(a) THEN Failure ELSE answer[a]]
  /\ events' = Append(events, Note("disconnected", NoTurn))
  /\ excused' = TRUE
  /\ UNCHANGED appServer /\ UnchangedInServer

Answers(r) == StartTurn(r) \/ JoinTurn(r) \/ StopTurn(r) \/ Refuse(r)

AppServer ==
  \/ EndTurn \/ Disconnect \/ (\E kind \in Asides : Aside(kind))
  \/ (\E r \in requests : Answers(r)) \/ \E a \in Threads : Timeout(a)

Next == LaneStep \/ Viewer \/ ForwarderStep \/ AppServer

Spec == Init /\ [][Next]_vars

\* Both threads run, a turn ends, and a request ends, were it by its timeout.
\* Viewers, notifications and reconnections are nobody's duty.
Fairness ==
  /\ WF_vars(LaneStep) /\ WF_vars(ForwarderStep) /\ WF_vars(EndTurn)
  /\ \A a \in Threads : WF_vars(\E r \in requests : r.from = a /\ Answers(r))

FairSpec == Spec /\ Fairness

-----------------------------------------------------------------------------
(* Properties                                                              *)

\* An entry that may be dispatched has not been taken by the app server yet,
\* but for the message that is being steered: every request that may have been
\* taken has first left the queue or is marked (pop_front, mark_outcome_unknown).
NothingSentIsDrivable ==
  \A e \in Entries : InQueue(e) /\ e \notin unknown /\ taken[e] > 0
    => pc[Lane] = "steering" /\ cur[Lane] = e

\* Between taking an entry from the queue and giving the claim back a thread
\* is alone with the queue, whoever of the two it is (driving_threads).
OneDriver ==
  LET drivers == {a \in Threads : pc[a] \in {"pop", "send", "await", "clear", "release", "done"}}
  IN  Cardinality(drivers) <= 1 /\ (driving <=> drivers # {})

\* The queue always comes to be empty again: no wake-up is lost between the
\* lane that appends and the forwarder that completes a turn (drive_if_idle).
\* The exceptions: an entry of unknown outcome holds up the queue or has just
\* been removed, the connection was lost, the lane recorded a turn as running or
\* stopping that had ended before, or a turn ended before its driver had given
\* the claim back.
Drains == []<>(entries = <<>> \/ unknown # {} \/ excused)
=============================================================================
