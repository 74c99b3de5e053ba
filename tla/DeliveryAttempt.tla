--------------------------- MODULE DeliveryAttempt ---------------------------
(***************************************************************************)
(* How the agent extension hands one queued message at a time to a         *)
(* provider and finds out what became of it:                               *)
(* native-runtime/delivery-attempt-owner.ts with its callers in            *)
(* native-coordinator.ts (dispatchNext, consumeEventBatch, boot recovery,  *)
(* resolveDelivery) and the journal's admission of a turn.                 *)
(*                                                                         *)
(* The runtime is single-threaded: a step is what runs between two awaits. *)
(* Four activities interleave at them: the dispatcher of the conversation, *)
(* the consumer of the session's event stream, the recovery at boot and    *)
(* the user's resolution of an unconfirmed message.  The attempt rows,     *)
(* the staged observations, the queue, the turns and the journal are in    *)
(* SQLite and survive a crash; the rest does not.                          *)
(*                                                                         *)
(* An observation <<c, k>> is the k-th event the provider emits for the    *)
(* turn of message c; the last one completes the turn.  One of Nobody is   *)
(* about the account and belongs to no turn.                               *)
(***************************************************************************)
EXTENDS Integers, Sequences, FiniteSets

CONSTANTS
  LastCommand,  \* messages 1 .. LastCommand are queued in that order
  LastEvent,    \* events the provider emits for a turn
  StageLimit,   \* rows of a stage (256 in the code)
  SealFails,    \* the preparation of an observation (sealing a file diff) may fail
  MaxCrashes    \* bound on crashes of the runtime

ASSUME DeliveryAssumption ==
  /\ LastCommand \in Nat /\ LastEvent \in Nat \ {0}
  /\ StageLimit \in Nat /\ MaxCrashes \in Nat /\ SealFails \in BOOLEAN

Commands == 1 .. LastCommand
Nobody == 0
Sources == Commands \cup {Nobody}
Observations == Sources \X (1 .. LastEvent)

VARIABLES
  \* The provider and the session's process
  provider,  \* which adapter the conversation uses
  session,   \* the attached session: its process may be gone ("dead"), or it
             \* is detached and its consumer still running ("closing")
  prompt,    \* the message handed to the adapter, not yet crossed
  outbox,    \* the message marked possibly sent, not yet written
  wire,      \* what the process knows of a message
  writes,    \* how often a message was written to a process
  taken,     \* messages a process has begun to work on
  emitted,   \* events emitted for a turn
  stream,    \* events buffered in the session
  \* The journal database
  queue, attempt, staged, turn, paused, log,
  \* The activities
  boot, disp, cons, resolver,
  \* Bookkeeping
  lost,      \* events that were in memory when the process died
  crashes

procVars == <<session, prompt, outbox, wire, writes, taken, emitted, stream>>
dbVars == <<queue, attempt, staged, turn, paused, log>>
taskVars == <<boot, disp, cons, resolver>>
vars == <<provider, procVars, dbVars, taskVars, lost, crashes>>

Elements(s) == {s[i] : i \in DOMAIN s}

\* The elements of s at the indices in I, in their order.
Kth(I, k) == CHOOSE i \in I : Cardinality({j \in I : j <= i}) = k
Among(s, I) == [k \in 1 .. Cardinality(I) |-> s[Kth(I, k)]]
Without(s, gone) == Among(s, {i \in DOMAIN s : s[i] \notin gone})
Prefix(s, n) == SubSeq(s, 1, n)

Idle == [pc |-> "idle", cmd |-> Nobody, snap |-> <<>>, rest |-> <<>>]
NoAttempt == [state |-> "none", crossed |-> FALSE, evidence |-> FALSE, gap |-> FALSE]

TypeOK ==
  /\ provider \in {"claude-code", "codex"}
  /\ session \in {"none", "open", "dead", "closing"} /\ paused \in BOOLEAN
  /\ prompt \in Commands \cup {Nobody} /\ outbox \in Commands \cup {Nobody}
  /\ wire \in [Commands -> {"none", "written", "working", "ended"}]
  /\ writes \in [Commands -> Nat] /\ emitted \in [Sources -> 0 .. LastEvent]
  /\ taken \subseteq Commands /\ lost \subseteq Observations
  /\ stream \in Seq(Observations) /\ log \in Seq(Observations)
  /\ queue \in [Commands -> {"queued", "dispatching", "delivery_unknown", "removed"}]
  /\ attempt \in [Commands ->
       [state : {"none", "preparing", "dispatching", "accepted", "rejected",
                 "unknown", "abandoned"},
        crossed : BOOLEAN, evidence : BOOLEAN, gap : BOOLEAN]]
  /\ staged \in [Commands -> Seq(Observations)]
  /\ \A c \in Commands : Len(staged[c]) <= StageLimit
  /\ turn \in [Commands -> {"none", "running", "ended", "failed"}]
  /\ boot.pc \in {"recover", "draining", "reconciling", "up"}
  /\ disp.pc \in {"idle", "opening", "starting", "waiting", "accepted", "preparing"}
  /\ cons.pc \in {"idle", "draining", "effects", "reconciling", "direct"}
  /\ resolver \in Commands \cup {Nobody}
  /\ crashes \in 0 .. MaxCrashes

Init ==
  /\ provider \in {"claude-code", "codex"}
  /\ session = "none" /\ prompt = Nobody /\ outbox = Nobody
  /\ wire = [c \in Commands |-> "none"] /\ writes = [c \in Commands |-> 0]
  /\ taken = {} /\ emitted = [c \in Sources |-> 0] /\ stream = <<>>
  /\ queue = [c \in Commands |-> "queued"]
  /\ attempt = [c \in Commands |-> NoAttempt]
  /\ staged = [c \in Commands |-> <<>>]
  /\ turn = [c \in Commands |-> "none"]
  /\ paused = FALSE /\ log = <<>>
  /\ boot = [pc |-> "up", todo |-> {}]
  /\ disp = Idle /\ cons = Idle /\ resolver = Nobody
  /\ lost = {} /\ crashes = 0

-----------------------------------------------------------------------------
(* The rows of the attempt owner.                                          *)

Unresolved == {"preparing", "dispatching", "unknown"}
Open == {"dispatching", "unknown"}

\* Mutant: an accepted attempt releases the lane with its suffix undrained.
LaneHeldByUnresolved == \E c \in Commands : attempt[c].state \in Unresolved

\* hasUnresolvedRootDelivery
LaneHeld ==
  \E c \in Commands : \/ attempt[c].state \in Unresolved
                      \/ attempt[c].state = "accepted" /\ staged[c] # <<>>

\* unresolvedLane, acceptedWithStage: the oldest of several.
Oldest(S) == IF S = {} THEN Nobody ELSE CHOOSE c \in S : \A d \in S : c <= d
UnresolvedLane == Oldest({c \in Commands : attempt[c].state \in Unresolved})
AcceptedWithStage ==
  Oldest({c \in Commands : attempt[c].state = "accepted" /\ staged[c] # <<>>})

\* The CAS of unknown(): nothing happens unless the attempt is dispatching.
ToUnknown(a) == IF a.state = "dispatching" THEN [a EXCEPT !.state = "unknown"] ELSE a

\* markGap
WithGap(a) == [ToUnknown(a) EXCEPT !.gap = TRUE]

\* recordAcceptance: proof that is already there is compatible with this one.
WithEvidence(a) == IF a.state \in Open THEN [a EXCEPT !.evidence = TRUE] ELSE a
CanRecord(a) == a.evidence \/ a.state \in Open

\* markProviderSignalledCrossing and then unknown()
SignalledUnknown(a) ==
  IF a.crossed THEN ToUnknown(a) ELSE [a EXCEPT !.state = "unknown", !.crossed = TRUE]

\* Mutant: the stage has no limit.
ObserveAll(c, events) ==
  LET fresh == Without(events, Elements(staged[c]))
      fits == Len(fresh)
  IN /\ staged' = [staged EXCEPT ![c] = @ \o Prefix(fresh, fits)]
     /\ attempt' = IF fits < Len(fresh)
                     THEN [attempt EXCEPT ![c] = WithGap(@)] ELSE attempt

\* observe(), one envelope after another: a duplicate is ignored, a full stage
\* leaves a gap.
Observe(c, events) ==
  LET fresh == Without(events, Elements(staged[c]))
      room == StageLimit - Len(staged[c])
      fits == IF Len(fresh) <= room THEN Len(fresh) ELSE room
  IN /\ staged' = [staged EXCEPT ![c] = @ \o Prefix(fresh, fits)]
     /\ attempt' = IF fits < Len(fresh)
                     THEN [attempt EXCEPT ![c] = WithGap(@)] ELSE attempt

\* appendProviderEvents: an event id that is in the journal is not inserted
\* again; the event that completes a turn ends it and clears the queue row.
Appended(events) == log \o Without(events, Elements(log))
Reduced(t, events) ==
  [c \in Commands |->
     IF t[c] = "running" /\ <<c, LastEvent>> \in Elements(events) THEN "ended" ELSE t[c]]

\* Mutant: the admission empties the stage, whatever was prepared.
AdmitClearsStage(c, events) ==
  IF attempt[c].state = "accepted"
    THEN UNCHANGED dbVars
    ELSE /\ attempt[c].evidence /\ attempt[c].state \in Open
         /\ attempt' = [attempt EXCEPT ![c].state = "accepted"]
         /\ turn' = Reduced([turn EXCEPT ![c] = IF @ = "none" THEN "running" ELSE @], events)
         /\ queue' = [queue EXCEPT ![c] = "removed"]
         /\ log' = Appended(events)
         /\ staged' = [staged EXCEPT ![c] = <<>>]
         /\ UNCHANGED paused

\* admit(): one transaction, a no-op for an attempt that is accepted already.
\* The callback creates the turn from the frozen payload and removes the queue
\* row; what was prepared is appended and leaves the stage.
Admit(c, events) ==
  IF attempt[c].state = "accepted"
    THEN UNCHANGED dbVars
    ELSE /\ attempt[c].evidence /\ attempt[c].state \in Open
         /\ attempt' = [attempt EXCEPT ![c].state = "accepted"]
         /\ turn' = Reduced([turn EXCEPT ![c] = IF @ = "none" THEN "running" ELSE @], events)
         /\ queue' = [queue EXCEPT ![c] = "removed"]
         /\ log' = Appended(events)
         /\ staged' = [staged EXCEPT ![c] = Without(@, Elements(events))]
         /\ UNCHANGED paused

\* drainAccepted(): what arrived after the first admission.
Drain(c, events) ==
  /\ attempt[c].state = "accepted"
  /\ log' = Appended(events)
  /\ turn' = Reduced(turn, events)
  /\ staged' = [staged EXCEPT ![c] = Without(@, Elements(events))]
  /\ UNCHANGED <<queue, attempt, paused>>

\* prepareStagedProviderEvents stops at the first envelope that cannot be
\* prepared; the owner goes on with the prefix.
Prepared(snap) == {Prefix(snap, n) : n \in IF SealFails THEN 0 .. Len(snap) ELSE {Len(snap)}}

-----------------------------------------------------------------------------
(* The dispatcher: dispatchNext and DeliveryAttemptOwner.dispatch.         *)

\* Mutant: a row in doubt at the head is claimed again.
DispatchInDoubt ==
  /\ boot.pc = "up" /\ disp.pc = "idle" /\ ~paused /\ ~LaneHeld
  /\ \A c \in Commands : turn[c] # "running"
  /\ LET head == Oldest({c \in Commands : queue[c] # "removed"})
     IN /\ head # Nobody /\ queue[head] \in {"queued", "delivery_unknown"}
        /\ queue' = [queue EXCEPT ![head] = "dispatching"]
        /\ disp' = [Idle EXCEPT !.pc = "opening", !.cmd = head]
  /\ UNCHANGED <<provider, procVars, attempt, staged, turn, paused, log,
                 boot, cons, resolver, lost, crashes>>

\* No second message while a turn runs, the queue is paused or the lane is
\* held; a row in doubt at the head of the queue blocks it.
DispatchNext ==
  /\ boot.pc = "up" /\ disp.pc = "idle" /\ ~paused /\ ~LaneHeld
  /\ \A c \in Commands : turn[c] # "running"
  /\ LET head == Oldest({c \in Commands : queue[c] # "removed"})
     IN /\ head # Nobody /\ queue[head] = "queued"
        /\ queue' = [queue EXCEPT ![head] = "dispatching"]
        /\ disp' = [Idle EXCEPT !.pc = "opening", !.cmd = head]
  /\ UNCHANGED <<provider, procVars, attempt, staged, turn, paused, log,
                 boot, cons, resolver, lost, crashes>>

\* The catch of dispatchNext.
GiveUp(c) ==
  /\ disp' = Idle
  /\ queue' = [queue EXCEPT ![c] = IF @ = "dispatching" THEN "delivery_unknown" ELSE @]
  /\ turn' = [turn EXCEPT ![c] = IF @ = "none" THEN @ ELSE "failed"]
  /\ UNCHANGED <<paused, log>>

\* A call that is waiting is resolved as unknown when its session goes away.
CallIsLost ==
  IF disp.pc = "waiting"
    THEN /\ attempt' = [attempt EXCEPT ![disp.cmd] = SignalledUnknown(@)]
         /\ GiveUp(disp.cmd)
    ELSE UNCHANGED <<attempt, disp, queue, turn, paused, log>>

\* ensureSession fails: there is no attempt yet.
OpeningFails ==
  /\ disp.pc = "opening"
  /\ GiveUp(disp.cmd)
  /\ UNCHANGED <<provider, procVars, attempt, staged, boot, cons, resolver, lost, crashes>>

\* ensureSession succeeds; prepare() inserts the row and startTurn is called.
SessionReady ==
  /\ disp.pc = "opening" /\ session # "closing"
  /\ session' = IF session = "none" THEN "open" ELSE session
  /\ attempt' = [attempt EXCEPT ![disp.cmd].state = "preparing"]
  /\ disp' = [disp EXCEPT !.pc = "starting"]
  /\ UNCHANGED <<provider, prompt, outbox, wire, writes, taken, emitted, stream,
                 queue, staged, turn, paused, log, boot, cons, resolver, lost, crashes>>

\* The adapter takes the message.  Claude's announces the turn at once, before
\* the SDK has pulled the prompt.
HandOver ==
  /\ disp.pc = "starting" /\ session = "open"
  /\ prompt' = disp.cmd
  /\ disp' = [disp EXCEPT !.pc = "waiting"]
  /\ IF provider = "claude-code"
       THEN /\ emitted' = [emitted EXCEPT ![disp.cmd] = 1]
            /\ stream' = Append(stream, <<disp.cmd, 1>>)
       ELSE UNCHANGED <<emitted, stream>>
  /\ UNCHANGED <<provider, session, outbox, wire, writes, taken, dbVars,
                 boot, cons, resolver, lost, crashes>>

\* Nothing was sent: startTurn throws, or the request is refused unwritten.
NotSent ==
  /\ \/ disp.pc = "starting"
     \/ disp.pc = "waiting" /\ provider = "codex" /\ prompt = disp.cmd
  /\ prompt' = Nobody
  /\ attempt' = [attempt EXCEPT ![disp.cmd].state = "rejected"]
  /\ GiveUp(disp.cmd)
  /\ UNCHANGED <<provider, session, outbox, wire, writes, taken, emitted, stream,
                 staged, boot, cons, resolver, lost, crashes>>

\* markPossiblySent, called as the message is pulled: a CAS from preparing.
\* An attempt that is no longer preparing makes it throw, and nothing is sent.
MarkPossiblySent ==
  /\ prompt # Nobody
  /\ prompt' = Nobody
  /\ IF attempt[prompt].state = "preparing"
       THEN /\ outbox' = prompt
            /\ attempt' = [attempt EXCEPT ![prompt].state = "dispatching",
                                          ![prompt].crossed = TRUE]
       ELSE UNCHANGED <<outbox, attempt>>
  /\ UNCHANGED <<provider, session, wire, writes, taken, emitted, stream, queue,
                 staged, turn, paused, log, taskVars, lost, crashes>>

Written ==
  /\ outbox # Nobody
  /\ outbox' = Nobody
  /\ wire' = [wire EXCEPT ![outbox] = "written"]
  /\ writes' = [writes EXCEPT ![outbox] = @ + 1]
  /\ UNCHANGED <<provider, session, prompt, taken, emitted, stream, dbVars,
                 taskVars, lost, crashes>>

\* The provider has no answer in time, the connection drops or startTurn fails
\* after the hand-over.  The prompt may still be pulled later.
DispatchUnknown ==
  /\ disp.pc = "waiting"
  /\ provider = "codex" => attempt[disp.cmd].crossed
  /\ attempt' = [attempt EXCEPT ![disp.cmd] = SignalledUnknown(@)]
  /\ outbox' \in {outbox, Nobody}
  /\ prompt' \in {prompt, Nobody}
  /\ GiveUp(disp.cmd)
  /\ UNCHANGED <<provider, session, wire, writes, taken, emitted, stream, staged,
                 boot, cons, resolver, lost, crashes>>

\* Codex refuses the message because it is compacting: proof that it was not
\* taken, unless something contradicts it.
ProviderRejects ==
  /\ disp.pc = "waiting" /\ provider = "codex" /\ wire[disp.cmd] = "written"
  /\ wire' = [wire EXCEPT ![disp.cmd] = "ended"]
  /\ attempt' = [attempt EXCEPT ![disp.cmd] =
                   IF @.state \in Open /\ ~@.evidence /\ ~@.gap /\ staged[disp.cmd] = <<>>
                     THEN [@ EXCEPT !.state = "rejected"] ELSE ToUnknown(@)]
  /\ GiveUp(disp.cmd)
  /\ UNCHANGED <<provider, session, prompt, outbox, writes, taken, emitted, stream,
                 staged, boot, cons, resolver, lost, crashes>>

\* startTurn resolves with acceptance: the evidence is recorded, the stage is
\* read and its preparation awaited.
DispatchAccepted ==
  /\ disp.pc = "accepted"
  /\ CanRecord(attempt[disp.cmd])
  /\ attempt' = [attempt EXCEPT ![disp.cmd] = WithEvidence(@)]
  /\ disp' = [disp EXCEPT !.pc = "preparing", !.snap = staged[disp.cmd]]
  /\ UNCHANGED <<provider, procVars, queue, staged, turn, paused, log,
                 boot, cons, resolver, lost, crashes>>

DispatchAdmits ==
  /\ disp.pc = "preparing"
  /\ \E events \in Prepared(disp.snap) : Admit(disp.cmd, events)
  /\ disp' = Idle
  /\ UNCHANGED <<provider, procVars, boot, cons, resolver, lost, crashes>>

-----------------------------------------------------------------------------
(* The provider's process.                                                 *)

ProviderTakes(c) ==
  /\ wire[c] = "written"
  /\ wire' = [wire EXCEPT ![c] = "working"]
  /\ taken' = taken \cup {c}
  /\ UNCHANGED <<provider, session, prompt, outbox, writes, emitted, stream, dbVars,
                 taskVars, lost, crashes>>

\* The first output correlated with the message.  Claude's adapter passes it to
\* the delivery evidence handler as it resolves the call; Codex's is the answer
\* to the request.  A call that has timed out is not resolved again.
ProviderAnswers(c) ==
  /\ wire[c] = "working" /\ emitted[c] < LastEvent
  /\ disp' = IF disp.pc = "waiting" /\ disp.cmd = c
               THEN [disp EXCEPT !.pc = "accepted"] ELSE disp
  /\ attempt' = IF provider = "claude-code"
                  THEN [attempt EXCEPT ![c] = WithEvidence(@)] ELSE attempt
  /\ UNCHANGED <<provider, procVars, queue, staged, turn, paused, log,
                 boot, cons, resolver, lost, crashes>>

ProviderEmits(c) ==
  /\ wire[c] = "working" /\ emitted[c] < LastEvent
  /\ emitted' = [emitted EXCEPT ![c] = @ + 1]
  /\ LET event == <<c, emitted[c] + 1>>
     IN IF session = "open" THEN stream' = Append(stream, event) /\ UNCHANGED lost
                            ELSE lost' = lost \cup {event} /\ UNCHANGED stream
  /\ wire' = IF emitted[c] + 1 = LastEvent THEN [wire EXCEPT ![c] = "ended"] ELSE wire
  /\ UNCHANGED <<provider, session, prompt, outbox, writes, taken, dbVars,
                 taskVars, crashes>>

\* An event about the account (one of them), at any time.
ProviderReports ==
  /\ session = "open" /\ emitted[Nobody] = 0
  /\ emitted' = [emitted EXCEPT ![Nobody] = 1]
  /\ stream' = Append(stream, <<Nobody, 1>>)
  /\ UNCHANGED <<provider, session, prompt, outbox, wire, writes, taken, dbVars,
                 taskVars, lost, crashes>>

\* Claude runs in the session's own process; Codex's app server outlives a
\* connection to it, and may or may not have gone too.
WorkIsCutShort ==
  LET ended == [c \in Commands |-> IF wire[c] = "none" THEN "none" ELSE "ended"]
  IN /\ IF provider = "claude-code" THEN wire' = ended ELSE wire' \in {wire, ended}
     /\ prompt' = Nobody /\ outbox' = Nobody
     /\ UNCHANGED <<writes, taken, emitted>>

SessionDies ==
  /\ session = "open" /\ session' = "dead"
  /\ WorkIsCutShort
  /\ CallIsLost
  /\ UNCHANGED <<provider, stream, staged, boot, cons, resolver, lost, crashes>>

\* The consumer reads what is buffered, finds the end and detaches.
StreamEnds ==
  /\ session \in {"dead", "closing"} /\ stream = <<>> /\ cons.pc = "idle"
  /\ session' = "none"
  /\ UNCHANGED <<provider, prompt, outbox, wire, writes, taken, emitted, stream,
                 dbVars, taskVars, lost, crashes>>

-----------------------------------------------------------------------------
(* The consumer of the event stream: consumeEventBatch.                    *)

Of(c, events) == Without(events, {o \in Elements(events) : o[1] # c})
NotOf(c, events) == Without(events, {o \in Elements(events) : o[1] = c})

\* What is left of a batch is prepared and appended directly.
GoDirect(events) ==
  cons' = IF events = <<>> THEN Idle ELSE [Idle EXCEPT !.pc = "direct", !.rest = events]

\* The part of the handler after the accepted suffix: observations of an
\* unresolved attempt are staged, and with a session that reads presence an
\* attempt that has its evidence is reconciled.
Distribute(events) ==
  LET u == UnresolvedLane
  IN IF u = Nobody
       THEN GoDirect(events) /\ UNCHANGED <<attempt, staged>>
       ELSE /\ Observe(u, Of(u, events))
            /\ IF attempt[u].evidence /\ provider = "claude-code" /\ session # "closing"
                 THEN cons' = [pc |-> "reconciling", cmd |-> u, snap |-> staged'[u],
                               rest |-> NotOf(u, events)]
                 ELSE GoDirect(NotOf(u, events))

\* Mutant: the suffix of an accepted attempt is not looked for.
ConsumePastSuffix ==
  /\ cons.pc = "idle" /\ stream # <<>>
  /\ stream' = <<>>
  /\ Distribute(stream)
  /\ UNCHANGED <<provider, session, prompt, outbox, wire, writes, taken, emitted,
                 queue, turn, paused, log, boot, disp, resolver, lost, crashes>>

\* An accepted attempt with a stage comes first: what belongs to it joins the
\* stage, and the whole stage is prepared.
ConsumeBatch ==
  /\ cons.pc = "idle" /\ stream # <<>>
  /\ stream' = <<>>
  /\ LET s == AcceptedWithStage
     IN IF s = Nobody
          THEN Distribute(stream)
          ELSE /\ Observe(s, Of(s, stream))
               /\ cons' = [pc |-> "draining", cmd |-> s, snap |-> staged'[s],
                           rest |-> NotOf(s, stream)]
  /\ UNCHANGED <<provider, session, prompt, outbox, wire, writes, taken, emitted,
                 queue, turn, paused, log, boot, disp, resolver, lost, crashes>>

ConsumerDrains ==
  /\ cons.pc = "draining"
  /\ \E events \in Prepared(cons.snap) : Drain(cons.cmd, events)
  /\ cons' = IF cons.rest = <<>> THEN Idle ELSE [cons EXCEPT !.pc = "effects"]
  /\ UNCHANGED <<provider, procVars, boot, disp, resolver, lost, crashes>>

ConsumerGoesOn ==
  /\ cons.pc = "effects"
  /\ Distribute(cons.rest)
  /\ UNCHANGED <<provider, procVars, queue, turn, paused, log, boot, disp, resolver,
                 lost, crashes>>

ConsumerAdmits ==
  /\ cons.pc = "reconciling"
  /\ \E events \in Prepared(cons.snap) : Admit(cons.cmd, events)
  /\ GoDirect(cons.rest)
  /\ UNCHANGED <<provider, procVars, boot, disp, resolver, lost, crashes>>

\* An event that cannot be ingested is reported and dropped.
AppendDirect ==
  /\ cons.pc = "direct"
  /\ \E dropped \in IF SealFails THEN SUBSET Elements(cons.rest) ELSE {{}} :
       LET events == Without(cons.rest, dropped)
       IN /\ log' = Appended(events) /\ turn' = Reduced(turn, events)
          /\ lost' = lost \cup dropped
  /\ cons' = Idle
  /\ UNCHANGED <<provider, procVars, queue, attempt, staged, paused, boot, disp,
                 resolver, crashes>>

-----------------------------------------------------------------------------
(* A crash of the runtime and the boot after it: initializeOnce.           *)

Crash ==
  /\ crashes < MaxCrashes
  /\ crashes' = crashes + 1
  /\ session' = "none" /\ stream' = <<>>
  /\ WorkIsCutShort
  /\ lost' = lost \cup Elements(stream) \cup Elements(cons.rest)
  /\ boot' = [pc |-> "recover", todo |-> {}]
  /\ disp' = Idle /\ cons' = Idle /\ resolver' = Nobody
  /\ UNCHANGED <<provider, dbVars>>

\* recover(): a message that was crossing is unknown; one that was being
\* prepared by a process that is gone keeps its row and the lane.
BootRecovers ==
  /\ boot.pc = "recover"
  /\ attempt' = [c \in Commands |-> ToUnknown(attempt[c])]
  /\ boot' = [pc |-> "draining",
              todo |-> {c \in Commands : attempt[c].state = "accepted" /\ staged[c] # <<>>}]
  /\ UNCHANGED <<provider, procVars, queue, staged, turn, paused, log, disp, cons,
                 resolver, lost, crashes>>

BootDrains(c) ==
  /\ boot.pc = "draining" /\ c \in boot.todo
  /\ \E events \in Prepared(staged[c]) : Drain(c, events)
  /\ boot' = [boot EXCEPT !.todo = @ \ {c}]
  /\ UNCHANGED <<provider, procVars, disp, cons, resolver, lost, crashes>>

BootDrained ==
  /\ boot.pc = "draining" /\ boot.todo = {}
  /\ boot' = [pc |-> "reconciling",
              todo |-> {c \in Commands : attempt[c].state = "unknown"}]
  /\ UNCHANGED <<provider, procVars, dbVars, disp, cons, resolver, lost, crashes>>

\* Only Codex has a history that can be read without a session, and a message
\* that is not found there proves nothing.
BootReads(c) ==
  /\ boot.pc = "reconciling" /\ c \in boot.todo /\ ~attempt[c].evidence
  /\ IF provider = "codex" /\ c \in taken
       THEN \/ attempt' = [attempt EXCEPT ![c] = WithEvidence(@)] /\ UNCHANGED boot
            \/ boot' = [boot EXCEPT !.todo = @ \ {c}] /\ UNCHANGED attempt
       ELSE boot' = [boot EXCEPT !.todo = @ \ {c}] /\ UNCHANGED attempt
  /\ UNCHANGED <<provider, procVars, queue, staged, turn, paused, log, disp, cons,
                 resolver, lost, crashes>>

BootAdmits(c) ==
  /\ boot.pc = "reconciling" /\ c \in boot.todo /\ attempt[c].evidence
  /\ \E events \in Prepared(staged[c]) : Admit(c, events)
  /\ boot' = [boot EXCEPT !.todo = @ \ {c}]
  /\ UNCHANGED <<provider, procVars, disp, cons, resolver, lost, crashes>>

BootCompletes ==
  /\ boot.pc = "reconciling" /\ boot.todo = {}
  /\ boot' = [boot EXCEPT !.pc = "up"]
  /\ queue' = [c \in Commands |->
                 IF queue[c] = "dispatching" THEN "delivery_unknown" ELSE queue[c]]
  /\ UNCHANGED <<provider, procVars, attempt, staged, turn, paused, log, disp, cons,
                 resolver, lost, crashes>>

\* recoverConversation: never while the lane is held.  A turn that still runs
\* at the provider is followed again, one that does not is ended from history.
RecoverConversation(c) ==
  /\ boot.pc = "up" /\ session = "none" /\ ~LaneHeld /\ turn[c] = "running"
  /\ session' = "open"
  /\ turn' = IF wire[c] = "working" THEN turn ELSE [turn EXCEPT ![c] = "ended"]
  /\ UNCHANGED <<provider, prompt, outbox, wire, writes, taken, emitted, stream,
                 queue, attempt, staged, paused, log, taskVars, lost, crashes>>

-----------------------------------------------------------------------------
(* The user ends an unconfirmed delivery: resolveDelivery.                 *)

ResolveStarts(c) ==
  /\ boot.pc = "up" /\ provider = "claude-code" /\ resolver = Nobody
  /\ attempt[c].state = "unknown"
  /\ resolver' = c
  /\ IF session = "none"
       THEN UNCHANGED <<procVars, dbVars, disp>>
       ELSE /\ session' = "closing" /\ WorkIsCutShort
            /\ CallIsLost /\ UNCHANGED <<stream, staged>>
  /\ UNCHANGED <<provider, boot, cons, lost, crashes>>

\* The session is closed, its consumer done and the process gone.  A receipt
\* that came meanwhile wins: the rows are looked at again.
MayAbandon(c) ==
  /\ attempt[c].state = "unknown" /\ ~attempt[c].evidence
  /\ ~attempt[c].gap /\ staged[c] = <<>>

ResolveEnds ==
  /\ resolver # Nobody /\ session = "none"
  /\ resolver' = Nobody
  /\ IF MayAbandon(resolver)
       THEN /\ attempt' = [attempt EXCEPT ![resolver].state = "abandoned"]
            /\ queue' = [queue EXCEPT ![resolver] = "removed"]
            /\ turn' = [c \in Commands |-> IF turn[c] = "running" THEN "ended" ELSE turn[c]]
            /\ paused' = TRUE
       ELSE UNCHANGED <<attempt, queue, turn, paused>>
  /\ UNCHANGED <<provider, procVars, staged, log, boot, disp, cons, lost, crashes>>

\* The user sends again: the queue goes on.
Unpause ==
  /\ paused /\ paused' = FALSE
  /\ UNCHANGED <<provider, procVars, queue, attempt, staged, turn, log, taskVars,
                 lost, crashes>>

-----------------------------------------------------------------------------
Dispatcher ==
  \/ SessionReady \/ HandOver \/ MarkPossiblySent \/ Written
  \/ DispatchAccepted \/ DispatchAdmits
Failures == OpeningFails \/ NotSent \/ DispatchUnknown \/ ProviderRejects \/ SessionDies
Consumer ==
  ConsumeBatch \/ ConsumerDrains \/ ConsumerGoesOn \/ ConsumerAdmits \/ AppendDirect
Boot ==
  \/ BootRecovers \/ BootDrained \/ BootCompletes
  \/ \E c \in Commands : BootDrains(c) \/ BootReads(c) \/ BootAdmits(c)
Provider ==
  \/ ProviderReports
  \/ \E c \in Commands : ProviderTakes(c) \/ ProviderAnswers(c) \/ ProviderEmits(c)
Resolution ==
  ResolveEnds \/ Unpause \/ \E c \in Commands : ResolveStarts(c)
Next ==
  \/ DispatchNext \/ Dispatcher \/ Failures \/ Consumer \/ Boot \/ Provider
  \/ Resolution \/ Crash \/ StreamEnds
  \/ \E c \in Commands : RecoverConversation(c)

Spec == Init /\ [][Next]_vars

\* Awaits end, buffered events are read, and the provider goes on with a
\* message it has taken while its process lives.
Fairness ==
  /\ WF_vars(Dispatcher) /\ WF_vars(Consumer) /\ WF_vars(Boot) /\ WF_vars(StreamEnds)
  /\ WF_vars(Provider)
FairSpec == Spec /\ Fairness

-----------------------------------------------------------------------------
\* A message is written to a provider once at most, whatever crashes, times
\* out or is reconciled: there is no second dispatch of an attempt.
SentAtMostOnce == \A c \in Commands : writes[c] <= 1

\* The journal has the observations of a turn in the order the provider made
\* them, though some of them were staged, some were prepared while others
\* arrived and some went straight to the journal.
JournalInOrder ==
  \A i, j \in DOMAIN log : (i < j /\ log[i][1] = log[j][1]) => log[i][2] < log[j][2]

\* An observation the runtime has read is in the journal, in the stage or in
\* the hands of the consumer, unless its attempt says that there is a gap.
NothingForgotten ==
  \A c \in Sources : \A k \in 1 .. emitted[c] :
    \/ <<c, k>> \in Elements(log) \cup Elements(stream) \cup Elements(cons.rest) \cup lost
    \/ c # Nobody /\ (<<c, k>> \in Elements(staged[c]) \/ attempt[c].gap)

\* Once a message is accepted and its turn is over at the provider, its stage
\* is drained and the lane is released.
AcceptedLaneIsReleased ==
  \A c \in Commands :
    (attempt[c].state = "accepted" /\ emitted[c] = LastEvent) ~> (staged[c] = <<>>)

\* The lane of messages this implements.
Outcome(c) ==
  CASE attempt[c].state = "none" -> "queued"
    [] attempt[c].state \in Unresolved -> "offered"
    [] attempt[c].state = "accepted" -> IF staged[c] = <<>> THEN "settled" ELSE "delivered"
    [] attempt[c].state = "rejected" -> "refused"
    [] attempt[c].state = "abandoned" -> "abandoned"
Lane == INSTANCE MessageLane WITH outcome <- [c \in Commands |-> Outcome(c)], taken <- taken

\* At most one message holds the lane, it is delivered only when the provider
\* has taken it, and refused only when it cannot have.
RefinesMessageLane == Lane!LaneSpec
=============================================================================
