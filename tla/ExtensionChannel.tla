--------------------------- MODULE ExtensionChannel ---------------------------
(***************************************************************************)
(* Requests to an extension server and the readiness of its gateway:       *)
(* ExtensionSupervisor::handle_rpc and the actor behind it                 *)
(* (crates/remux/src/extensions/supervisor.rs), the reader of the child's  *)
(* stdout, and the slots of crates/remux/src/http/extension_gateways.rs.   *)
(*                                                                         *)
(* Four parties run in parallel.  A caller posts its request in the        *)
(* actor's mailbox and may be dropped at any time; the actor writes to the *)
(* child's stdin and remembers who waits in the pending map; the child     *)
(* answers in any order and announces its gateway; one reader per          *)
(* generation, on a thread of its own, takes the child's lines, so that a  *)
(* line it has looked at may be overtaken by the end of the generation.    *)
(*                                                                         *)
(* The lifecycle is that of ExtensionSupervisor, reduced to its spawns and *)
(* to the two ways a child ends; a stop may overtake the requests that are *)
(* in the mailbox.  The replies of the host to requests of the child are   *)
(* not modelled.                                                           *)
(***************************************************************************)
EXTENDS Integers, Sequences, FiniteSets

CONSTANTS
  Rpcs,         \* requests, each with an id of its own (next_rpc_request_id)
  MailboxSize,  \* capacity of the actor's mailbox (128)
  StdinSize,    \* capacity of the queue to the child's stdin (128)
  MaxPending,   \* MAX_PENDING_EXTENSION_RPCS
  MaxGen        \* bound on generations; a child takes two of them

ASSUME ChannelAssumption ==
  /\ MailboxSize \in Nat \ {0} /\ StdinSize \in Nat \ {0}
  /\ MaxPending \in Nat \ {0} /\ MaxGen \in Nat \ {0}

Gens == 1 .. MaxGen

VARIABLES
  rpc,        \* the callers
  mailbox,    \* Rpc and CancelRpc commands
  pending,    \* the pending map: requests whose answer is awaited
  life, gen,  \* the actor: lifecycle and generation counter
  child,      \* the child: none, alive, or exited but not reaped
  stdin,      \* lines the child has not read
  working,    \* requests the child works on
  announced,  \* generations whose child has announced its gateway
  out,        \* lines of every generation's stdout
  reader,     \* what the reader of a generation has in hand
  slot,       \* the gateway's prepared and active generation (0: none)
  ready       \* gateway_ready_generation (0: not ready)

actorVars == <<pending, life, gen, stdin>>
childVars == <<child, working, announced>>
vars == <<rpc, mailbox, actorVars, childVars, out, reader, slot, ready>>

Request(r) == [kind |-> "request", rpc |-> r]
Cancellation(r) == [kind |-> "cancel", rpc |-> r]
Commands == {Request(r) : r \in Rpcs} \cup {Cancellation(r) : r \in Rpcs}
Nothing == <<"nothing">>
Answer(r) == <<"answer", r>>
GatewayReady == <<"gatewayReady">>
Activated == <<"activated">>
Closed == <<"closed">>
Lines == {GatewayReady} \cup {Answer(r) : r \in Rpcs}

TypeOK ==
  /\ rpc \in [Rpcs -> {"new", "sending", "waiting", "answered", "refused", "dropped"}]
  /\ mailbox \in Seq(Commands) /\ Len(mailbox) <= MailboxSize
  /\ pending \subseteq Rpcs /\ Cardinality(pending) <= MaxPending
  /\ life \in {"down", "running", "stopping"} /\ gen \in 0 .. MaxGen
  /\ child \in {"none", "alive", "exited"}
  /\ stdin \in Seq(Commands) /\ Len(stdin) <= StdinSize
  /\ working \subseteq Rpcs /\ announced \subseteq Gens
  /\ out \in [Gens -> Seq(Lines)]
  /\ reader \in [Gens -> Lines \cup {Nothing, Activated, Closed}]
  /\ slot \in [prepared : Gens \cup {0}, active : Gens \cup {0}]
  /\ ready \in Gens \cup {0}

Init ==
  /\ rpc = [r \in Rpcs |-> "new"] /\ mailbox = <<>> /\ pending = {}
  /\ life = "down" /\ gen = 0 /\ child = "none"
  /\ stdin = <<>> /\ working = {} /\ announced = {}
  /\ out = [g \in Gens |-> <<>>] /\ reader = [g \in Gens |-> Nothing]
  /\ slot = [prepared |-> 0, active |-> 0] /\ ready = 0

-----------------------------------------------------------------------------
(* The callers.                                                            *)

Call(r) ==
  /\ rpc[r] = "new" /\ rpc' = [rpc EXCEPT ![r] = "sending"]
  /\ UNCHANGED <<mailbox, actorVars, childVars, out, reader, slot, ready>>

\* handle_rpc: send() waits for room in the mailbox.
Post(r) ==
  /\ rpc[r] = "sending" /\ Len(mailbox) < MailboxSize
  /\ mailbox' = Append(mailbox, Request(r))
  /\ rpc' = [rpc EXCEPT ![r] = "waiting"]
  /\ UNCHANGED <<actorVars, childVars, out, reader, slot, ready>>

\* The future of a caller is dropped.  CancelRpcOnDrop does not wait for room.
Drop(r) ==
  /\ rpc[r] \in {"sending", "waiting"}
  /\ rpc' = [rpc EXCEPT ![r] = "dropped"]
  /\ mailbox' = IF rpc[r] = "waiting" /\ Len(mailbox) < MailboxSize
                  THEN Append(mailbox, Cancellation(r)) ELSE mailbox
  /\ UNCHANGED <<actorVars, childVars, out, reader, slot, ready>>

\* The end of a request reaches its caller if there still is one.
Ended(rs, how) == [r \in Rpcs |-> IF r \in rs /\ rpc[r] = "waiting" THEN how ELSE rpc[r]]

-----------------------------------------------------------------------------
(* The actor: requests.                                                    *)

\* Mutants of Accept: no limit on the pending map; a request that does not
\* fit in the queue to stdin stays in the map.
AcceptAll(r) ==
  /\ life = "running" /\ Len(stdin) < StdinSize
  /\ pending' = pending \cup {r} /\ stdin' = Append(stdin, Request(r))
  /\ UNCHANGED rpc

AcceptUnsent(r) ==
  /\ life = "running" /\ Cardinality(pending) < MaxPending
  /\ pending' = pending \cup {r}
  /\ stdin' = IF Len(stdin) < StdinSize THEN Append(stdin, Request(r)) ELSE stdin
  /\ UNCHANGED rpc

\* Actor::handle_rpc, when the request is written to the child.
Accept(r) ==
  /\ life = "running" /\ Cardinality(pending) < MaxPending /\ Len(stdin) < StdinSize
  /\ pending' = pending \cup {r} /\ stdin' = Append(stdin, Request(r))
  /\ UNCHANGED rpc

\* The early returns of Actor::handle_rpc; the queue to the stdin of a child
\* that has exited is closed sooner or later.
Refuse(r) ==
  /\ \/ life # "running" \/ Cardinality(pending) >= MaxPending
     \/ Len(stdin) >= StdinSize \/ child = "exited"
  /\ rpc' = Ended({r}, "refused")
  /\ UNCHANGED <<pending, stdin>>

\* cancel_rpc: the child is told if the request was pending and there is room.
CancelRpc(r) ==
  /\ pending' = pending \ {r}
  /\ stdin' = IF r \in pending /\ life = "running" /\ Len(stdin) < StdinSize
                THEN Append(stdin, Cancellation(r)) ELSE stdin
  /\ UNCHANGED rpc

\* The actor takes its next command; it takes none while it stops a child.
TakeCommand ==
  /\ life # "stopping" /\ mailbox # <<>>
  /\ mailbox' = Tail(mailbox)
  /\ LET command == Head(mailbox)
     IN \/ command.kind = "request" /\ (Accept(command.rpc) \/ Refuse(command.rpc))
        \/ command.kind = "cancel" /\ CancelRpc(command.rpc)
  /\ UNCHANGED <<life, gen, childVars, out, reader, slot, ready>>

-----------------------------------------------------------------------------
(* The actor: the generations.                                             *)

\* retire_generation takes the generation out of both slots.
Retired(g) ==
  [prepared |-> IF slot.prepared = g THEN 0 ELSE slot.prepared,
   active |-> IF slot.active = g THEN 0 ELSE slot.active]

\* reject_pending
RejectPending == pending' = {} /\ rpc' = Ended(pending, "refused")

\* spawn_child prepares the gateway of the new generation; when the spawn
\* fails the generation is retired again.
Spawn ==
  /\ life = "down" /\ gen + 1 < MaxGen
  /\ gen' = gen + 1 /\ ready' = 0
  /\ \/ /\ slot' = [slot EXCEPT !.prepared = gen + 1]
        /\ life' = "running" /\ child' = "alive"
     \/ /\ slot' = [slot EXCEPT !.prepared = 0]
        /\ UNCHANGED <<life, child>>
  /\ UNCHANGED <<rpc, mailbox, pending, stdin, working, announced, out, reader>>

\* stop_child up to the wait for the child.
BeginStop ==
  /\ life = "running"
  /\ RejectPending
  /\ life' = "stopping" /\ slot' = Retired(gen) /\ ready' = 0
  /\ UNCHANGED <<mailbox, gen, stdin, childVars, out, reader>>

\* The child is reaped, after its EOF or a signal.
FinishStop ==
  /\ life = "stopping"
  /\ life' = "down" /\ gen' = gen + 1
  /\ child' = "none" /\ stdin' = <<>> /\ working' = {}
  /\ UNCHANGED <<rpc, mailbox, pending, announced, out, reader, slot, ready>>

\* stop_child without a child still resets the gateway.
StopWithoutChild ==
  /\ life = "down"
  /\ slot' = Retired(gen) /\ ready' = 0
  /\ UNCHANGED <<rpc, mailbox, actorVars, childVars, out, reader>>

\* handle_unprompted_exit
UnpromptedExit ==
  /\ life = "running" /\ child = "exited"
  /\ RejectPending
  /\ life' = "down" /\ gen' = gen + 1 /\ slot' = Retired(gen) /\ ready' = 0
  /\ child' = "none" /\ stdin' = <<>> /\ working' = {}
  /\ UNCHANGED <<mailbox, announced, out, reader>>

-----------------------------------------------------------------------------
(* The child.                                                              *)

ChildReads ==
  /\ child = "alive" /\ stdin # <<>>
  /\ stdin' = Tail(stdin)
  /\ LET line == Head(stdin)
     IN \/ line.kind = "request" /\ working' = working \cup {line.rpc}
        \/ line.kind = "cancel" /\ working' \in {working, working \ {line.rpc}}
  /\ UNCHANGED <<rpc, mailbox, pending, life, gen, child, announced, out, reader, slot, ready>>

\* The child writes a line; once its reader has returned nobody gets it.
Writes(line) ==
  out' = IF reader[gen] = Closed THEN out ELSE [out EXCEPT ![gen] = Append(@, line)]

ChildAnswers(r) ==
  /\ child = "alive" /\ r \in working
  /\ working' = working \ {r}
  /\ Writes(Answer(r))
  /\ UNCHANGED <<rpc, mailbox, actorVars, child, announced, reader, slot, ready>>

\* The child listens on its socket and says so.
ChildAnnounces ==
  /\ child = "alive" /\ gen \notin announced
  /\ announced' = announced \cup {gen}
  /\ Writes(GatewayReady)
  /\ UNCHANGED <<rpc, mailbox, actorVars, child, working, reader, slot, ready>>

ChildExits ==
  /\ child = "alive" /\ child' = "exited" /\ working' = {}
  /\ UNCHANGED <<rpc, mailbox, actorVars, announced, out, reader, slot, ready>>

-----------------------------------------------------------------------------
(* The readers of stdout.                                                  *)

\* A line is taken, and dropped when the generation is over.
ReaderTakes(g) ==
  /\ reader[g] = Nothing /\ out[g] # <<>>
  /\ out' = [out EXCEPT ![g] = Tail(@)]
  /\ reader' = [reader EXCEPT ![g] = IF gen = g THEN Head(out[g]) ELSE Nothing]
  /\ UNCHANGED <<rpc, mailbox, actorVars, childVars, slot, ready>>

\* read_lines returns for good on a line that is not UTF-8 or longer than
\* MAX_EXTENSION_LINE_BYTES, be it the next answer or anything else the child
\* prints.  The pipe is closed with what is in it, and the child may live on.
\* (The reader of an older generation drops its lines in any case.)
ReaderFails ==
  /\ life # "down" /\ reader[gen] = Nothing
  /\ out' = [out EXCEPT ![gen] = <<>>]
  /\ reader' = [reader EXCEPT ![gen] = Closed]
  /\ UNCHANGED <<rpc, mailbox, actorVars, childVars, slot, ready>>

\* handle_protocol_line, a response: nobody may wait for it any more.
ReaderAnswers(g) ==
  /\ reader[g] \notin {Nothing, GatewayReady, Activated, Closed}
  /\ LET r == reader[g][2]
     IN /\ pending' = pending \ {r}
        /\ rpc' = IF r \in pending THEN Ended({r}, "answered") ELSE rpc
  /\ reader' = [reader EXCEPT ![g] = Nothing]
  /\ UNCHANGED <<mailbox, life, gen, stdin, childVars, out, slot, ready>>

\* Mutant: whatever is prepared is activated.
ActivatesPrepared(g) == slot.prepared # 0

\* activate_generation accepts the report of the prepared generation only.
Activates(g) == slot.prepared = g

\* handle_protocol_line, gatewayReady: the slot is switched under its lock ...
ReaderActivates(g) ==
  /\ reader[g] = GatewayReady
  /\ slot' = IF Activates(g) THEN [prepared |-> 0, active |-> slot.prepared] ELSE slot
  /\ reader' = [reader EXCEPT ![g] = IF Activates(g) THEN Activated ELSE Nothing]
  /\ UNCHANGED <<rpc, mailbox, actorVars, childVars, out, ready>>

\* ... and the readiness is published after it.
ReaderPublishes(g) ==
  /\ reader[g] = Activated
  /\ ready' = g
  /\ reader' = [reader EXCEPT ![g] = Nothing]
  /\ UNCHANGED <<rpc, mailbox, actorVars, childVars, out, slot>>

-----------------------------------------------------------------------------
Reader(g) == ReaderTakes(g) \/ ReaderAnswers(g) \/ ReaderActivates(g) \/ ReaderPublishes(g)

Next ==
  \/ \E r \in Rpcs : Call(r) \/ Post(r) \/ Drop(r) \/ ChildAnswers(r)
  \/ TakeCommand
  \/ Spawn \/ BeginStop \/ FinishStop \/ StopWithoutChild \/ UnpromptedExit
  \/ ChildReads \/ ChildAnnounces \/ ChildExits
  \/ \E g \in Gens : Reader(g)
  \/ ReaderFails

Spec == Init /\ [][Next]_vars

\* The tasks of the runtime run; a stop ends because it escalates to SIGKILL;
\* the child reads its input and answers what it has read while it lives.
Fairness ==
  /\ \A r \in Rpcs : WF_vars(Post(r)) /\ WF_vars(ChildAnswers(r))
  /\ WF_vars(TakeCommand) /\ WF_vars(FinishStop) /\ WF_vars(UnpromptedExit)
  /\ WF_vars(ChildReads)
  /\ \A g \in Gens : WF_vars(Reader(g))

FairSpec == Spec /\ Fairness

-----------------------------------------------------------------------------
\* Nobody waits for a server that is not there: between the end of a child
\* and the next one the pending map is empty, whoever drains, cancels or
\* answers at that moment (reject_pending on both paths).
PendingIsServed == pending # {} => life = "running"

\* New gateway traffic goes to the current child only, and only after this
\* child has announced its listener: a late line of an older generation never
\* opens the route of the next one.
RoutedToAnnounced ==
  slot.active # 0 => slot.active = gen /\ gen \in announced /\ life = "running"

\* The server runs, and nobody reads what it says.
Deaf == life = "running" /\ child = "alive" /\ reader[gen] = Closed

\* A request ends for its caller: with the child's answer, with an error, or
\* because the caller has gone.  The only exception is a child that lives on
\* behind a reader that has returned: handle_rpc has no timeout, and nothing
\* else tells the caller.
RpcEnds ==
  \A r \in Rpcs :
    rpc[r] \in {"sending", "waiting"} ~> rpc[r] \notin {"sending", "waiting"} \/ []Deaf
=============================================================================
