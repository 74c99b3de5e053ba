---------------------------- MODULE DurableCommand ----------------------------
(***************************************************************************)
(* Commands that carry an operation id, from the phone to an extension and *)
(* back: the retry loop of app/src/remote/RemuxConnectionProvider.tsx, the *)
(* dispatch lane of crates/remux/src/rpc/ws.rs and the registry of         *)
(* crates/remux/src/rpc/commands.rs.                                       *)
(*                                                                         *)
(* A call is one request of the user interface.  The phone sends it over   *)
(* one connection after another until it has an answer; the server admits  *)
(* an operation once, lets later requests join it, and remembers outcomes  *)
(* within a limit on records, bytes and age.  A connection has two ends    *)
(* that learn of its loss at different times, the phone may open a new one *)
(* while the old one still works, and the worker may restart, which clears *)
(* everything the server knows.                                            *)
(*                                                                         *)
(* One lane is modelled; Width is the number of requests it handles at a   *)
(* time (1 for a serial lane, 8 permits for a concurrent one).             *)
(***************************************************************************)
EXTENDS Integers, Sequences, FiniteSets, FiniteSetsExt

CONSTANTS
  Calls,        \* requests of the user interface
  Operations,   \* pairs of a method and an operation id
  Payloads,     \* fingerprints of parameters
  Settings,     \* what the calls may ask for, and MAX_COMMAND_RECORDS
  MaxBytes,     \* MAX_OUTCOME_BYTES
  LaneLimit,    \* capacity of the lane's channel
  Width,        \* requests of the lane handled at a time
  RetryLimit,   \* calls that may be reconnecting at a time (8)
  MaxConns,     \* bound on connections; the last one is not lost
  MaxRestarts   \* bound on restarts of the worker

ASSUME CommandAssumption ==
  /\ MaxBytes \in Nat \ {0}
  /\ LaneLimit \in Nat \ {0} /\ Width \in Nat \ {0} /\ RetryLimit \in Nat
  /\ MaxConns \in Nat \ {0} /\ MaxRestarts \in Nat
  /\ Settings \subseteq [asks : [Calls -> [operation : Operations, payload : Payloads]],
                          capacity : Nat \ {0}]

Conns == 1 .. MaxConns
Instances == 1 .. MaxRestarts + 1
Requests == Calls \X Conns

VARIABLES
  ask,       \* what every call asks for: it never changes
  capacity,  \* MAX_COMMAND_RECORDS: it never changes
  call,      \* the phone: the state of every call
  active,    \* the phone: the promoted connection (0: none)
  known,     \* the phone: the server instance it has last seen (0: none)
  conn,      \* the two ends of every connection and the instance it leads to
  instance,  \* the worker that is running
  req,       \* the request of a call on a connection
  lane,      \* requests waiting in the lane
  record,    \* the registry: the record of every operation
  age,       \* operations with a terminal record, oldest completion first
  bytes,     \* retained_bytes
  execs,     \* the executions the extensions have been asked for
  forgotten  \* executions whose record the registry has dropped

phoneVars == <<call, active, known>>
registryVars == <<record, age, bytes, forgotten>>
fixedVars == <<ask, capacity>>
vars == <<fixedVars, phoneVars, conn, instance, req, lane, registryVars, execs>>

NewCall == [state |-> "waiting", admitted |-> 0, on |-> 0, retrying |-> FALSE,
           answer |-> "none", exec |-> 0]
NoRecord == [state |-> "none", exec |-> 0]
NoRequest == [state |-> "none", exec |-> 0, answer |-> "none"]
Gone == [NoRequest EXCEPT !.state = "gone"]
Waiting == {"waiting", "sent", "closed"}
Over == {"answered", "failed", "aborted"}
Answers == {"none", "result", "too_large", "conflict", "busy"}

Handled == {r \in Requests : req[r].state \in {"running", "joined"}}
\* An outcome that is too large is replaced by an error.
Limited(size) == IF size > MaxBytes THEN 1 ELSE size
Retained == [e \in DOMAIN execs |-> Limited(execs[e].size)]

\* What the records of some operations retain, given the sizes of the outcomes:
\* every byte is named by its operation and its place.
BytesOf(rs, ops, size) == UNION {{o} \X (1 .. size[rs[o].exec]) : o \in ops}
SizeOf(rs, ops, size) == Cardinality(BytesOf(rs, ops, size))
Held(rs) == Cardinality({o \in Operations : rs[o].state # "none"})

\* The registry stays within its limits and its byte count is exact, after
\* every insertion, completion, eviction and expiry.
TypeOK ==
  /\ [asks |-> ask, capacity |-> capacity] \in Settings
  /\ call \in [Calls -> [state : Waiting \cup Over,
                         admitted : Instances \cup {0}, on : Conns \cup {0},
                         retrying : BOOLEAN, answer : Answers, exec : Nat]]
  /\ active \in Conns \cup {0} /\ known \in Instances \cup {0}
  /\ conn \in [Conns -> [app : {"none", "open", "closed"},
                         srv : {"none", "open", "zombie", "closed"},
                         inst : Instances \cup {0}]]
  /\ instance \in Instances
  /\ req \in [Requests -> [state : {"none", "wire", "queued", "running", "joined",
                                    "replied", "gone"},
                           exec : Nat, answer : Answers]]
  /\ lane \in Seq(Requests) /\ Len(lane) <= LaneLimit
  /\ Cardinality(Handled) <= Width
  /\ record \in [Operations -> [state : {"none", "pending", "done"}, exec : Nat]]
  /\ age \in Seq(Operations) /\ bytes \in Nat
  /\ execs \in Seq([call : Calls, inst : Instances, size : Nat,
                    state : {"running", "done", "lost"}])
  /\ forgotten \subseteq DOMAIN execs
  /\ LET done == {o \in Operations : record[o].state = "done"}
     IN /\ Held(record) <= capacity /\ bytes <= MaxBytes
        /\ bytes = SizeOf(record, done, Retained)
        /\ {age[i] : i \in DOMAIN age} = done

Init ==
  /\ \E s \in Settings : ask = s.asks /\ capacity = s.capacity
  /\ call = [c \in Calls |-> NewCall] /\ active = 0 /\ known = 0
  /\ conn = [k \in Conns |-> [app |-> "none", srv |-> "none", inst |-> 0]]
  /\ instance = 1
  /\ req = [r \in Requests |-> NoRequest] /\ lane = <<>>
  /\ record = [o \in Operations |-> NoRecord] /\ age = <<>> /\ bytes = 0
  /\ execs = <<>> /\ forgotten = {}

-----------------------------------------------------------------------------
(* The phone.                                                              *)

Opened == Cardinality({k \in Conns : conn[k].app # "none"})

\* A candidate has shaken hands and is promoted; an older connection that is
\* still open goes on until it is drained.
Connect ==
  /\ Opened < MaxConns
  /\ LET k == Opened + 1
     IN /\ conn' = [conn EXCEPT ![k] = [app |-> "open", srv |-> "open", inst |-> instance]]
        /\ active' = k
  /\ known' = instance
  /\ UNCHANGED <<fixedVars, call, instance, req, lane, registryVars, execs>>

Sent(c) ==
  /\ call' = [call EXCEPT ![c].state = "sent", ![c].on = active,
                          ![c].admitted = known]
  /\ req' = [req EXCEPT ![<<c, active>>].state = "wire"]

Ended(x, state) == [x EXCEPT !.state = state, !.admitted = 0, !.retrying = FALSE]

WaitsOn(c, k) == call[c].state = "sent" /\ call[c].on = k

\* An answer is sent only to a client that is still connected; the phone
\* ignores one that no request of this connection waits for.
Reply(c, k, answer, e) ==
  IF conn[k].srv = "open" /\ WaitsOn(c, k)
    THEN [state |-> "replied", answer |-> answer, exec |-> e]
    ELSE Gone
Answered(c, k, answer, e) == [req EXCEPT ![<<c, k>>] = Reply(c, k, answer, e)]

\* Mutant: a call goes on after a restart.
RouteAnywhere(c) ==
  /\ call[c].state = "waiting" /\ active # 0 /\ conn[active].app = "open"
  /\ Sent(c)
  /\ UNCHANGED <<fixedVars, active, known, conn, instance, lane, registryVars, execs>>

\* The loop of routeRequest: the instance of the first attempt is remembered,
\* and a call whose outcome at another instance is unknown is given up.
Route(c) ==
  /\ call[c].state = "waiting" /\ active # 0 /\ conn[active].app = "open"
  /\ IF call[c].admitted \in {0, known}
       THEN Sent(c)
       ELSE /\ call' = [call EXCEPT ![c] = Ended(@, "failed")]
            /\ UNCHANGED req
  /\ UNCHANGED <<fixedVars, active, known, conn, instance, lane, registryVars, execs>>

\* The catch of routeRequest: with one of the permits the call waits for the
\* next connection.
Retry(c) ==
  /\ call[c].state = "closed"
  /\ LET others == {d \in Calls : d # c /\ call[d].retrying}
         permitted == call[c].retrying \/ Cardinality(others) < RetryLimit
     IN call' = [call EXCEPT ![c] = IF permitted
                                      THEN [@ EXCEPT !.state = "waiting", !.retrying = TRUE]
                                      ELSE Ended(@, "failed")]
  /\ UNCHANGED <<fixedVars, active, known, conn, instance, req, lane, registryVars, execs>>

\* The caller's signal: the phone forgets the request and, when it is under
\* way, says so to the server.
Abort(c) ==
  /\ call[c].state \in {"waiting", "sent"}
  /\ call' = [call EXCEPT ![c] = [Ended(@, "aborted") EXCEPT
                                   !.on = IF call[c].state = "sent" THEN call[c].on ELSE 0]]
  /\ req' = [r \in Requests |-> IF r[1] = c /\ req[r].state = "replied"
                                  THEN Gone ELSE req[r]]
  /\ UNCHANGED <<fixedVars, active, known, conn, instance, lane, registryVars, execs>>

Receive(c, k) ==
  /\ req[<<c, k>>].state = "replied" /\ WaitsOn(c, k)
  /\ req' = [req EXCEPT ![<<c, k>>] = Gone]
  /\ call' = [call EXCEPT ![c] = [Ended(@, "answered") EXCEPT
                                    !.answer = req[<<c, k>>].answer,
                                    !.exec = req[<<c, k>>].exec]]
  /\ UNCHANGED <<fixedVars, active, known, conn, instance, lane, registryVars, execs>>

\* Mutant: the requests of a connection that is drained are not rejected.
PhoneLosesSilently(k) ==
  /\ conn[k].app = "open" /\ k < MaxConns
  /\ conn' = [conn EXCEPT ![k].app = "closed"]
  /\ active' = IF active = k THEN 0 ELSE active
  /\ UNCHANGED <<fixedVars, call, known, instance, req, lane, registryVars, execs>>

\* The phone's end goes: the network is lost, the server has closed, or an old
\* connection is drained.  Every request that waits on it is rejected.
PhoneLoses(k) ==
  /\ conn[k].app = "open" /\ k < MaxConns
  /\ conn' = [conn EXCEPT ![k].app = "closed"]
  /\ active' = IF active = k THEN 0 ELSE active
  /\ call' = [c \in Calls |-> IF WaitsOn(c, k)
                                THEN [call[c] EXCEPT !.state = "closed"] ELSE call[c]]
  /\ req' = [r \in Requests |-> IF r[2] = k /\ req[r].state = "replied"
                                  THEN Gone ELSE req[r]]
  /\ UNCHANGED <<fixedVars, known, instance, lane, registryVars, execs>>

-----------------------------------------------------------------------------
(* The server's end of a connection.                                       *)

Vanished(k) ==
  [r \in Requests |-> IF r[2] = k /\ req[r].state = "wire" THEN Gone ELSE req[r]]

\* A client that does not keep up is disconnected.  notify_waiters() wakes the
\* reader only when it waits at that moment; otherwise the socket stays open
\* with nobody behind it until the phone closes it.
ServerDrops(k) ==
  /\ conn[k].srv = "open" /\ k < MaxConns
  /\ \/ conn' = [conn EXCEPT ![k].srv = "zombie"] /\ UNCHANGED req
     \/ conn' = [conn EXCEPT ![k].srv = "closed"] /\ req' = Vanished(k)
  /\ UNCHANGED <<fixedVars, phoneVars, instance, lane, registryVars, execs>>

\* Mutant: what the connection has asked for ends with it.
ReaderEndsWithItsWork(k) ==
  /\ conn[k].srv \in {"open", "zombie"}
  /\ conn[k].app = "closed"
  /\ conn' = [conn EXCEPT ![k].srv = "closed"]
  /\ req' = [r \in Requests |-> IF r[2] = k /\ req[r].state # "none"
                                  THEN Gone ELSE req[r]]
  /\ execs' = [e \in DOMAIN execs |->
                 IF req[<<execs[e].call, k>>].state = "running"
                    /\ req[<<execs[e].call, k>>].exec = e
                   THEN [execs[e] EXCEPT !.state = "lost"] ELSE execs[e]]
  /\ UNCHANGED <<fixedVars, phoneVars, instance, lane, registryVars>>

\* The reader sees the end of the stream.
ReaderEnds(k) ==
  /\ conn[k].srv \in {"open", "zombie"}
  /\ conn[k].app = "closed"
  /\ conn' = [conn EXCEPT ![k].srv = "closed"]
  /\ req' = Vanished(k)
  /\ UNCHANGED <<fixedVars, phoneVars, instance, lane, registryVars, execs>>

\* A frame arrives: it joins the lane, or is refused when the lane is full.
Enqueue(c, k) ==
  /\ req[<<c, k>>].state = "wire" /\ conn[k].srv \in {"open", "zombie"}
  /\ IF Len(lane) < LaneLimit
       THEN /\ lane' = Append(lane, <<c, k>>)
            /\ req' = [req EXCEPT ![<<c, k>>].state = "queued"]
       ELSE /\ req' = Answered(c, k, "busy", 0)
            /\ UNCHANGED lane
  /\ UNCHANGED <<fixedVars, phoneVars, conn, instance, registryVars, execs>>

\* $/cancelRequest takes effect only on a request that still waits.
Cancel(c, k) ==
  /\ call[c].state = "aborted" /\ call[c].on = k
  /\ req[<<c, k>>].state = "queued" /\ conn[k].srv \in {"open", "zombie"}
  /\ req' = [req EXCEPT ![<<c, k>>] = Gone]
  /\ UNCHANGED <<fixedVars, phoneVars, conn, instance, lane, registryVars, execs>>

-----------------------------------------------------------------------------
(* The registry.                                                           *)

\* The records that have been terminal longest, and the others.
Oldest(order, n) == {order[i] : i \in 1 .. n}
Younger(order, n) == SubSeq(order, n + 1, Len(order))

\* evict_to_fit: how many terminal records go, oldest first, until what comes
\* fits or there are none left.
Evicted(rs, order, incoming, size) ==
  LET terminal == {o \in Operations : rs[o].state = "done"}
      fits == {n \in 0 .. Len(order) :
                 /\ Held(rs) - n + incoming <= capacity
                 /\ SizeOf(rs, terminal \ Oldest(order, n), size) <= MaxBytes}
  IN IF fits = {} THEN Len(order) ELSE Min(fits)

\* remove_record
Removed(rs, gone) == [o \in Operations |-> IF o \in gone THEN NoRecord ELSE rs[o]]

AnswerOf(e) == IF execs[e].size > MaxBytes THEN "too_large" ELSE "result"

\* Mutant: only the operation is compared.
ReplayAny(c, k, rec) ==
  CASE rec.state = "done" -> req' = Answered(c, k, AnswerOf(rec.exec), rec.exec)
    [] OTHER -> req' = [req EXCEPT ![<<c, k>>].state = "joined", ![<<c, k>>].exec = rec.exec]

\* A record is there: other parameters are a conflict, a terminal outcome is
\* sent again, and an execution that is under way is joined.
Replay(c, k, rec) ==
  CASE ask[execs[rec.exec].call].payload # ask[c].payload -> req' = Answered(c, k, "conflict", 0)
    [] ask[execs[rec.exec].call].payload = ask[c].payload /\ rec.state = "done" ->
         req' = Answered(c, k, AnswerOf(rec.exec), rec.exec)
    [] OTHER -> req' = [req EXCEPT ![<<c, k>>].state = "joined", ![<<c, k>>].exec = rec.exec]

\* CommandRegistry::admit, and the start of what is new.  However many of the
\* oldest terminal records are too old (cleanup_expired).
Admit(c, k) ==
  \E n \in 0 .. Len(age) :
    LET rs == Removed(record, Oldest(age, n))
        o == ask[c].operation
        m == n + IF rs[o].state # "none" THEN 0
                 ELSE Evicted(rs, Younger(age, n), 1, Retained)
        gone == Oldest(age, m)
        left == Removed(record, gone)
    IN /\ age' = Younger(age, m)
       /\ bytes' = bytes - SizeOf(record, gone, Retained)
       /\ forgotten' = forgotten \cup {record[p].exec : p \in gone}
       /\ CASE rs[o].state # "none" ->
                 Replay(c, k, rs[o]) /\ record' = left /\ UNCHANGED execs
            [] rs[o].state = "none" /\ Held(left) >= capacity ->
                 /\ req' = Answered(c, k, "busy", 0)
                 /\ record' = left /\ UNCHANGED execs
            [] OTHER ->
                 /\ execs' = Append(execs, [call |-> c, inst |-> instance, size |-> 0,
                                            state |-> "running"])
                 /\ record' = [left EXCEPT ![o] = [state |-> "pending",
                                                   exec |-> Len(execs) + 1]]
                 /\ req' = [req EXCEPT ![<<c, k>>].state = "running",
                                       ![<<c, k>>].exec = Len(execs) + 1]

\* The lane hands out its next request.  One whose client is gone, or that was
\* cancelled, is dropped before it is admitted.
StartNext ==
  /\ lane # <<>> /\ Cardinality(Handled) < Width
  /\ lane' = Tail(lane)
  /\ LET c == Head(lane)[1]
         k == Head(lane)[2]
     IN IF conn[k].srv = "open" /\ req[<<c, k>>].state = "queued"
          THEN Admit(c, k)
          ELSE /\ req' = [req EXCEPT ![<<c, k>>] = Gone]
               /\ UNCHANGED <<registryVars, execs>>
  /\ UNCHANGED <<fixedVars, phoneVars, conn, instance>>

\* Mutant: complete() does not make room.
CompleteKeepsAll(e, size) ==
  /\ execs' = [execs EXCEPT ![e].state = "done", ![e].size = size]
  /\ LET o == ask[execs[e].call].operation
     IN /\ record' = [record EXCEPT ![o].state = "done"]
        /\ age' = Append(age, o)
        /\ bytes' = bytes + Limited(size)
  /\ UNCHANGED forgotten

\* Mutant: the record is released with the answer.
CompleteAndRelease(e, size) ==
  /\ execs' = [execs EXCEPT ![e].state = "done", ![e].size = size]
  /\ record' = [record EXCEPT ![ask[execs[e].call].operation] = NoRecord]
  /\ UNCHANGED <<age, bytes, forgotten>>

\* CommandRegistry::complete: the outcome is kept, then older ones make room.
Complete(e, size) ==
  LET o == ask[execs[e].call].operation
      kept == [Retained EXCEPT ![e] = Limited(size)]
      rs == [record EXCEPT ![o].state = "done"]
      order == Append(age, o)
      n == Evicted(rs, order, 0, kept)
      gone == Oldest(order, n)
  IN /\ execs' = [execs EXCEPT ![e].state = "done", ![e].size = size]
     /\ record' = Removed(rs, gone)
     /\ age' = Younger(order, n)
     /\ bytes' = bytes + Limited(size) - SizeOf(rs, gone, kept)
     /\ forgotten' = forgotten \cup {rs[p].exec : p \in gone}

\* The extension answers; the request that was admitted answers in its turn.
ExecutionEnds(e) ==
  /\ execs[e].state = "running" /\ execs[e].inst = instance
  /\ \E size \in 1 .. MaxBytes + 1 :
       /\ Complete(e, size)
       /\ req' = [r \in Requests |->
            IF req[r].state = "running" /\ req[r].exec = e
              THEN Reply(r[1], r[2], IF size > MaxBytes THEN "too_large" ELSE "result", e)
              ELSE req[r]]
  /\ UNCHANGED <<fixedVars, phoneVars, conn, instance, lane>>

\* await_outcome: the receiver still has the outcome of a record that is gone.
JoinedWakes(c, k) ==
  /\ req[<<c, k>>].state = "joined"
  /\ execs[req[<<c, k>>].exec].state = "done"
  /\ req' = Answered(c, k, AnswerOf(req[<<c, k>>].exec), req[<<c, k>>].exec)
  /\ UNCHANGED <<fixedVars, phoneVars, conn, instance, lane, registryVars, execs>>

\* The worker is replaced: connections, lane and registry are gone, and so is
\* what the extensions were doing.
Restart ==
  /\ instance <= MaxRestarts /\ Opened < MaxConns
  /\ instance' = instance + 1
  /\ conn' = [k \in Conns |-> IF conn[k].srv = "none" THEN conn[k]
                              ELSE [conn[k] EXCEPT !.srv = "closed"]]
  /\ req' = [r \in Requests |->
               IF req[r].state \in {"wire", "queued", "running", "joined"}
                 THEN Gone ELSE req[r]]
  /\ lane' = <<>>
  /\ record' = [o \in Operations |-> NoRecord] /\ age' = <<>> /\ bytes' = 0
  /\ execs' = [e \in DOMAIN execs |-> IF execs[e].state = "running"
                                        THEN [execs[e] EXCEPT !.state = "lost"]
                                        ELSE execs[e]]
  /\ UNCHANGED <<fixedVars, phoneVars, forgotten>>

-----------------------------------------------------------------------------
\* The phone opens a new connection when it has none that the server serves:
\* the socket is closed, or a heartbeat on it stays unanswered.
Reconnect == Connect /\ (active = 0 \/ conn[active].srv # "open")

Phone ==
  \/ Connect
  \/ \E c \in Calls : Route(c) \/ Retry(c) \/ Abort(c)
  \/ \E c \in Calls, k \in Conns : Receive(c, k)
  \/ \E k \in Conns : PhoneLoses(k)
Server ==
  \/ StartNext \/ Restart
  \/ \E k \in Conns : ServerDrops(k) \/ ReaderEnds(k)
  \/ \E c \in Calls, k \in Conns : Enqueue(c, k) \/ Cancel(c, k) \/ JoinedWakes(c, k)
  \/ \E e \in DOMAIN execs : ExecutionEnds(e)
Next == Phone \/ Server

Spec == Init /\ [][Next]_vars

\* A connection the phone no longer uses is drained and closed; one the server
\* has closed is seen to be closed.
PhoneNotices(k) == PhoneLoses(k) /\ (k # active \/ conn[k].srv = "closed")

\* What happens without anybody's doing: awaits end, frames arrive, permits are
\* taken, extensions answer, and the end of a stream is seen.
PhoneGoesOn ==
  \/ \E c \in Calls : Route(c) \/ Retry(c)
  \/ \E k \in Conns : PhoneNotices(k) \/ \E c \in Calls : Receive(c, k)
ServerGoesOn ==
  \/ StartNext \/ \E e \in DOMAIN execs : ExecutionEnds(e)
  \/ \E k \in Conns : ReaderEnds(k) \/ \E c \in Calls : Enqueue(c, k) \/ JoinedWakes(c, k)

Fairness == WF_vars(Reconnect) /\ WF_vars(PhoneGoesOn) /\ WF_vars(ServerGoesOn)
FairSpec == Spec /\ Fairness
-----------------------------------------------------------------------------
\* An operation does not run a second time at a server while its execution is
\* under way or its outcome is remembered, over however many connections it
\* is asked for.
RunsOnce ==
  \A d, e \in DOMAIN execs :
    (d < e /\ execs[d].inst = execs[e].inst
     /\ ask[execs[d].call].operation = ask[execs[e].call].operation)
      => d \in forgotten /\ execs[d].state = "done"

\* The requests of one call all went to the same instance of the server: a
\* restart is never crossed by a blind retry.
OneServerPerCall ==
  \A c \in Calls : \A j, k \in Conns :
    (req[<<c, j>>].state # "none" /\ req[<<c, k>>].state # "none")
      => conn[j].inst = conn[k].inst

\* The answer of a call is the outcome of an execution of its own operation
\* with its own parameters.
AnswerIsItsOwn ==
  \A c \in Calls : call[c].answer \in {"result", "too_large"} =>
    LET e == execs[call[c].exec]
    IN /\ e.state = "done" /\ ask[e.call].operation = ask[c].operation
       /\ ask[e.call].payload = ask[c].payload
       /\ call[c].answer = AnswerOf(call[c].exec)

\* What was admitted runs to its end: only a restart of the worker stops it,
\* not a lost connection and not a cancellation.
AdmittedRunsToItsEnd ==
  [][\A e \in DOMAIN execs :
       execs[e].state = "running" /\ instance' = instance => execs'[e].state # "lost"]_vars

\* The service this implements: what runs and how it ended, what the registry
\* has a record of, and what the user interface has been told.
Run(e) == [call |-> execs[e].call, life |-> execs[e].inst,
           outcome |-> IF execs[e].state = "done" THEN AnswerOf(e) ELSE execs[e].state]
Runs == [e \in DOMAIN execs |-> Run(e)]
Remembered == {record[o].exec : o \in {p \in Operations : record[p].state # "none"}}
News(x) ==
  CASE x.state \in Waiting -> [news |-> "none", run |-> 0]
    [] x.state = "answered" /\ x.answer \in {"result", "too_large"} ->
         [news |-> x.answer, run |-> x.exec]
    [] OTHER -> [news |-> "refused", run |-> 0]
Told == [c \in Calls |-> News(call[c])]
Service == INSTANCE CommandService
             WITH wanted <- ask, life <- instance, runs <- Runs, kept <- Remembered, told <- Told

\* A command is begun only when none of its operation is remembered, and for
\* one call at one instance of the server only; it runs to its end unless the
\* worker restarts and is remembered until then; a call is told once, how its
\* own command has ended or that it will not be told.
RefinesCommandService == Service!ServiceSpec

\* A call ends: with an answer, with an error or because its caller has
\* withdrawn it.
CallEnds ==
  \A c \in Calls : (call[c].state \in Waiting) ~> (call[c].state \in Over)
=============================================================================
