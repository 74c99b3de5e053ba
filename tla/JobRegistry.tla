------------------------------ MODULE JobRegistry ------------------------------
(***************************************************************************)
(* The registry of long operations ("jobs") of the worker's WebSocket      *)
(* server, crates/remux/src/rpc/ws.rs.  A phone starts a job under an      *)
(* operation id of its choice, reads it, cancels it and is told of every   *)
(* change.  Three threads act for one admitted job:                        *)
(*                                                                         *)
(*   the starter    the request handler: it admits the job, announces it,  *)
(*                  spawns its task and then stores the task's handle;     *)
(*   the task       it marks the job running, calls the router and         *)
(*                  records the outcome;                                   *)
(*   the canceller  the handler of jobs/cancel that took the handle.       *)
(*                                                                         *)
(* They meet in one table under a mutex, and each announces what it did    *)
(* outside of it: it copies the record under the lock and sends the copy   *)
(* later.  An operation id whose record was evicted may be started again,  *)
(* so a LIFE is one admission of an id; the table is keyed by the id.      *)
(***************************************************************************)
EXTENDS Naturals, FiniteSets

CONSTANTS
    Op,             \* operation ids
    MaxRetained,    \* MAX_RETAINED_JOBS
    MaxLives,       \* bound: how many admissions a behaviour has
    MaxCancels,     \* bound: how many cancellations it has
    Absent          \* no record; nothing to send

Life == 1..MaxLives
Actor == {"starter", "task", "canceller"}
\* "completed" stands for "failed" too: nothing in the registry tells them apart.
Ended == {"completed", "canceled"}
State == {"accepted", "running"} \cup Ended

VARIABLES
    jobs,       \* the table: a record for an operation id, or Absent
    opOf,       \* the id a life was admitted under; Absent: not yet
    pc,         \* where each actor of each life is
    copy,       \* the record an actor has copied and not sent yet
    ran,        \* what a life's task has done with the router
    aborted,    \* the lives whose task handle was aborted
    told        \* the newest record of each life that was sent to phones

vars == <<jobs, opOf, pc, copy, ran, aborted, told>>

Snapshot == [life: Life, revision: Nat \ {0}, state: State]
Record == [life: Life, revision: Nat \ {0}, state: State, abort: Life \cup {0}]
Places == [starter |-> {"none", "copy", "send", "spawn", "store", "done"},
           task |-> {"none", "spawned", "mark", "copy", "send", "call",
                     "working", "answered", "gone"},
           canceller |-> {"none", "abort", "update", "copy", "send", "done"}]

ASSUME JobsAssumption == /\ MaxRetained \in Nat \ {0}
                         /\ {MaxLives, MaxCancels} \subseteq Nat
                         /\ Absent \notin Op \cup Snapshot \cup Record

Kept == {o \in Op : jobs[o] # Absent}
IsTerminal(job) == job.state \in Ended
Active(o) == o \in Kept /\ ~IsTerminal(jobs[o])

\* The task of a life runs between its spawn and its last announcement.
Admitted == {l \in Life : opOf[l] # Absent}
Goes(a, l, from, to) == /\ pc[a][l] = from
                        /\ pc' = [pc EXCEPT ![a][l] = to]

Init ==
    /\ jobs = [o \in Op |-> Absent]
    /\ opOf = [l \in Life |-> Absent]
    /\ pc = [a \in Actor |-> [l \in Life |-> "none"]]
    /\ copy = [a \in Actor |-> [l \in Life |-> Absent]]
    /\ ran = [l \in Life |-> "no"]
    /\ aborted = {}
    /\ told = [l \in Life |-> Absent]

-----------------------------------------------------------------------------
(* Admission, and what a full table makes room with.  A start whose id is   *)
(* known, and one that finds no room, only get an answer.                   *)

Evictable(table) == {o \in Op : table[o] # Absent /\ IsTerminal(table[o])}

\* Mutants: room is made with any record; a full table takes one more.
EvictAny(table) ==
    LET kept == {o \in Op : table[o] # Absent}
    IN  IF Cardinality(kept) < MaxRetained
        THEN {table}
        ELSE {[table EXCEPT ![o] = Absent] : o \in kept}
OneTooMany(table) ==
    LET kept == {o \in Op : table[o] # Absent}
    IN  IF Cardinality(kept) <= MaxRetained
        THEN {table}
        ELSE {[table EXCEPT ![o] = Absent] : o \in Evictable(table)}

Room(table) ==
    LET kept == {o \in Op : table[o] # Absent}
    IN  IF Cardinality(kept) < MaxRetained
        THEN {table}
        ELSE {[table EXCEPT ![o] = Absent] : o \in Evictable(table)}

Start(o) ==
    \E l \in Life :
        /\ jobs[o] = Absent
        /\ Admitted = 1..(l - 1)
        /\ \E table \in Room(jobs) :
              jobs' = [table EXCEPT ![o] = [life |-> l, revision |-> 1,
                                            state |-> "accepted", abort |-> 0]]
        /\ opOf' = [opOf EXCEPT ![l] = o]
        /\ Goes("starter", l, "none", "copy")
        /\ UNCHANGED <<copy, ran, aborted, told>>

-----------------------------------------------------------------------------
(* What every actor does with a record: change it under the lock, then      *)
(* announce it.                                                             *)

\* Mutant: only the first change has a revision of its own.
ChangedOnce(job, state) ==
    [life |-> job.life,
     revision |-> 2,
     state |-> state,
     abort |-> IF state \in Ended THEN 0 ELSE job.abort]

Changed(job, state) ==
    [life |-> job.life,
     revision |-> job.revision + 1,
     state |-> state,
     abort |-> IF state \in Ended THEN 0 ELSE job.abort]

\* Mutant: a running job whose handle is not stored is taken for gone.
UpdateHeld(o, state) ==
    jobs' = IF jobs[o] = Absent \/ (jobs[o].state = "running" /\ jobs[o].abort = 0)
            THEN jobs
            ELSE [jobs EXCEPT ![o] = Changed(jobs[o], state)]

Update(o, state) ==
    jobs' = IF jobs[o] = Absent THEN jobs
            ELSE [jobs EXCEPT ![o] = Changed(jobs[o], state)]

View(job) == [life |-> job.life, revision |-> job.revision, state |-> job.state]

\* broadcast_job takes its copy under the lock ...
Copy(a, l) ==
    LET job == jobs[opOf[l]]
    IN  /\ Goes(a, l, "copy", "send")
        /\ copy' = [copy EXCEPT ![a][l] =
                        IF job = Absent THEN Absent ELSE View(job)]
        /\ UNCHANGED <<jobs, opOf, ran, aborted, told>>

AfterSend(a, l) ==
    CASE a = "starter"   -> "spawn"
      [] a = "canceller" -> "done"
      [] a = "task"      -> IF ran[l] = "no" THEN "call" ELSE "gone"

Newer(old, new) == IF old # Absent /\ old.revision > new.revision THEN old ELSE new

\* ... and sends it without.
Send(a, l) ==
    /\ Goes(a, l, "send", AfterSend(a, l))
    /\ told' = IF copy[a][l] = Absent THEN told
               ELSE [told EXCEPT ![copy[a][l].life] = Newer(@, copy[a][l])]
    /\ copy' = [copy EXCEPT ![a][l] = Absent]
    /\ UNCHANGED <<jobs, opOf, ran, aborted>>

-----------------------------------------------------------------------------
(* The starter, after it announced the admission.                           *)

Spawn(l) ==
    /\ pc["starter"][l] = "spawn"
    /\ pc' = [pc EXCEPT !["starter"][l] = "store", !["task"][l] = "spawned"]
    /\ UNCHANGED <<jobs, opOf, copy, ran, aborted, told>>

\* Mutant: the handle is stored in a terminal record too.
HandleAlways(job, l) == [job EXCEPT !.abort = l]

WithHandle(job, l) == IF IsTerminal(job) THEN job ELSE [job EXCEPT !.abort = l]

StoreHandle(l) ==
    /\ Goes("starter", l, "store", "done")
    /\ jobs' = IF jobs[opOf[l]] = Absent THEN jobs
               ELSE [jobs EXCEPT ![opOf[l]] = WithHandle(@, l)]
    /\ UNCHANGED <<opOf, copy, ran, aborted, told>>

-----------------------------------------------------------------------------
(* The task.  An abort is seen where the executor would poll it, never      *)
(* between two statements of one poll.                                      *)

FirstPoll(l) ==
    /\ l \notin aborted
    /\ Goes("task", l, "spawned", "mark")
    /\ UNCHANGED <<jobs, opOf, copy, ran, aborted, told>>

MarkRunning(l) ==
    /\ Goes("task", l, "mark", "copy")
    /\ Update(opOf[l], "running")
    /\ UNCHANGED <<opOf, copy, ran, aborted, told>>

\* The router may answer at once or leave the task waiting.
Call(l) ==
    /\ \/ Goes("task", l, "call", "working")
       \/ Goes("task", l, "call", "answered")
    /\ ran' = [ran EXCEPT ![l] = "called"]
    /\ UNCHANGED <<jobs, opOf, copy, aborted, told>>

\* A poll that finds the router's answer, begun before any abort.
Answer(l) ==
    /\ l \notin aborted
    /\ Goes("task", l, "working", "answered")
    /\ UNCHANGED <<jobs, opOf, copy, ran, aborted, told>>

Finish(l) ==
    /\ Goes("task", l, "answered", "copy")
    /\ Update(opOf[l], "completed")
    /\ UNCHANGED <<opOf, copy, ran, aborted, told>>

\* The executor drops an aborted task instead of polling it.
DropTask(l) ==
    /\ l \in aborted
    /\ \/ Goes("task", l, "spawned", "gone")
       \/ Goes("task", l, "working", "gone")
    /\ UNCHANGED <<jobs, opOf, copy, ran, aborted, told>>

-----------------------------------------------------------------------------
(* jobs/cancel.  Without a handle in the record it is refused.              *)

Cancel(o) ==
    \E l \in Life :
        /\ o \in Kept
        /\ jobs[o].abort = l
        /\ Cardinality({k \in Life : pc["canceller"][k] # "none"}) < MaxCancels
        /\ jobs' = [jobs EXCEPT ![o].abort = 0]
        /\ Goes("canceller", l, "none", "abort")
        /\ UNCHANGED <<opOf, copy, ran, aborted, told>>

AbortTask(l) ==
    /\ Goes("canceller", l, "abort", "update")
    /\ aborted' = aborted \cup {l}
    /\ UNCHANGED <<jobs, opOf, copy, ran, told>>

MarkCanceled(l) ==
    /\ Goes("canceller", l, "update", "copy")
    /\ Update(opOf[l], "canceled")
    /\ UNCHANGED <<opOf, copy, ran, aborted, told>>

-----------------------------------------------------------------------------
Progress(l) ==
    \/ \E a \in Actor : Copy(a, l) \/ Send(a, l)
    \/ Spawn(l) \/ StoreHandle(l)
    \/ FirstPoll(l) \/ MarkRunning(l) \/ Call(l) \/ Answer(l) \/ Finish(l) \/ DropTask(l)
    \/ AbortTask(l) \/ MarkCanceled(l)

Next == \/ \E o \in Op : Start(o) \/ Cancel(o)
        \/ \E l \in Life : Progress(l)

Spec == Init /\ [][Next]_vars

\* Every thread goes on and the router answers every call in the end; nobody
\* has to start or cancel anything.
FairSpec == Spec /\ \A l \in Life : WF_vars(Progress(l))

-----------------------------------------------------------------------------
\* Types, and the bound of the table.
TypeOK ==
    /\ jobs \in [Op -> Record \cup {Absent}]
    /\ opOf \in [Life -> Op \cup {Absent}]
    /\ DOMAIN pc = Actor /\ \A a \in Actor : pc[a] \in [Life -> Places[a]]
    /\ copy \in [Actor -> [Life -> Snapshot \cup {Absent}]]
    /\ ran \in [Life -> {"no", "called"}]
    /\ aborted \subseteq Life
    /\ told \in [Life -> Snapshot \cup {Absent}]
    /\ Cardinality(Kept) <= MaxRetained

\* The task of a life is still to be spawned, or has not recorded its outcome.
Unfinished(l) ==
    \/ pc["starter"][l] \in {"copy", "send", "spawn"}
    \/ pc["task"][l] \in {"spawned", "mark", "call", "working", "answered"}
    \/ pc["task"][l] \in {"copy", "send"} /\ ran[l] = "no"

\* None of the id's lives was ever aborted.
Untouched(o) == \A l \in aborted : opOf[l] # o

\* The actors of an id are done with the table and have announced everything.
Quiet(o) ==
    \A l \in Admitted : opOf[l] = o =>
        /\ pc["starter"][l] = "done"
        /\ pc["task"][l] = "gone"
        /\ pc["canceller"][l] \in {"none", "done"}

\* Copies are sent in any order, yet the last change of a job is announced:
\* once its threads are through, phones were told the revision and the state
\* that jobs/read returns.
LastChangeIsAnnounced ==
    \A o \in Kept : Quiet(o) =>
        told[jobs[o].life] = View(jobs[o])

\* The record of an id that was never cancelled is active exactly as long as
\* its task is unfinished: an id never has two runs at a time, however often
\* it is started and whatever makes room for it, no record stays active with
\* nobody to end it, where it could never be evicted, and a terminal record
\* has no task, and no handle, that could still change it.
RecordIsItsTask ==
    \A o \in Op : Untouched(o) =>
        /\ \A l \in Admitted : opOf[l] = o =>
              (Unfinished(l) <=> Active(o) /\ jobs[o].life = l)
        /\ o \in Kept /\ jobs[o].abort # 0 => Active(o)

\* A job that is not cancelled reaches a terminal state, or its record is gone.
JobsSettle == \A o \in Op : Active(o) ~> (~Active(o) \/ ~Untouched(o))
=============================================================================
