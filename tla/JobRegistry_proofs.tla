-------------------------- MODULE JobRegistry_proofs --------------------------
(***************************************************************************)
(* Proofs about JobRegistry, for any operation ids, any size of the table  *)
(* and any number of lives and cancellations.                              *)
(*                                                                         *)
(* The invariant has two halves.  TasksOK says where a record and the      *)
(* threads of its life stand to each other.  NewsOK says that of every     *)
(* record that was changed somebody still has the last change to announce, *)
(* and that no older copy can undo an announcement.                        *)
(***************************************************************************)
EXTENDS JobRegistry, FiniteSetTheorems, TLAPS

\* A life without an id has not begun.
AdmissionOK ==
    \A l \in Life : opOf[l] = Absent =>
        /\ \A a \in Actor : pc[a][l] = "none"
        /\ ran[l] = "no" /\ l \notin aborted

\* A record and its handle belong to lives of its id; only an active record
\* has a handle.
RecordsOK ==
    \A o \in Kept :
        /\ opOf[jobs[o].life] = o
        /\ jobs[o].abort # 0 => opOf[jobs[o].abort] = o /\ Active(o)

\* The order of a life: its task is spawned by the starter, calls the router
\* once, and is aborted before the canceller touches the record.
ThreadsOK ==
    \A l \in Life :
        /\ pc["starter"][l] \in {"none", "copy", "send", "spawn"} =>
              pc["task"][l] = "none"
        /\ pc["task"][l] \in {"none", "spawned", "mark", "call"} => ran[l] = "no"
        /\ pc["task"][l] \in {"working", "answered"} => ran[l] = "called"
        /\ pc["canceller"][l] = "update" => l \in aborted

TasksOK ==
    /\ AdmissionOK /\ RecordsOK /\ ThreadsOK
    /\ RecordIsItsTask

\* What a phone or an actor holds of a life is older than its record, or it is
\* the record.
Latest(x) ==
    x # Absent =>
        /\ x.life \in Admitted
        /\ \A o \in Kept : jobs[o].life = x.life =>
              x.revision < jobs[o].revision \/ x = View(jobs[o])

\* An actor of the id still has the record as it is to announce.
Owed(o) ==
    \E a \in Actor, l \in Life :
        /\ opOf[l] = o
        /\ \/ pc[a][l] = "copy"
           \/ pc[a][l] = "send" /\ copy[a][l] = View(jobs[o])

NewsOK ==
    /\ \A l \in Life : Latest(told[l]) /\ (told[l] # Absent => told[l].life = l)
    /\ \A a \in Actor, l \in Life : Latest(copy[a][l])
    /\ \A o \in Kept : told[jobs[o].life] = View(jobs[o]) \/ Owed(o)

IInv == TypeOK /\ IsFiniteSet(Kept) /\ TasksOK /\ NewsOK

-----------------------------------------------------------------------------
(* Types, and the bound of the table.                                      *)

Types ==
    /\ jobs \in [Op -> Record \cup {Absent}]
    /\ opOf \in [Life -> Op \cup {Absent}]
    /\ DOMAIN pc = Actor /\ \A a \in Actor : pc[a] \in [Life -> Places[a]]
    /\ copy \in [Actor -> [Life -> Snapshot \cup {Absent}]]
    /\ ran \in [Life -> {"no", "called"}]
    /\ aborted \subseteq Life
    /\ told \in [Life -> Snapshot \cup {Absent}]

Fits == IsFiniteSet(Kept) /\ Cardinality(Kept) <= MaxRetained

LEMMA Kinds == Absent \notin Op /\ Absent \notin Snapshot /\ Absent \notin Record
  BY JobsAssumption

\* What an actor does next is a place of that actor.
LEMMA Moves ==
    ASSUME Types, NEW a \in Actor, NEW l \in Life, NEW from, NEW to \in Places[a],
           Goes(a, l, from, to)
    PROVE  DOMAIN pc' = Actor /\ \A b \in Actor : pc'[b] \in [Life -> Places[b]]
  BY DEF Types, Goes

LEMMA ChangedType ==
    ASSUME NEW job \in Record, NEW state \in State
    PROVE  /\ Changed(job, state) \in Record
           /\ Changed(job, state).life = job.life
           /\ Changed(job, state).revision = job.revision + 1
           /\ Changed(job, state).state = state
           /\ state \in Ended => Changed(job, state).abort = 0
           /\ state \notin Ended => Changed(job, state).abort = job.abort
  BY DEF Changed, Record

LEMMA ViewType ==
    ASSUME NEW job \in Record
    PROVE  /\ View(job) \in Snapshot
           /\ View(job).life = job.life
           /\ View(job).revision = job.revision
           /\ View(job).state = job.state
  BY DEF View, Record, Snapshot

\* An update changes no more than the record of its id.
LEMMA UpdateTypes ==
    ASSUME Types, Fits, NEW o \in Op, NEW state \in State, Update(o, state)
    PROVE  jobs' \in [Op -> Record \cup {Absent}] /\ Kept' = Kept /\ Fits'
<1>1. CASE jobs[o] = Absent
  BY <1>1 DEF Types, Update, Kept, Fits
<1>2. CASE jobs[o] # Absent
  <2>1. jobs[o] \in Record
    BY <1>2 DEF Types
  <2>2. Changed(jobs[o], state) \in Record
    BY <2>1, ChangedType
  <2>3. jobs' = [jobs EXCEPT ![o] = Changed(jobs[o], state)]
    BY <1>2 DEF Update
  <2>4. jobs' \in [Op -> Record \cup {Absent}] /\ Kept' = Kept
    BY <1>2, <2>2, <2>3, Kinds DEF Types, Kept
  <2>. QED BY <2>4 DEF Fits
<1>. QED BY <1>1, <1>2

LEMMA InitTypes == Init => Types /\ Fits
<1>. SUFFICES ASSUME Init PROVE Types /\ Fits
  OBVIOUS
<1>1. Kept = {}
  BY DEF Init, Kept
<1>2. Fits
  BY <1>1, FS_EmptySet, JobsAssumption DEF Fits
<1>. QED BY <1>2 DEF Init, Types, Actor, Places

LEMMA StartTypes ==
    ASSUME Types, Fits, NEW o \in Op, Start(o)
    PROVE  Types' /\ Fits'
<1>1. PICK l \in Life, table \in Room(jobs) :
        /\ jobs[o] = Absent
        /\ Admitted = 1..(l - 1)
        /\ jobs' = [table EXCEPT ![o] = [life |-> l, revision |-> 1,
                                         state |-> "accepted", abort |-> 0]]
        /\ opOf' = [opOf EXCEPT ![l] = o]
        /\ Goes("starter", l, "none", "copy")
        /\ UNCHANGED <<copy, ran, aborted, told>>
  BY DEF Start
<1>2. [life |-> l, revision |-> 1, state |-> "accepted", abort |-> 0] \in Record
  BY DEF Record, State
<1>3. Types'
  <2>1. table \in [Op -> Record \cup {Absent}]
    BY <1>1 DEF Types, Room, Evictable
  <2>2. "starter" \in Actor /\ "copy" \in Places["starter"]
    BY DEF Actor, Places
  <2>3. DOMAIN pc' = Actor /\ \A b \in Actor : pc'[b] \in [Life -> Places[b]]
    BY <1>1, <2>2, Moves
  <2>. QED BY <1>1, <1>2, <2>1, <2>3 DEF Types
<1>4. Fits'
  <2>1. Cardinality(Kept) \in Nat /\ MaxRetained \in Nat
    BY FS_CardinalityType, JobsAssumption DEF Fits
  <2>2. CASE Cardinality(Kept) < MaxRetained
    <3>1. table = jobs
      BY <1>1, <2>2 DEF Room, Kept
    <3>2. Kept' = Kept \cup {o}
      BY <1>1, <1>2, <3>1, Kinds DEF Kept, Types
    <3>3. /\ IsFiniteSet(Kept \cup {o})
          /\ Cardinality(Kept \cup {o}) = IF o \in Kept THEN Cardinality(Kept) ELSE Cardinality(Kept) + 1
      BY FS_AddElement DEF Fits
    <3>. QED BY <2>1, <2>2, <3>2, <3>3 DEF Fits
  <2>3. CASE ~ (Cardinality(Kept) < MaxRetained)
    <3>1. PICK e \in Op : jobs[e] # Absent /\ table = [jobs EXCEPT ![e] = Absent]
      BY <1>1, <2>3 DEF Room, Kept, Evictable
    <3>2. Kept' = (Kept \ {e}) \cup {o} /\ e \in Kept /\ o \notin Kept \ {e}
      BY <1>1, <1>2, <3>1, Kinds DEF Kept, Types
    <3>3. IsFiniteSet(Kept \ {e}) /\ Cardinality(Kept \ {e}) = Cardinality(Kept) - 1
      BY <3>2, FS_RemoveElement DEF Fits
    <3>4. /\ IsFiniteSet((Kept \ {e}) \cup {o})
          /\ Cardinality((Kept \ {e}) \cup {o}) = Cardinality(Kept \ {e}) + 1
      BY <3>2, <3>3, FS_AddElement
    <3>. QED BY <2>1, <3>2, <3>3, <3>4 DEF Fits
  <2>. QED BY <2>2, <2>3
<1>. QED BY <1>3, <1>4

LEMMA CancelTypes ==
    ASSUME Types, Fits, NEW o \in Op, Cancel(o)
    PROVE  Types' /\ Fits'
<1>1. PICK l \in Life :
        /\ o \in Kept
        /\ jobs' = [jobs EXCEPT ![o].abort = 0]
        /\ Goes("canceller", l, "none", "abort")
        /\ UNCHANGED <<opOf, copy, ran, aborted, told>>
  BY DEF Cancel
<1>2. jobs[o] \in Record
  BY <1>1 DEF Kept, Types
<1>3. [jobs[o] EXCEPT !.abort = 0] \in Record
  BY <1>2 DEF Record
<1>4. jobs' = [jobs EXCEPT ![o] = [jobs[o] EXCEPT !.abort = 0]]
  BY <1>1
<1>5. jobs' \in [Op -> Record \cup {Absent}] /\ Kept' = Kept
  BY <1>1, <1>3, <1>4, Kinds, ZenonT(40) DEF Types, Kept
<1>6. "canceller" \in Actor /\ "abort" \in Places["canceller"]
  BY DEF Actor, Places
<1>7. DOMAIN pc' = Actor /\ \A b \in Actor : pc'[b] \in [Life -> Places[b]]
  BY <1>1, <1>6, Moves
<1>. QED BY <1>1, <1>5, <1>7 DEF Types, Fits

LEMMA UnfoldIInv == IInv <=> Types /\ Fits /\ TasksOK /\ NewsOK
  BY DEF IInv, TypeOK, Types, Fits

\* One actor has moved, everyone else is where they were.
LEMMA Moved ==
    ASSUME Types, NEW a \in Actor, NEW l \in Life, NEW from, NEW to, Goes(a, l, from, to)
    PROVE  /\ pc[a][l] = from
           /\ \A b \in Actor, k \in Life :
                pc'[b][k] = IF b = a /\ k = l THEN to ELSE pc[b][k]
  BY DEF Types, Goes

\* Whoever has begun has an id.
LEMMA Begun ==
    ASSUME Types, AdmissionOK, NEW a \in Actor, NEW l \in Life, pc[a][l] # "none"
    PROVE  opOf[l] \in Op /\ l \in Admitted
  BY Kinds DEF Types, AdmissionOK, Admitted

LEMMA ActorNames == "starter" \in Actor /\ "task" \in Actor /\ "canceller" \in Actor
  BY DEF Actor

LEMMA CopyTypes ==
    ASSUME Types, Fits, AdmissionOK, NEW a \in Actor, NEW l \in Life, Copy(a, l)
    PROVE  Types' /\ Fits'
<1>1. Goes(a, l, "copy", "send") /\ "send" \in Places[a]
  BY DEF Copy, Actor, Places
<1>2. DOMAIN pc' = Actor /\ \A b \in Actor : pc'[b] \in [Life -> Places[b]]
  BY <1>1, Moves
<1>3. opOf[l] \in Op
  BY <1>1, Begun DEF Goes
<1>4. (IF jobs[opOf[l]] = Absent THEN Absent ELSE View(jobs[opOf[l]])) \in Snapshot \cup {Absent}
  BY <1>3, ViewType DEF Types
<1>5. copy' \in [Actor -> [Life -> Snapshot \cup {Absent}]]
  BY <1>4 DEF Types, Copy
<1>. QED BY <1>2, <1>5 DEF Types, Fits, Kept, Copy

LEMMA SendTypes ==
    ASSUME Types, Fits, NEW a \in Actor, NEW l \in Life, Send(a, l)
    PROVE  Types' /\ Fits'
<1>1. AfterSend(a, l) \in Places[a]
  BY DEF AfterSend, Actor, Places
<1>2. DOMAIN pc' = Actor /\ \A b \in Actor : pc'[b] \in [Life -> Places[b]]
  BY <1>1, Moves DEF Send
<1>3. copy' \in [Actor -> [Life -> Snapshot \cup {Absent}]]
  BY DEF Types, Send
<1>4. told' \in [Life -> Snapshot \cup {Absent}]
  BY ZenonT(40) DEF Types, Send, Newer
<1>. QED BY <1>2, <1>3, <1>4 DEF Types, Fits, Kept, Send

\* The three actions that update a record.
Updates(a, l, from, state) ==
    /\ Goes(a, l, from, "copy")
    /\ Update(opOf[l], state)
    /\ UNCHANGED <<opOf, copy, ran, aborted, told>>

LEMMA UpdatingTypes ==
    ASSUME Types, Fits, AdmissionOK, NEW a \in Actor, NEW l \in Life, NEW from,
           from # "none", NEW state \in State, Updates(a, l, from, state)
    PROVE  Types' /\ Fits' /\ Kept' = Kept
<1>1. "copy" \in Places[a]
  BY DEF Actor, Places
<1>2. DOMAIN pc' = Actor /\ \A b \in Actor : pc'[b] \in [Life -> Places[b]]
  BY <1>1, Moves DEF Updates
<1>3. opOf[l] \in Op
  BY Begun DEF Updates, Goes
<1>4. jobs' \in [Op -> Record \cup {Absent}] /\ Kept' = Kept /\ Fits'
  BY <1>3, UpdateTypes DEF Updates
<1>. QED BY <1>2, <1>4 DEF Types, Updates

LEMMA StoreTypes ==
    ASSUME Types, Fits, AdmissionOK, NEW l \in Life, StoreHandle(l)
    PROVE  Types' /\ Fits' /\ Kept' = Kept
<1>1. "starter" \in Actor /\ "done" \in Places["starter"]
  BY DEF Actor, Places
<1>2. DOMAIN pc' = Actor /\ \A b \in Actor : pc'[b] \in [Life -> Places[b]]
  BY <1>1, Moves DEF StoreHandle
<1>3. opOf[l] \in Op
  BY <1>1, Begun DEF StoreHandle, Goes
<1>4. CASE jobs[opOf[l]] = Absent
  BY <1>2, <1>4 DEF Types, StoreHandle, Fits, Kept
<1>5. CASE jobs[opOf[l]] # Absent
  <2>1. jobs[opOf[l]] \in Record
    BY <1>3, <1>5 DEF Types
  <2>2. WithHandle(jobs[opOf[l]], l) \in Record
    BY <2>1 DEF WithHandle, Record
  <2>3. jobs' = [jobs EXCEPT ![opOf[l]] = WithHandle(jobs[opOf[l]], l)]
    BY <1>5 DEF StoreHandle
  <2>4. jobs' \in [Op -> Record \cup {Absent}] /\ Kept' = Kept
    BY <1>3, <1>5, <2>2, <2>3, Kinds DEF Types, Kept
  <2>. QED BY <1>2, <2>4 DEF Types, StoreHandle, Fits
<1>. QED BY <1>4, <1>5

\* The steps that touch neither the table nor an announcement.
Quietly(l) ==
    \/ Spawn(l) \/ FirstPoll(l) \/ Call(l) \/ Answer(l) \/ DropTask(l) \/ AbortTask(l)

LEMMA QuietTypes ==
    ASSUME Types, Fits, NEW l \in Life, Quietly(l)
    PROVE  Types' /\ Fits'
<1>1. /\ "store" \in Places["starter"] /\ "update" \in Places["canceller"]
      /\ {"spawned", "mark", "working", "answered", "gone"} \subseteq Places["task"]
  BY DEF Places
<1>2. DOMAIN pc' = Actor /\ \A b \in Actor : pc'[b] \in [Life -> Places[b]]
  <2>1. CASE Spawn(l)
    BY <1>1, <2>1, ActorNames DEF Types, Spawn
  <2>2. CASE FirstPoll(l) \/ Call(l) \/ Answer(l) \/ DropTask(l) \/ AbortTask(l)
    <3>1. PICK a \in Actor : \E from : \E to \in Places[a] : Goes(a, l, from, to)
      BY <1>1, <2>2, ActorNames DEF FirstPoll, Call, Answer, DropTask, AbortTask
    <3>. QED BY <3>1, Moves
  <2>. QED BY <2>1, <2>2 DEF Quietly
<1>3. /\ UNCHANGED <<jobs, opOf, copy, told>>
      /\ ran' \in [Life -> {"no", "called"}] /\ aborted' \subseteq Life
  BY DEF Types, Quietly, Spawn, FirstPoll, Call, Answer, DropTask, AbortTask
<1>. QED BY <1>2, <1>3 DEF Types, Fits, Kept

-----------------------------------------------------------------------------
(* A record is its task.                                                   *)

LEMMA InitTasks == Init => TasksOK
<1>. SUFFICES ASSUME Init PROVE TasksOK
  OBVIOUS
<1>1. Kept = {} /\ Admitted = {}
  BY DEF Init, Kept, Admitted
<1>2. AdmissionOK /\ ThreadsOK
  BY ActorNames DEF Init, AdmissionOK, ThreadsOK
<1>3. RecordsOK /\ RecordIsItsTask
  BY <1>1 DEF RecordsOK, RecordIsItsTask
<1>. QED BY <1>2, <1>3 DEF TasksOK

\* What Start does to the table: the record of its id is new, another one may
\* have made room if it was terminal.
LEMMA StartTable ==
    ASSUME Types, NEW o \in Op, Start(o)
    PROVE  \E l \in Life :
             /\ jobs[o] = Absent /\ Admitted = 1..(l - 1) /\ opOf[l] = Absent
             /\ opOf' = [opOf EXCEPT ![l] = o]
             /\ Goes("starter", l, "none", "copy")
             /\ UNCHANGED <<copy, ran, aborted, told>>
             /\ jobs'[o] \in Record
             /\ jobs'[o].life = l /\ jobs'[o].abort = 0
             /\ jobs'[o].state = "accepted" /\ jobs'[o].revision = 1
             /\ \A q \in Op \ {o} : \/ jobs'[q] = jobs[q]
                                    \/ jobs'[q] = Absent /\ ~Active(q)
<1>1. PICK l \in Life, table \in Room(jobs) :
        /\ jobs[o] = Absent
        /\ Admitted = 1..(l - 1)
        /\ jobs' = [table EXCEPT ![o] = [life |-> l, revision |-> 1,
                                         state |-> "accepted", abort |-> 0]]
        /\ opOf' = [opOf EXCEPT ![l] = o]
        /\ Goes("starter", l, "none", "copy")
        /\ UNCHANGED <<copy, ran, aborted, told>>
  BY DEF Start
<1>2. table \in [Op -> Record \cup {Absent}]
  BY DEF Types, Room, Evictable
<1>3. \A q \in Op : table[q] = jobs[q] \/ (table[q] = Absent /\ ~Active(q))
  BY DEF Types, Room, Evictable, Active
<1>4. opOf[l] = Absent
  BY <1>1, JobsAssumption DEF Admitted, Life
<1>5. [life |-> l, revision |-> 1, state |-> "accepted", abort |-> 0] \in Record
  BY DEF Record, State
<1>6. jobs'[o] = [life |-> l, revision |-> 1, state |-> "accepted", abort |-> 0]
  BY <1>1, <1>2
<1>7. \A q \in Op \ {o} : jobs'[q] = table[q]
  BY <1>1, <1>2
<1>8. \A q \in Op \ {o} : jobs'[q] = jobs[q] \/ (jobs'[q] = Absent /\ ~Active(q))
  BY <1>3, <1>7
<1>9. /\ jobs'[o] \in Record
      /\ jobs'[o].life = l /\ jobs'[o].abort = 0
      /\ jobs'[o].state = "accepted" /\ jobs'[o].revision = 1
  BY <1>5, <1>6
<1>. QED BY <1>1, <1>4, <1>8, <1>9

LEMMA StartTasks ==
    ASSUME Types, Fits, TasksOK, NEW o \in Op, Start(o)
    PROVE  TasksOK'
<1>1. PICK l \in Life :
        /\ jobs[o] = Absent /\ Admitted = 1..(l - 1) /\ opOf[l] = Absent
        /\ opOf' = [opOf EXCEPT ![l] = o]
        /\ Goes("starter", l, "none", "copy")
        /\ UNCHANGED <<copy, ran, aborted, told>>
        /\ jobs'[o] \in Record
        /\ jobs'[o].life = l /\ jobs'[o].abort = 0
        /\ jobs'[o].state = "accepted" /\ jobs'[o].revision = 1
        /\ \A q \in Op \ {o} : jobs'[q] = jobs[q] \/ (jobs'[q] = Absent /\ ~Active(q))
  BY StartTable
<1>2. \A b \in Actor, k \in Life :
        pc'[b][k] = IF b = "starter" /\ k = l THEN "copy" ELSE pc[b][k]
  BY <1>1, Moved, ActorNames
<1>3. \A k \in Life : opOf'[k] = IF k = l THEN o ELSE opOf[k]
  BY <1>1 DEF Types
<1>4. Kept' \subseteq Kept \cup {o} /\ o \in Kept' /\ o \notin Kept
  BY <1>1, Kinds DEF Kept
<1>5. \A q \in Kept' \ {o} : q \in Kept /\ jobs'[q] = jobs[q] /\ jobs[q] \in Record
  BY <1>1, <1>4 DEF Kept, Types
<1>6. AdmissionOK'
  BY <1>1, <1>2, <1>3, Kinds DEF TasksOK, AdmissionOK
<1>7. ThreadsOK'
  BY <1>1, <1>2, ActorNames DEF TasksOK, ThreadsOK, AdmissionOK
<1>8. RecordsOK'
  <2>1. ASSUME NEW q \in Kept' \ {o}
        PROVE  /\ opOf'[jobs'[q].life] = q
               /\ jobs'[q].abort # 0 => opOf'[jobs'[q].abort] = q /\ Active(q)'
    <3>1. jobs[q].life \in Life /\ jobs[q].abort \in Life \cup {0} /\ q \in Op
      BY <1>5 DEF Record, Kept
    <3>2. /\ opOf[jobs[q].life] = q
          /\ jobs[q].abort # 0 => opOf[jobs[q].abort] = q /\ Active(q)
      BY <1>5 DEF TasksOK, RecordsOK
    <3>. QED BY <1>1, <1>3, <1>5, <2>1, <3>1, <3>2, Kinds DEF Active
  <2>2. opOf'[jobs'[o].life] = o /\ jobs'[o].abort = 0
    BY <1>1, <1>3
  <2>. QED BY <2>1, <2>2 DEF RecordsOK
<1>9. RecordIsItsTask'
  <2>1. SUFFICES ASSUME NEW q \in Op, Untouched(q)'
                 PROVE  \A k \in Admitted' : opOf'[k] = q =>
                          (Unfinished(k)' <=> Active(q)' /\ jobs'[q].life = k)
    BY <1>8 DEF RecordIsItsTask, RecordsOK
  <2>2. Untouched(q)
    <3>1. l \notin aborted
      BY <1>1 DEF TasksOK, AdmissionOK
    <3>. QED BY <1>1, <1>3, <2>1, <3>1 DEF Untouched, Types
  <2>3. ASSUME NEW k \in Admitted', opOf'[k] = q
        PROVE  Unfinished(k)' <=> Active(q)' /\ jobs'[q].life = k
    <3>0. k \in Life
      BY DEF Admitted
    <3>1. CASE k = l
      BY <1>1, <1>2, <1>3, <1>4, <2>3, <3>1, ActorNames DEF Unfinished, Active, IsTerminal, Ended
    <3>2. CASE k # l
      <4>1. opOf[k] = q /\ k \in Admitted
        BY <1>3, <2>3, <3>0, <3>2 DEF Admitted
      <4>2. Unfinished(k) <=> Active(q) /\ jobs[q].life = k
        BY <2>2, <4>1 DEF TasksOK, RecordIsItsTask
      <4>3. Unfinished(k)' <=> Unfinished(k)
        BY <1>1, <1>2, <3>0, <3>2, ActorNames DEF Unfinished
      <4>4. CASE q = o
        BY <1>1, <1>4, <3>2, <4>2, <4>3, <4>4 DEF Active
      <4>5. CASE q # o
        BY <1>1, <1>4, <1>5, <4>2, <4>3, <4>5 DEF Active, Kept
      <4>. QED BY <4>4, <4>5
    <3>. QED BY <3>1, <3>2
  <2>. QED BY <2>3
<1>. QED BY <1>6, <1>7, <1>8, <1>9 DEF TasksOK

\* A step that leaves the table alone need only keep every task as unfinished
\* as it was, but for those it aborts.
LEMMA StillTasks ==
    ASSUME Types, TasksOK, UNCHANGED <<jobs, opOf>>, AdmissionOK', ThreadsOK',
           aborted \subseteq aborted',
           \A k \in Life : k \in aborted' \/ (Unfinished(k)' <=> Unfinished(k))
    PROVE  TasksOK'
<1>1. /\ Kept' = Kept /\ Admitted' = Admitted
      /\ \A q : Active(q)' <=> Active(q)
  BY DEF Kept, Admitted, Active, IsTerminal
<1>2. RecordsOK'
  BY <1>1 DEF TasksOK, RecordsOK
<1>3. ASSUME NEW q \in Op, Untouched(q)'
      PROVE  /\ \A k \in Admitted : opOf[k] = q =>
                   (Unfinished(k)' <=> Active(q) /\ jobs[q].life = k)
             /\ q \in Kept /\ jobs[q].abort # 0 => Active(q)
  <2>1. Untouched(q) /\ \A k \in Life : opOf[k] = q => k \notin aborted'
    BY <1>3 DEF Untouched
  <2>2. \A k \in Admitted : opOf[k] = q => (Unfinished(k)' <=> Unfinished(k))
    BY <2>1 DEF Admitted
  <2>. QED BY <2>1, <2>2 DEF TasksOK, RecordIsItsTask
<1>4. RecordIsItsTask'
  BY <1>1, <1>3 DEF RecordIsItsTask
<1>. QED BY <1>2, <1>4 DEF TasksOK

LEMMA CopyTasks ==
    ASSUME Types, TasksOK, NEW a \in Actor, NEW l \in Life, Copy(a, l)
    PROVE  TasksOK'
<1>1. /\ pc[a][l] = "copy" /\ UNCHANGED <<jobs, opOf, ran, aborted>>
      /\ \A b \in Actor, k \in Life :
           pc'[b][k] = IF b = a /\ k = l THEN "send" ELSE pc[b][k]
  BY Moved DEF Copy
<1>2. AdmissionOK'
  BY <1>1 DEF TasksOK, AdmissionOK
<1>3. ThreadsOK'
  BY <1>1, ActorNames DEF TasksOK, ThreadsOK
<1>4. \A k \in Life : Unfinished(k)' <=> Unfinished(k)
  BY <1>1, ActorNames DEF Unfinished
<1>. QED BY <1>1, <1>2, <1>3, <1>4, StillTasks

LEMMA SendTasks ==
    ASSUME Types, TasksOK, NEW a \in Actor, NEW l \in Life, Send(a, l)
    PROVE  TasksOK'
<1>1. /\ pc[a][l] = "send" /\ UNCHANGED <<jobs, opOf, ran, aborted>>
      /\ \A b \in Actor, k \in Life :
           pc'[b][k] = IF b = a /\ k = l THEN AfterSend(a, l) ELSE pc[b][k]
  BY Moved DEF Send
<1>2. AdmissionOK'
  BY <1>1 DEF TasksOK, AdmissionOK
<1>3. AfterSend(a, l) = IF a = "starter" THEN "spawn"
                        ELSE IF a = "canceller" THEN "done"
                        ELSE IF ran[l] = "no" THEN "call" ELSE "gone"
  BY DEF AfterSend, Actor
<1>4. ThreadsOK'
  BY <1>1, <1>3, ActorNames DEF TasksOK, ThreadsOK, Types
<1>5. \A k \in Life : Unfinished(k)' <=> Unfinished(k)
  BY <1>1, <1>3, ActorNames DEF Unfinished, Actor
<1>. QED BY <1>1, <1>2, <1>4, <1>5, StillTasks

LEMMA QuietTasks ==
    ASSUME Types, TasksOK, NEW l \in Life, Quietly(l)
    PROVE  TasksOK'
<1>0. AdmissionOK /\ ThreadsOK
  BY DEF TasksOK
<1>1. CASE Spawn(l)
  <2>1. /\ pc["starter"][l] = "spawn" /\ UNCHANGED <<jobs, opOf, ran, aborted>>
        /\ \A b \in Actor, k \in Life :
             pc'[b][k] = IF b = "starter" /\ k = l THEN "store"
                         ELSE IF b = "task" /\ k = l THEN "spawned" ELSE pc[b][k]
    BY <1>1, ActorNames DEF Types, Spawn
  <2>2. AdmissionOK' /\ ThreadsOK'
    BY <1>0, <2>1, ActorNames DEF AdmissionOK, ThreadsOK
  <2>3. \A k \in Life : Unfinished(k)' <=> Unfinished(k)
    BY <2>1, ActorNames DEF Unfinished
  <2>. QED BY <2>1, <2>2, <2>3, StillTasks
<1>2. ASSUME NEW from, NEW to, Goes("task", l, from, to),
             <<from, to>> \in {<<"spawned", "mark">>, <<"working", "answered">>},
             UNCHANGED <<jobs, opOf, ran, aborted>>
      PROVE  TasksOK'
  <2>1. /\ pc["task"][l] = from
        /\ \A b \in Actor, k \in Life :
             pc'[b][k] = IF b = "task" /\ k = l THEN to ELSE pc[b][k]
    BY <1>2, Moved, ActorNames
  <2>2. AdmissionOK' /\ ThreadsOK'
    BY <1>0, <1>2, <2>1, ActorNames DEF AdmissionOK, ThreadsOK
  <2>3. \A k \in Life : Unfinished(k)' <=> Unfinished(k)
    BY <1>2, <2>1, ActorNames DEF Unfinished
  <2>. QED BY <1>2, <2>2, <2>3, StillTasks
<1>3. CASE FirstPoll(l) \/ Answer(l)
  BY <1>2, <1>3 DEF FirstPoll, Answer
<1>4. CASE Call(l)
  <2>1. PICK to \in {"working", "answered"} : Goes("task", l, "call", to)
    BY <1>4 DEF Call
  <2>2. /\ pc["task"][l] = "call"
        /\ \A b \in Actor, k \in Life :
             pc'[b][k] = IF b = "task" /\ k = l THEN to ELSE pc[b][k]
    BY <2>1, Moved, ActorNames
  <2>3. /\ UNCHANGED <<jobs, opOf, aborted>>
        /\ \A k \in Life : ran'[k] = IF k = l THEN "called" ELSE ran[k]
    BY <1>4 DEF Call, Types
  <2>4. AdmissionOK' /\ ThreadsOK'
    BY <1>0, <2>2, <2>3, ActorNames DEF AdmissionOK, ThreadsOK
  <2>5. \A k \in Life : Unfinished(k)' <=> Unfinished(k)
    BY <2>2, <2>3, ActorNames DEF Unfinished
  <2>. QED BY <2>3, <2>4, <2>5, StillTasks
<1>5. CASE DropTask(l)
  <2>1. PICK from \in {"spawned", "working"} : Goes("task", l, from, "gone")
    BY <1>5 DEF DropTask
  <2>2. /\ pc["task"][l] = from
        /\ \A b \in Actor, k \in Life :
             pc'[b][k] = IF b = "task" /\ k = l THEN "gone" ELSE pc[b][k]
    BY <2>1, Moved, ActorNames
  <2>3. UNCHANGED <<jobs, opOf, ran, aborted>> /\ l \in aborted'
    BY <1>5 DEF DropTask
  <2>4. AdmissionOK' /\ ThreadsOK'
    BY <1>0, <2>2, <2>3, ActorNames DEF AdmissionOK, ThreadsOK
  <2>5. \A k \in Life : k = l \/ (Unfinished(k)' <=> Unfinished(k))
    BY <2>2, <2>3, ActorNames DEF Unfinished
  <2>. QED BY <2>3, <2>4, <2>5, StillTasks
<1>6. CASE AbortTask(l)
  <2>1. /\ pc["canceller"][l] = "abort"
        /\ \A b \in Actor, k \in Life :
             pc'[b][k] = IF b = "canceller" /\ k = l THEN "update" ELSE pc[b][k]
    BY <1>6, Moved, ActorNames DEF AbortTask
  <2>2. UNCHANGED <<jobs, opOf, ran>> /\ aborted' = aborted \cup {l}
    BY <1>6 DEF AbortTask
  <2>3. AdmissionOK' /\ ThreadsOK'
    BY <1>0, <2>1, <2>2, ActorNames DEF AdmissionOK, ThreadsOK
  <2>4. \A k \in Life : Unfinished(k)' <=> Unfinished(k)
    BY <2>1, <2>2, ActorNames DEF Unfinished
  <2>. QED BY <2>2, <2>3, <2>4, StillTasks
<1>. QED BY <1>1, <1>3, <1>4, <1>5, <1>6 DEF Quietly

\* A step that changes at most one record, and neither its life nor its id.
LEMMA OtherTasks ==
    ASSUME Types, TasksOK, NEW o \in Op, UNCHANGED <<opOf, ran, aborted>>,
           AdmissionOK', ThreadsOK', Kept' = Kept,
           \A q \in Op \ {o} : jobs'[q] = jobs[q],
           \A k \in Life : opOf[k] # o => (Unfinished(k)' <=> Unfinished(k)),
           o \in Kept => /\ jobs'[o].life = jobs[o].life
                         /\ jobs'[o].abort # 0 => opOf[jobs'[o].abort] = o /\ Active(o)',
           Untouched(o) => \A k \in Admitted : opOf[k] = o =>
                              (Unfinished(k)' <=> Active(o)' /\ jobs'[o].life = k)
    PROVE  TasksOK'
<1>1. Admitted' = Admitted /\ \A q \in Op : Untouched(q)' <=> Untouched(q)
  BY DEF Admitted, Untouched
<1>2. \A q \in Op \ {o} : Active(q)' <=> Active(q)
  BY DEF Active, IsTerminal
<1>3. RecordsOK'
  <2>1. \A q \in Kept \ {o} : /\ opOf'[jobs'[q].life] = q
                              /\ jobs'[q].abort # 0 => opOf'[jobs'[q].abort] = q /\ Active(q)'
    BY <1>2 DEF TasksOK, RecordsOK, Kept
  <2>2. o \in Kept => opOf'[jobs'[o].life] = o
    BY DEF TasksOK, RecordsOK
  <2>. QED BY <2>1, <2>2 DEF RecordsOK
<1>4. RecordIsItsTask'
  <2>1. ASSUME NEW q \in Op, Untouched(q), NEW k \in Admitted, opOf[k] = q
        PROVE  Unfinished(k)' <=> Active(q)' /\ jobs'[q].life = k
    <3>1. CASE q = o
      BY <2>1, <3>1
    <3>2. CASE q # o
      <4>1. Unfinished(k) <=> Active(q) /\ jobs[q].life = k
        BY <2>1 DEF TasksOK, RecordIsItsTask
      <4>2. Unfinished(k)' <=> Unfinished(k)
        BY <2>1, <3>2 DEF Admitted
      <4>. QED BY <1>2, <3>2, <4>1, <4>2
    <3>. QED BY <3>1, <3>2
  <2>2. \A q \in Op : q \in Kept' /\ jobs'[q].abort # 0 => Active(q)'
    BY <1>3 DEF RecordsOK
  <2>. QED BY <1>1, <2>1, <2>2 DEF RecordIsItsTask
<1>. QED BY <1>3, <1>4 DEF TasksOK

\* An update changes the record of its id, if there is one, as Changed says.
LEMMA UpdateTable ==
    ASSUME Types, NEW o \in Op, NEW state \in State, Update(o, state)
    PROVE  /\ \A q \in Op \ {o} : jobs'[q] = jobs[q]
           /\ Kept' = Kept
           /\ o \notin Kept => jobs' = jobs
           /\ o \in Kept => /\ jobs[o] \in Record
                            /\ jobs'[o] = Changed(jobs[o], state)
<1>1. CASE jobs[o] = Absent
  BY <1>1 DEF Update, Kept
<1>2. CASE jobs[o] # Absent
  <2>1. jobs[o] \in Record
    BY <1>2 DEF Types
  <2>2. jobs' = [jobs EXCEPT ![o] = Changed(jobs[o], state)]
    BY <1>2 DEF Update
  <2>3. jobs'[o] = Changed(jobs[o], state) /\ \A q \in Op \ {o} : jobs'[q] = jobs[q]
    BY <2>2 DEF Types
  <2>4. Changed(jobs[o], state) # Absent
    BY <2>1, ChangedType, Kinds
  <2>5. Kept' = Kept
    BY <1>2, <2>3, <2>4 DEF Kept
  <2>. QED BY <1>2, <2>1, <2>3, <2>5 DEF Kept
<1>. QED BY <1>1, <1>2

LEMMA UpdatingTasks ==
    ASSUME Types, Fits, TasksOK, NEW l \in Life,
           MarkRunning(l) \/ Finish(l) \/ MarkCanceled(l)
    PROVE  TasksOK'
<1>0. AdmissionOK /\ ThreadsOK
  BY DEF TasksOK
<1>1. PICK a \in Actor, from \in {"mark", "answered", "update"}, state \in State :
        /\ Updates(a, l, from, state)
        /\ <<a, from, state>> \in {<<"task", "mark", "running">>,
                                   <<"task", "answered", "completed">>,
                                   <<"canceller", "update", "canceled">>}
  <2>1. CASE MarkRunning(l)
    <3>1. Updates("task", l, "mark", "running") /\ "running" \in State
      BY <2>1 DEF MarkRunning, Updates, State
    <3>. QED BY <3>1, ActorNames
  <2>2. CASE Finish(l)
    <3>1. Updates("task", l, "answered", "completed") /\ "completed" \in State
      BY <2>2 DEF Finish, Updates, State, Ended
    <3>. QED BY <3>1, ActorNames
  <2>3. CASE MarkCanceled(l)
    <3>1. Updates("canceller", l, "update", "canceled") /\ "canceled" \in State
      BY <2>3 DEF MarkCanceled, Updates, State, Ended
    <3>. QED BY <3>1, ActorNames
  <2>. QED BY <2>1, <2>2, <2>3
<1>2. /\ pc[a][l] = from
      /\ \A b \in Actor, k \in Life :
           pc'[b][k] = IF b = a /\ k = l THEN "copy" ELSE pc[b][k]
      /\ UNCHANGED <<opOf, copy, ran, aborted, told>>
  BY <1>1, Moved DEF Updates
<1>3. PICK o \in Op : o = opOf[l] /\ l \in Admitted
  BY <1>0, <1>1, <1>2, Begun
<1>4. /\ \A q \in Op \ {o} : jobs'[q] = jobs[q]
      /\ Kept' = Kept
      /\ o \in Kept => /\ jobs[o] \in Record
                       /\ jobs'[o] = Changed(jobs[o], state)
  BY <1>1, <1>3, UpdateTable DEF Updates
<1>5. o \in Kept => /\ jobs'[o].life = jobs[o].life
                    /\ jobs'[o].state = state
                    /\ jobs'[o].abort = IF state \in Ended THEN 0 ELSE jobs[o].abort
  BY <1>4, ChangedType
<1>6. AdmissionOK' /\ ThreadsOK'
  BY <1>0, <1>1, <1>2, ActorNames DEF AdmissionOK, ThreadsOK
<1>7. \A k \in Life : k # l => (Unfinished(k)' <=> Unfinished(k))
  BY <1>2, ActorNames DEF Unfinished
<1>8. o \in Kept => (Active(o)' <=> state \notin Ended)
  BY <1>4, <1>5 DEF Active, IsTerminal
<1>9. o \in Kept => /\ jobs'[o].life = jobs[o].life
                    /\ jobs'[o].abort # 0 => opOf[jobs'[o].abort] = o /\ Active(o)'
  BY <1>5, <1>8 DEF TasksOK, RecordsOK
<1>10. ASSUME Untouched(o), NEW k \in Admitted, opOf[k] = o
       PROVE  Unfinished(k)' <=> Active(o)' /\ jobs'[o].life = k
  <2>1. a = "task" /\ <<from, state>> \in {<<"mark", "running">>, <<"answered", "completed">>}
    <3>1. from # "update"
      BY <1>0, <1>1, <1>2, <1>3, <1>10 DEF ThreadsOK, Untouched
    <3>. QED BY <1>1, <3>1
  <2>2. Unfinished(l)
    BY <1>2, <2>1 DEF Unfinished
  <2>3. o \in Kept /\ Active(o) /\ jobs[o].life = l
    BY <1>3, <1>10, <2>2 DEF TasksOK, RecordIsItsTask, Active
  <2>4. Unfinished(l)' <=> state = "running"
    <3>1. pc'["task"][l] = "copy" /\ pc'["starter"][l] = pc["starter"][l] /\ ran'[l] = ran[l]
      BY <1>2, <2>1, ActorNames
    <3>2. pc["starter"][l] \notin {"copy", "send", "spawn"}
      BY <1>0, <1>2, <2>1 DEF ThreadsOK
    <3>3. from = "mark" => ran[l] = "no"
      BY <1>0, <1>2, <2>1 DEF ThreadsOK
    <3>4. from = "answered" => ran[l] = "called"
      BY <1>0, <1>2, <2>1 DEF ThreadsOK
    <3>. QED BY <2>1, <3>1, <3>2, <3>3, <3>4 DEF Unfinished
  <2>5. Active(o)' <=> state = "running"
    BY <1>8, <2>1, <2>3 DEF Ended
  <2>6. k # l => ~Unfinished(k)
    BY <1>10, <2>3 DEF TasksOK, RecordIsItsTask
  <2>. QED BY <1>5, <1>7, <2>3, <2>4, <2>5, <2>6 DEF Admitted
<1>11. \A k \in Life : opOf[k] # o => (Unfinished(k)' <=> Unfinished(k))
  BY <1>3, <1>7
<1>. QED BY <1>2, <1>4, <1>6, <1>9, <1>10, <1>11, OtherTasks

\* Storing the handle, or taking it, changes nothing else of a record.
LEMMA StoreTable ==
    ASSUME Types, AdmissionOK, NEW l \in Life, StoreHandle(l)
    PROVE  /\ opOf[l] \in Op
           /\ \A q \in Op \ {opOf[l]} : jobs'[q] = jobs[q]
           /\ opOf[l] \notin Kept => jobs' = jobs
           /\ opOf[l] \in Kept =>
                /\ jobs[opOf[l]] \in Record
                /\ View(jobs'[opOf[l]]) = View(jobs[opOf[l]])
                /\ jobs'[opOf[l]].life = jobs[opOf[l]].life
                /\ jobs'[opOf[l]].state = jobs[opOf[l]].state
                /\ jobs'[opOf[l]].revision = jobs[opOf[l]].revision
                /\ jobs'[opOf[l]].abort = IF IsTerminal(jobs[opOf[l]])
                                          THEN jobs[opOf[l]].abort ELSE l
<1>1. opOf[l] \in Op
  BY Begun, ActorNames DEF StoreHandle, Goes
<1>2. CASE jobs[opOf[l]] = Absent
  BY <1>1, <1>2 DEF StoreHandle, Kept
<1>3. CASE jobs[opOf[l]] # Absent
  <2>1. jobs[opOf[l]] \in Record
    BY <1>1, <1>3 DEF Types
  <2>2. jobs' = [jobs EXCEPT ![opOf[l]] = WithHandle(jobs[opOf[l]], l)]
    BY <1>3 DEF StoreHandle
  <2>3. /\ jobs'[opOf[l]] = WithHandle(jobs[opOf[l]], l)
        /\ \A q \in Op \ {opOf[l]} : jobs'[q] = jobs[q]
    BY <1>1, <2>2 DEF Types
  <2>4. /\ WithHandle(jobs[opOf[l]], l).life = jobs[opOf[l]].life
        /\ WithHandle(jobs[opOf[l]], l).state = jobs[opOf[l]].state
        /\ WithHandle(jobs[opOf[l]], l).revision = jobs[opOf[l]].revision
        /\ WithHandle(jobs[opOf[l]], l).abort = IF IsTerminal(jobs[opOf[l]])
                                                THEN jobs[opOf[l]].abort ELSE l
    BY <2>1 DEF WithHandle, Record
  <2>5. View(jobs'[opOf[l]]) = View(jobs[opOf[l]])
    BY <2>3, <2>4 DEF View
  <2>. QED BY <1>1, <1>3, <2>1, <2>3, <2>4, <2>5 DEF Kept
<1>. QED BY <1>2, <1>3

LEMMA CancelTable ==
    ASSUME Types, NEW o \in Op, Cancel(o)
    PROVE  \E l \in Life :
             /\ o \in Kept /\ jobs[o] \in Record /\ jobs[o].abort = l
             /\ Goes("canceller", l, "none", "abort")
             /\ UNCHANGED <<opOf, copy, ran, aborted, told>>
             /\ \A q \in Op \ {o} : jobs'[q] = jobs[q]
             /\ View(jobs'[o]) = View(jobs[o])
             /\ jobs'[o].life = jobs[o].life
             /\ jobs'[o].state = jobs[o].state
             /\ jobs'[o].revision = jobs[o].revision
             /\ jobs'[o].abort = 0
             /\ Kept' = Kept
<1>1. PICK l \in Life :
        /\ o \in Kept /\ jobs[o].abort = l
        /\ jobs' = [jobs EXCEPT ![o].abort = 0]
        /\ Goes("canceller", l, "none", "abort")
        /\ UNCHANGED <<opOf, copy, ran, aborted, told>>
  BY DEF Cancel
<1>2. jobs[o] \in Record
  BY <1>1 DEF Kept, Types
<1>3. jobs'[o] = [jobs[o] EXCEPT !.abort = 0] /\ \A q \in Op \ {o} : jobs'[q] = jobs[q]
  BY <1>1 DEF Types
<1>4. /\ jobs'[o].life = jobs[o].life /\ jobs'[o].state = jobs[o].state
      /\ jobs'[o].revision = jobs[o].revision /\ jobs'[o].abort = 0
      /\ jobs'[o] \in Record
  BY <1>2, <1>3 DEF Record
<1>5. View(jobs'[o]) = View(jobs[o]) /\ Kept' = Kept
  BY <1>1, <1>3, <1>4, Kinds DEF View, Kept
<1>. QED BY <1>1, <1>2, <1>3, <1>4, <1>5

LEMMA StoreTasks ==
    ASSUME Types, Fits, TasksOK, NEW l \in Life, StoreHandle(l)
    PROVE  TasksOK'
<1>0. AdmissionOK /\ ThreadsOK
  BY DEF TasksOK
<1>1. /\ pc["starter"][l] = "store"
      /\ \A b \in Actor, k \in Life :
           pc'[b][k] = IF b = "starter" /\ k = l THEN "done" ELSE pc[b][k]
      /\ UNCHANGED <<opOf, copy, ran, aborted, told>>
  BY Moved, ActorNames DEF StoreHandle
<1>2. PICK o \in Op :
      /\ o = opOf[l] /\ Kept' = Kept
      /\ \A q \in Op \ {o} : jobs'[q] = jobs[q]
      /\ o \in Kept => /\ jobs'[o].life = jobs[o].life
                       /\ jobs'[o].state = jobs[o].state
                       /\ jobs'[o].abort = IF IsTerminal(jobs[o]) THEN jobs[o].abort ELSE l
  BY <1>0, StoreTable, StoreTypes
<1>3. AdmissionOK' /\ ThreadsOK'
  BY <1>0, <1>1, ActorNames DEF AdmissionOK, ThreadsOK
<1>4. \A k \in Life : Unfinished(k)' <=> Unfinished(k)
  BY <1>1, ActorNames DEF Unfinished
<1>5. Active(o)' <=> Active(o)
  BY <1>2 DEF Active, IsTerminal
<1>6. o \in Kept => /\ jobs'[o].life = jobs[o].life
                    /\ jobs'[o].abort # 0 => opOf[jobs'[o].abort] = o /\ Active(o)'
  <2>1. ASSUME o \in Kept, jobs'[o].abort # 0
        PROVE  opOf[jobs'[o].abort] = o /\ Active(o)'
    <3>1. CASE IsTerminal(jobs[o])
      BY <1>2, <1>5, <2>1, <3>1 DEF TasksOK, RecordsOK
    <3>2. CASE ~IsTerminal(jobs[o])
      BY <1>2, <1>5, <2>1, <3>2 DEF Active
    <3>. QED BY <3>1, <3>2
  <2>. QED BY <1>2, <2>1
<1>7. Untouched(o) => \A k \in Admitted : opOf[k] = o =>
                         (Unfinished(k)' <=> Active(o)' /\ jobs'[o].life = k)
  BY <1>2, <1>4, <1>5 DEF TasksOK, RecordIsItsTask, Admitted, Active
<1>. QED BY <1>1, <1>2, <1>3, <1>4, <1>6, <1>7, OtherTasks

LEMMA CancelTasks ==
    ASSUME Types, Fits, TasksOK, NEW o \in Op, Cancel(o)
    PROVE  TasksOK'
<1>0. AdmissionOK /\ ThreadsOK
  BY DEF TasksOK
<1>1. PICK l \in Life :
        /\ o \in Kept /\ jobs[o].abort = l
        /\ Goes("canceller", l, "none", "abort")
        /\ UNCHANGED <<opOf, copy, ran, aborted, told>>
        /\ \A q \in Op \ {o} : jobs'[q] = jobs[q]
        /\ jobs'[o].life = jobs[o].life
        /\ jobs'[o].state = jobs[o].state
        /\ jobs'[o].abort = 0
        /\ Kept' = Kept
  BY CancelTable
<1>2. \A b \in Actor, k \in Life :
        pc'[b][k] = IF b = "canceller" /\ k = l THEN "abort" ELSE pc[b][k]
  BY <1>1, Moved, ActorNames
<1>3. opOf[l] = o
  BY <1>1, JobsAssumption DEF TasksOK, RecordsOK, Life
<1>4. AdmissionOK' /\ ThreadsOK'
  <2>1. opOf[l] # Absent
    BY <1>3, Kinds
  <2>. QED BY <1>0, <1>1, <1>2, <2>1, ActorNames DEF AdmissionOK, ThreadsOK
<1>5. \A k \in Life : Unfinished(k)' <=> Unfinished(k)
  BY <1>1, <1>2, ActorNames DEF Unfinished
<1>6. Active(o)' <=> Active(o)
  BY <1>1 DEF Active, IsTerminal
<1>7. Untouched(o) => \A k \in Admitted : opOf[k] = o =>
                         (Unfinished(k)' <=> Active(o)' /\ jobs'[o].life = k)
  BY <1>1, <1>5, <1>6 DEF TasksOK, RecordIsItsTask, Admitted, Active
<1>. QED BY <1>1, <1>4, <1>5, <1>7, OtherTasks

-----------------------------------------------------------------------------
(* The last change is announced.                                           *)

\* No announcement is ahead of the table.
PastOK ==
    /\ \A l \in Life : Latest(told[l]) /\ (told[l] # Absent => told[l].life = l)
    /\ \A a \in Actor, l \in Life : Latest(copy[a][l])

Announced(o) == told[jobs[o].life] = View(jobs[o]) \/ Owed(o)

LEMMA UnfoldNews == NewsOK <=> PastOK /\ \A o \in Kept : Announced(o)
  BY DEF NewsOK, PastOK, Announced

LEMMA InitNews == Init => NewsOK
<1>. SUFFICES ASSUME Init PROVE NewsOK
  OBVIOUS
<1>1. Kept = {}
  BY DEF Init, Kept
<1>. QED BY <1>1 DEF Init, NewsOK, Latest

LEMMA SnapshotShape ==
    ASSUME Types
    PROVE  /\ \A l \in Life : told[l] # Absent =>
                told[l] \in Snapshot /\ told[l].life \in Life /\ told[l].revision \in Nat
           /\ \A a \in Actor, l \in Life : copy[a][l] # Absent =>
                copy[a][l] \in Snapshot /\ copy[a][l].life \in Life /\ copy[a][l].revision \in Nat
           /\ \A o \in Kept :
                /\ jobs[o] \in Record /\ jobs[o].life \in Life /\ jobs[o].revision \in Nat
                /\ View(jobs[o]) \in Snapshot
                /\ View(jobs[o]).life = jobs[o].life
                /\ View(jobs[o]).revision = jobs[o].revision
<1>1. \A x \in Snapshot : x.life \in Life /\ x.revision \in Nat
  BY DEF Snapshot
<1>2. \A o \in Kept : jobs[o] \in Record
  BY DEF Types, Kept
<1>3. \A job \in Record : job.life \in Life /\ job.revision \in Nat
  BY DEF Record
<1>4. /\ \A l \in Life : told[l] \in Snapshot \cup {Absent}
      /\ \A a \in Actor, l \in Life : copy[a][l] \in Snapshot \cup {Absent}
  BY DEF Types
<1>. QED BY <1>1, <1>2, <1>3, <1>4, ViewType

\* A step that changes no record as phones see it, and moves no actor that has
\* a record to announce.
LEMMA SameNews ==
    ASSUME Types, NewsOK, UNCHANGED <<opOf, copy, told>>, Kept' = Kept,
           \A q \in Kept : /\ View(jobs'[q]) = View(jobs[q])
                           /\ jobs'[q].life = jobs[q].life
                           /\ jobs'[q].revision = jobs[q].revision,
           \A a \in Actor, l \in Life : pc[a][l] \in {"copy", "send"} => pc'[a][l] = pc[a][l]
    PROVE  NewsOK'
<1>1. \A x : Latest(x) => Latest(x)'
  BY DEF Latest, Admitted
<1>2. PastOK'
  BY <1>1, UnfoldNews DEF PastOK, Latest, Admitted
<1>3. ASSUME NEW q \in Kept PROVE Announced(q)'
  <2>1. Announced(q)
    BY <1>3, UnfoldNews
  <2>. QED BY <1>3, <2>1 DEF Announced, Owed
<1>. QED BY <1>2, <1>3, UnfoldNews DEF NewsOK, PastOK, Announced

LEMMA QuietNews ==
    ASSUME Types, ThreadsOK, NewsOK, NEW l \in Life, Quietly(l)
    PROVE  NewsOK'
<1>1. UNCHANGED <<jobs, opOf, copy, told>> /\ Kept' = Kept
  BY DEF Quietly, Spawn, FirstPoll, Call, Answer, DropTask, AbortTask, Kept
<1>2. \A a \in Actor, k \in Life : pc[a][k] \in {"copy", "send"} => pc'[a][k] = pc[a][k]
  <2>1. CASE Spawn(l)
    <3>1. /\ pc["starter"][l] = "spawn"
          /\ \A b \in Actor, k \in Life :
               pc'[b][k] = IF b = "starter" /\ k = l THEN "store"
                           ELSE IF b = "task" /\ k = l THEN "spawned" ELSE pc[b][k]
      BY <2>1, ActorNames DEF Types, Spawn
    <3>2. pc["task"][l] = "none"
      BY <3>1 DEF ThreadsOK
    <3>. QED BY <3>1, <3>2
  <2>2. CASE FirstPoll(l) \/ Call(l) \/ Answer(l) \/ DropTask(l) \/ AbortTask(l)
    <3>1. PICK a \in Actor : \E from : \E to :
             Goes(a, l, from, to) /\ from \notin {"copy", "send"}
      BY <2>2, ActorNames DEF FirstPoll, Call, Answer, DropTask, AbortTask
    <3>. QED BY <3>1, Moved
  <2>. QED BY <2>1, <2>2 DEF Quietly
<1>. QED BY <1>1, <1>2, SameNews DEF Kept

LEMMA StoreNews ==
    ASSUME Types, Fits, AdmissionOK, NewsOK, NEW l \in Life, StoreHandle(l)
    PROVE  NewsOK'
<1>1. /\ pc["starter"][l] = "store"
      /\ \A b \in Actor, k \in Life :
           pc'[b][k] = IF b = "starter" /\ k = l THEN "done" ELSE pc[b][k]
  BY Moved, ActorNames DEF StoreHandle
<1>2. UNCHANGED <<opOf, copy, told>> /\ Kept' = Kept
  BY StoreTypes DEF StoreHandle
<1>3. \A q \in Kept : /\ View(jobs'[q]) = View(jobs[q])
                      /\ jobs'[q].life = jobs[q].life
                      /\ jobs'[q].revision = jobs[q].revision
  BY StoreTable DEF Kept
<1>. QED BY <1>1, <1>2, <1>3, SameNews

LEMMA CancelNews ==
    ASSUME Types, NewsOK, NEW o \in Op, Cancel(o)
    PROVE  NewsOK'
<1>1. PICK l \in Life :
        /\ Goes("canceller", l, "none", "abort")
        /\ UNCHANGED <<opOf, copy, told>>
        /\ \A q \in Op \ {o} : jobs'[q] = jobs[q]
        /\ View(jobs'[o]) = View(jobs[o])
        /\ jobs'[o].life = jobs[o].life
        /\ jobs'[o].revision = jobs[o].revision
        /\ Kept' = Kept
  BY CancelTable
<1>2. \A a \in Actor, k \in Life : pc[a][k] \in {"copy", "send"} => pc'[a][k] = pc[a][k]
  BY <1>1, Moved, ActorNames
<1>3. \A q \in Kept : /\ View(jobs'[q]) = View(jobs[q])
                      /\ jobs'[q].life = jobs[q].life
                      /\ jobs'[q].revision = jobs[q].revision
  BY <1>1 DEF Kept
<1>. QED BY <1>1, <1>2, <1>3, SameNews

\* A new record has a new life: nothing was ever said of it, and its starter
\* is about to announce it.
LEMMA StartNews ==
    ASSUME Types, NewsOK, NEW o \in Op, Start(o)
    PROVE  NewsOK'
<1>1. PICK l \in Life :
        /\ jobs[o] = Absent /\ opOf[l] = Absent
        /\ opOf' = [opOf EXCEPT ![l] = o]
        /\ Goes("starter", l, "none", "copy")
        /\ UNCHANGED <<copy, ran, aborted, told>>
        /\ jobs'[o].life = l
        /\ \A q \in Op \ {o} : jobs'[q] = jobs[q] \/ jobs'[q] = Absent
  BY StartTable
<1>2. \A b \in Actor, k \in Life :
        pc'[b][k] = IF b = "starter" /\ k = l THEN "copy" ELSE pc[b][k]
  BY <1>1, Moved, ActorNames
<1>3. \A k \in Life : opOf'[k] = IF k = l THEN o ELSE opOf[k]
  BY <1>1 DEF Types
<1>4. Admitted' = Admitted \cup {l} /\ l \notin Admitted
  BY <1>1, <1>3, Kinds DEF Admitted
<1>5. \A q \in Kept' : q = o \/ (q \in Kept /\ q \in Op \ {o} /\ jobs'[q] = jobs[q])
  BY <1>1 DEF Kept
<1>6. ASSUME NEW x, Latest(x) PROVE Latest(x)'
  BY <1>1, <1>4, <1>5, <1>6 DEF Latest
<1>7. PastOK'
  BY <1>1, <1>6, UnfoldNews DEF PastOK, Latest, Admitted
<1>8. ASSUME NEW q \in Kept' PROVE Announced(q)'
  <2>1. CASE q = o
    BY <1>1, <1>2, <1>3, <2>1, ActorNames DEF Announced, Owed
  <2>2. CASE q # o
    <3>1. q \in Kept /\ q \in Op /\ jobs'[q] = jobs[q] /\ Announced(q)
      BY <1>5, <1>8, <2>2, UnfoldNews
    <3>2. ASSUME NEW a \in Actor, NEW k \in Life, opOf[k] = q
          PROVE  opOf'[k] = q /\ pc'[a][k] = pc[a][k]
      BY <1>1, <1>2, <1>3, <3>1, <3>2, Kinds
    <3>3. Owed(q) => Owed(q)'
      BY <1>1, <3>1, <3>2 DEF Owed
    <3>. QED BY <1>1, <3>1, <3>3 DEF Announced
  <2>. QED BY <2>1, <2>2
<1>. QED BY <1>7, <1>8, UnfoldNews DEF NewsOK, PastOK, Announced

\* An update makes every announcement of its record an old one, and its actor
\* is about to announce the new one.
LEMMA UpdatingNews ==
    ASSUME Types, AdmissionOK, NewsOK, NEW a \in Actor, NEW l \in Life,
           NEW from \in {"mark", "answered", "update"}, NEW state \in State,
           Updates(a, l, from, state)
    PROVE  NewsOK'
<1>1. /\ pc[a][l] = from
      /\ \A b \in Actor, k \in Life :
           pc'[b][k] = IF b = a /\ k = l THEN "copy" ELSE pc[b][k]
      /\ UNCHANGED <<opOf, copy, ran, aborted, told>>
  BY Moved DEF Updates
<1>2. PICK o \in Op : o = opOf[l]
  BY <1>1, Begun
<1>3. /\ \A q \in Op \ {o} : jobs'[q] = jobs[q]
      /\ Kept' = Kept /\ Admitted' = Admitted
      /\ o \in Kept => jobs[o] \in Record /\ jobs'[o] = Changed(jobs[o], state)
  BY <1>1, <1>2, UpdateTable DEF Updates, Admitted
<1>4. o \in Kept => /\ jobs'[o].life = jobs[o].life
                    /\ jobs'[o].revision = jobs[o].revision + 1
                    /\ jobs[o].revision \in Nat
  BY <1>3, ChangedType, SnapshotShape
<1>5. ASSUME NEW x, Latest(x), x # Absent => x \in Snapshot PROVE Latest(x)'
  <2>1. SUFFICES ASSUME x # Absent, NEW q \in Kept, jobs'[q].life = x.life
                 PROVE  x.revision < jobs'[q].revision \/ x = View(jobs'[q])
    BY <1>3, <1>5 DEF Latest
  <2>2. CASE q = o
    <3>1. x.revision < jobs[o].revision \/ x = View(jobs[o])
      BY <1>4, <1>5, <2>1, <2>2 DEF Latest
    <3>2. x.revision \in Nat
      BY <1>5, <2>1 DEF Snapshot
    <3>3. x.revision <= jobs[o].revision
      BY <1>4, <2>1, <2>2, <3>1, <3>2, SnapshotShape
    <3>. QED BY <1>4, <2>1, <2>2, <3>2, <3>3
  <2>3. CASE q # o
    BY <1>3, <1>5, <2>1, <2>3 DEF Latest, Kept
  <2>. QED BY <2>2, <2>3
<1>6. PastOK'
  <2>1. \A k \in Life : Latest(told[k])' /\ (told[k] # Absent => told[k].life = k)
    BY <1>1, <1>5, UnfoldNews, SnapshotShape DEF PastOK
  <2>2. \A b \in Actor, k \in Life : Latest(copy[b][k])'
    BY <1>1, <1>5, UnfoldNews, SnapshotShape DEF PastOK
  <2>. QED BY <1>1, <2>1, <2>2 DEF PastOK
<1>7. ASSUME NEW q \in Kept PROVE Announced(q)'
  <2>1. CASE q = o
    BY <1>1, <1>2, <2>1 DEF Announced, Owed
  <2>2. CASE q # o
    <3>1. jobs'[q] = jobs[q] /\ Announced(q)
      BY <1>3, <1>7, <2>2, UnfoldNews DEF Kept
    <3>2. Owed(q) => Owed(q)'
      BY <1>1, <1>2, <2>2, <3>1 DEF Owed
    <3>. QED BY <1>1, <3>1, <3>2 DEF Announced
  <2>. QED BY <2>1, <2>2
<1>. QED BY <1>3, <1>6, <1>7, UnfoldNews DEF NewsOK, PastOK, Announced

\* Copying under the lock takes the record as it is.
LEMMA CopyNews ==
    ASSUME Types, TasksOK, NewsOK, NEW a \in Actor, NEW l \in Life, Copy(a, l)
    PROVE  NewsOK'
<1>1. /\ pc[a][l] = "copy"
      /\ \A b \in Actor, k \in Life :
           pc'[b][k] = IF b = a /\ k = l THEN "send" ELSE pc[b][k]
      /\ UNCHANGED <<jobs, opOf, told>> /\ Kept' = Kept /\ Admitted' = Admitted
  BY Moved DEF Copy, Kept, Admitted
<1>2. PICK o \in Op : o = opOf[l]
  BY <1>1, Begun DEF TasksOK
<1>3. \A b \in Actor, k \in Life :
        copy'[b][k] = IF b = a /\ k = l
                      THEN IF o \in Kept THEN View(jobs[o]) ELSE Absent
                      ELSE copy[b][k]
  BY <1>2 DEF Copy, Types, Kept
<1>4. o \in Kept => Latest(View(jobs[o]))
  <2>1. SUFFICES ASSUME o \in Kept PROVE Latest(View(jobs[o]))
    OBVIOUS
  <2>2. View(jobs[o]).life = jobs[o].life /\ jobs[o].life \in Admitted
    BY <2>1, SnapshotShape, Kinds DEF TasksOK, RecordsOK, Admitted
  <2>3. \A q \in Kept : jobs[q].life = jobs[o].life => q = o
    BY <2>1 DEF TasksOK, RecordsOK
  <2>. QED BY <2>2, <2>3 DEF Latest
<1>5. ASSUME NEW x, Latest(x) PROVE Latest(x)'
  BY <1>1, <1>5 DEF Latest
<1>6. PastOK'
  <2>1. \A k \in Life : Latest(told[k])' /\ (told[k] # Absent => told[k].life = k)
    BY <1>1, <1>5, UnfoldNews DEF PastOK
  <2>2. ASSUME NEW b \in Actor, NEW k \in Life PROVE Latest(copy'[b][k])
    <3>1. Latest(Absent) /\ Latest(copy[b][k])
      BY UnfoldNews DEF PastOK, Latest
    <3>. QED BY <1>3, <1>4, <3>1
  <2>3. \A b \in Actor, k \in Life : Latest(copy[b][k])'
    BY <1>1, <2>2 DEF Latest
  <2>. QED BY <1>1, <2>1, <2>3 DEF PastOK
<1>7. ASSUME NEW q \in Kept PROVE Announced(q)'
  <2>1. Announced(q)
    BY <1>7, UnfoldNews
  <2>2. Owed(q) => Owed(q)'
    <3>1. ASSUME NEW b \in Actor, NEW k \in Life, opOf[k] = q,
                 pc[b][k] = "copy" \/ (pc[b][k] = "send" /\ copy[b][k] = View(jobs[q]))
          PROVE  \/ pc'[b][k] = "copy"
                 \/ pc'[b][k] = "send" /\ copy'[b][k] = View(jobs'[q])
      BY <1>1, <1>2, <1>3, <1>7, <3>1
    <3>. QED BY <1>1, <3>1 DEF Owed
  <2>. QED BY <1>1, <2>1, <2>2 DEF Announced
<1>. QED BY <1>1, <1>6, <1>7, UnfoldNews DEF NewsOK, PastOK, Announced

\* Sending an older copy changes nothing; the others say what the record says.
LEMMA SendNews ==
    ASSUME Types, NewsOK, NEW a \in Actor, NEW l \in Life, Send(a, l)
    PROVE  NewsOK'
<1>1. /\ pc[a][l] = "send"
      /\ \A b \in Actor, k \in Life :
           pc'[b][k] = IF b = a /\ k = l THEN AfterSend(a, l) ELSE pc[b][k]
      /\ UNCHANGED <<jobs, opOf>> /\ Kept' = Kept /\ Admitted' = Admitted
  BY Moved DEF Send, Kept, Admitted
<1>2. \A b \in Actor, k \in Life :
        copy'[b][k] = IF b = a /\ k = l THEN Absent ELSE copy[b][k]
  BY DEF Send, Types
<1>3. \A k \in Life :
        told'[k] = IF copy[a][l] # Absent /\ copy[a][l].life = k
                   THEN Newer(told[k], copy[a][l]) ELSE told[k]
  BY DEF Send, Types
<1>4. PastOK
  BY UnfoldNews
<1>5. ASSUME NEW x, Latest(x) PROVE Latest(x)'
  BY <1>1, <1>5 DEF Latest
<1>6. PastOK'
  <2>1. ASSUME NEW k \in Life
        PROVE  Latest(told'[k]) /\ (told'[k] # Absent => told'[k].life = k)
    BY <1>3, <1>4 DEF PastOK, Newer
  <2>2. ASSUME NEW b \in Actor, NEW k \in Life PROVE Latest(copy'[b][k])
    BY <1>2, <1>4 DEF PastOK, Latest
  <2>. QED BY <1>1, <2>1, <2>2 DEF PastOK, Latest
<1>7. ASSUME NEW q \in Kept PROVE Announced(q)'
  <2>1. Announced(q) /\ jobs[q].life \in Life
    BY <1>7, UnfoldNews, SnapshotShape
  <2>2. CASE told[jobs[q].life] = View(jobs[q])
    <3>1. CASE copy[a][l] # Absent /\ copy[a][l].life = jobs[q].life
      <4>1. copy[a][l].revision < jobs[q].revision \/ copy[a][l] = View(jobs[q])
        BY <1>4, <1>7, <3>1 DEF PastOK, Latest
      <4>2. told[jobs[q].life].revision = jobs[q].revision /\ told[jobs[q].life] # Absent
        BY <1>7, <2>2, SnapshotShape, Kinds
      <4>3. Newer(told[jobs[q].life], copy[a][l]) = View(jobs[q])
        BY <1>7, <2>2, <3>1, <4>1, <4>2, SnapshotShape DEF Newer
      <4>. QED BY <1>1, <1>3, <2>1, <3>1, <4>3 DEF Announced
    <3>2. CASE ~(copy[a][l] # Absent /\ copy[a][l].life = jobs[q].life)
      BY <1>1, <1>3, <2>1, <2>2, <3>2 DEF Announced
    <3>. QED BY <3>1, <3>2
  <2>3. CASE copy[a][l] = View(jobs[q])
    <3>1. copy[a][l] # Absent /\ copy[a][l].life = jobs[q].life
          /\ copy[a][l].revision = jobs[q].revision
      BY <1>7, <2>3, SnapshotShape, Kinds
    <3>2. told[jobs[q].life] # Absent =>
            /\ told[jobs[q].life].revision \in Nat
            /\ \/ told[jobs[q].life].revision < jobs[q].revision
               \/ told[jobs[q].life] = View(jobs[q])
      BY <1>4, <1>7, <2>1, SnapshotShape DEF PastOK, Latest
    <3>3. Newer(told[jobs[q].life], copy[a][l]) = View(jobs[q])
      BY <1>7, <2>3, <3>1, <3>2, SnapshotShape DEF Newer
    <3>. QED BY <1>1, <1>3, <2>1, <3>1, <3>3 DEF Announced
  <2>4. CASE copy[a][l] # View(jobs[q]) /\ Owed(q)
    <3>1. PICK b \in Actor, k \in Life :
            /\ opOf[k] = q
            /\ pc[b][k] = "copy" \/ (pc[b][k] = "send" /\ copy[b][k] = View(jobs[q]))
      BY <2>4 DEF Owed
    <3>2. ~(b = a /\ k = l)
      BY <1>1, <2>4, <3>1
    <3>. QED BY <1>1, <1>2, <3>1, <3>2 DEF Announced, Owed
  <2>. QED BY <2>1, <2>2, <2>3, <2>4 DEF Announced
<1>. QED BY <1>1, <1>6, <1>7, UnfoldNews DEF NewsOK, PastOK, Announced

-----------------------------------------------------------------------------
(* The theorems.                                                           *)

LEMMA UpdateSteps ==
    ASSUME Types, Fits, TasksOK, NewsOK, NEW l \in Life,
           MarkRunning(l) \/ Finish(l) \/ MarkCanceled(l)
    PROVE  Types' /\ Fits' /\ NewsOK'
<1>0. AdmissionOK
  BY DEF TasksOK
<1>1. CASE MarkRunning(l)
  <2>1. Updates("task", l, "mark", "running") /\ "running" \in State
    BY <1>1 DEF MarkRunning, Updates, State
  <2>. QED BY <1>0, <2>1, ActorNames, UpdatingTypes, UpdatingNews
<1>2. CASE Finish(l)
  <2>1. Updates("task", l, "answered", "completed") /\ "completed" \in State
    BY <1>2 DEF Finish, Updates, State, Ended
  <2>. QED BY <1>0, <2>1, ActorNames, UpdatingTypes, UpdatingNews
<1>3. CASE MarkCanceled(l)
  <2>1. Updates("canceller", l, "update", "canceled") /\ "canceled" \in State
    BY <1>3 DEF MarkCanceled, Updates, State, Ended
  <2>. QED BY <1>0, <2>1, ActorNames, UpdatingTypes, UpdatingNews
<1>. QED BY <1>1, <1>2, <1>3

LEMMA Inductive == IInv /\ [Next]_vars => IInv'
<1>. SUFFICES ASSUME IInv, [Next]_vars PROVE IInv'
  OBVIOUS
<1>0. Types /\ Fits /\ TasksOK /\ NewsOK /\ AdmissionOK /\ ThreadsOK
  BY UnfoldIInv DEF TasksOK
<1>1. CASE \E o \in Op : Start(o)
  BY <1>0, <1>1, StartTypes, StartTasks, StartNews, UnfoldIInv
     DEF IInv, TypeOK, Types, Fits
<1>2. CASE \E o \in Op : Cancel(o)
  BY <1>0, <1>2, CancelTypes, CancelTasks, CancelNews, UnfoldIInv
     DEF IInv, TypeOK, Types, Fits
<1>3. CASE \E l \in Life, a \in Actor : Copy(a, l)
  BY <1>0, <1>3, CopyTypes, CopyTasks, CopyNews DEF IInv, TypeOK, Types, Fits
<1>4. CASE \E l \in Life, a \in Actor : Send(a, l)
  BY <1>0, <1>4, SendTypes, SendTasks, SendNews DEF IInv, TypeOK, Types, Fits
<1>5. CASE \E l \in Life : StoreHandle(l)
  BY <1>0, <1>5, StoreTypes, StoreTasks, StoreNews DEF IInv, TypeOK, Types, Fits
<1>6. CASE \E l \in Life : MarkRunning(l) \/ Finish(l) \/ MarkCanceled(l)
  BY <1>0, <1>6, UpdateSteps, UpdatingTasks DEF IInv, TypeOK, Types, Fits
<1>7. CASE \E l \in Life : Quietly(l)
  BY <1>0, <1>7, QuietTypes, QuietTasks, QuietNews DEF IInv, TypeOK, Types, Fits
<1>8. CASE UNCHANGED vars
  <2>1. /\ Types' /\ Fits' /\ AdmissionOK' /\ RecordsOK' /\ ThreadsOK'
    BY <1>0, <1>8 DEF vars, Types, Fits, TasksOK, Kept, AdmissionOK, RecordsOK, ThreadsOK,
                      Active, IsTerminal
  <2>2. TasksOK'
    BY <1>0, <1>8, <2>1, StillTasks DEF vars, Unfinished
  <2>3. NewsOK'
    BY <1>0, <1>8, SameNews DEF vars, Kept
  <2>. QED BY <2>1, <2>2, <2>3 DEF IInv, TypeOK, Types, Fits
<1>. QED BY <1>1, <1>2, <1>3, <1>4, <1>5, <1>6, <1>7, <1>8 DEF Next, Progress, Quietly

LEMMA Invariance == Spec => []IInv
<1>1. Init => IInv
  BY InitTypes, InitTasks, InitNews, UnfoldIInv
<1>. QED BY <1>1, Inductive, PTL DEF Spec

\* The table holds at most MAX_RETAINED_JOBS records, whatever the order of
\* admissions, ends and evictions (start_job in ws.rs), and every actor is at
\* a step of its own.
THEOREM TypeCorrect == Spec => []TypeOK
<1>1. IInv => TypeOK
  BY DEF IInv
<1>. QED BY <1>1, Invariance, PTL

\* The record of an id that nobody aborted is active exactly as long as its
\* task is unfinished (start_job, update_job, remux/jobs/cancel): no id has
\* two runs at a time and no active record is left without a task to end it.
THEOREM RecordsAreTasks == Spec => []RecordIsItsTask
<1>1. IInv => RecordIsItsTask
  BY DEF IInv, TasksOK
<1>. QED BY <1>1, Invariance, PTL

\* Although broadcast_job sends its copies outside of the lock and in any order,
\* the newest announcement of a job whose threads are through is its record.
THEOREM ChangesAreAnnounced == Spec => []LastChangeIsAnnounced
<1>1. IInv => LastChangeIsAnnounced
  <2>1. SUFFICES ASSUME IInv, NEW o \in Kept, Quiet(o)
                 PROVE  told[jobs[o].life] = View(jobs[o])
    BY DEF LastChangeIsAnnounced
  <2>2. Types /\ AdmissionOK /\ (told[jobs[o].life] = View(jobs[o]) \/ Owed(o))
    BY <2>1, UnfoldIInv DEF TasksOK, NewsOK
  <2>3. ASSUME NEW a \in Actor, NEW l \in Life, opOf[l] = o PROVE pc[a][l] \notin {"copy", "send"}
    <3>1. l \in Admitted
      BY <2>3, Kinds DEF Admitted, Kept
    <3>2. /\ pc["starter"][l] = "done" /\ pc["task"][l] = "gone"
          /\ pc["canceller"][l] \in {"none", "done"}
      BY <2>1, <2>3, <3>1 DEF Quiet
    <3>. QED BY <3>2 DEF Actor
  <2>. QED BY <2>2, <2>3 DEF Owed
<1>. QED BY <1>1, Invariance, PTL
=============================================================================
