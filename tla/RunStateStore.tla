--------------------------- MODULE RunStateStore ---------------------------
(***************************************************************************)
(* The record of live extension process groups,                            *)
(* crates/remux/src/extensions/runstate.rs: the in-memory entries, the     *)
(* file they are persisted to, the death of the worker that keeps them and *)
(* the sweep of the worker that comes after it.                            *)
(*                                                                         *)
(* A writer is a task that spawns groups and reaps them: an extension's    *)
(* actor, which fills the server, watch and build slots, or a detached     *)
(* build of its views, which fills the build slot too.  It does one thing  *)
(* at a time; the entries are changed under the lock, the file is written  *)
(* after it: open (which truncates), write, rename.  All writers share one *)
(* temporary name, and each of the three calls may fail.                   *)
(*                                                                         *)
(* A group stands for its leader's pid together with the start ticks of    *)
(* the leader, so a pid that is used again belongs to a "stranger".        *)
(*                                                                         *)
(* alone, overlapped, kept and owed are history: no step depends on them.  *)
(***************************************************************************)
EXTENDS Integers, FiniteSets

CONSTANTS
  Slots,        \* an extension's role: where a group is recorded
  Writers,
  Roles,        \* which writer fills which slot
  Shared,       \* slots with several groups at once: one for all watched views
  Groups,       \* the groups that may be spawned, each once
  DeathSignal,  \* no leader escapes PDEATHSIG when the worker dies
  Empty, Torn,  \* contents of a file that is no record
  NONE

ASSUME StoreAssumption ==
  /\ IsFiniteSet(Writers)
  /\ Roles \subseteq Writers \X Slots /\ Shared \subseteq Slots
  /\ DeathSignal \in BOOLEAN
  /\ NONE \notin Groups /\ NONE \notin Writers /\ NONE \notin Writers \X Slots /\ NONE \notin Int
  /\ {Empty, Torn} \cap [Slots -> Groups \cup {NONE}] = {}

VARIABLES
  worker,    \* "up", or "down" until the next boot
  members,   \* live members of a group: its leader, helpers it started
  used,      \* groups that have been spawned
  strangers, \* groups whose leader's pid now names an unrelated process
  child,     \* the role in which a group is supervised
  entries,   \* RunState.entries
  step,      \* where a writer is in a spawn or a persist
  new,       \* the group a writer has just spawned
  snap,      \* the snapshot it is persisting
  handle,    \* the inode it has open
  temp, file,\* the inodes named extensions.json.tmp and extensions.json
  content,   \* what an inode holds
  alone,     \* the writer whose persist no other has overlapped so far
  overlapped,\* two have overlapped since one last renamed the file alone
  kept,      \* slots that have not changed since then
  owed       \* groups a dead worker left with their entry in kept slots

procVars == <<worker, members, used, strangers>>
diskVars == <<temp, file, content>>
writerVars == <<step, new, snap, handle>>
history == <<alone, overlapped, kept, owed>>
vars == <<procVars, child, entries, writerVars, diskVars, history>>

Inodes == 0 .. Cardinality(Writers) + 1
Snapshot == [Slots -> Groups \cup {NONE}]
Blank == [s \in Slots |-> NONE]
Parsable(c) == c \in Snapshot
Persisting == {w \in Writers : step[w] \in {"open", "write", "rename"}}

TypeOK ==
  /\ worker \in {"up", "down"}
  /\ members \in [Groups -> SUBSET {"leader", "helper"}]
  /\ used \subseteq Groups /\ strangers \subseteq Groups
  /\ child \in [Groups -> Roles \cup {NONE}] /\ entries \in Snapshot
  /\ step \in [Writers -> {"idle", "spawned", "open", "write", "rename"}]
  /\ new \in [Writers -> Groups \cup {NONE}]
  /\ snap \in [Writers -> Snapshot]
  /\ handle \in [Writers -> Inodes \cup {NONE}]
  /\ temp \in Inodes \cup {NONE} /\ file \in Inodes \cup {NONE}
  /\ content \in [Inodes -> Snapshot \cup {Empty, Torn}]
  /\ alone \in Writers \cup {NONE} /\ overlapped \in BOOLEAN
  /\ kept \subseteq Slots /\ owed \subseteq Groups
  /\ \A w \in Writers :
       /\ step[w] = "spawned" <=> new[w] # NONE
       /\ step[w] = "write" <=> handle[w] # NONE

Init ==
  /\ worker = "up"
  /\ members = [g \in Groups |-> {}] /\ used = {} /\ strangers = {}
  /\ child = [g \in Groups |-> NONE] /\ entries = Blank
  /\ step = [w \in Writers |-> "idle"] /\ new = [w \in Writers |-> NONE]
  /\ snap = [w \in Writers |-> Blank] /\ handle = [w \in Writers |-> NONE]
  /\ temp = NONE /\ file = NONE
  /\ content = [i \in Inodes |-> Empty]
  /\ alone = NONE /\ overlapped = FALSE /\ kept = {} /\ owed = {}

-----------------------------------------------------------------------------
(* A writer at work.                                                       *)

\* A process is spawned; it is not recorded yet.  A writer has one server or
\* build at a time, and a watch group for each of several views.
Spawn(w, s, g) ==
  /\ worker = "up" /\ step[w] = "idle" /\ <<w, s>> \in Roles /\ g \notin used
  /\ s \in Shared \/ \A h \in Groups : child[h] # <<w, s>>
  /\ members' = [members EXCEPT ![g] = {"leader"}] /\ used' = used \cup {g}
  /\ child' = [child EXCEPT ![g] = <<w, s>>]
  /\ step' = [step EXCEPT ![w] = "spawned"] /\ new' = [new EXCEPT ![w] = g]
  /\ UNCHANGED <<worker, strangers, entries, snap, handle, diskVars, history>>

\* What the history keeps of a change of slot s by w.
Changed(w, s) ==
  /\ alone' = (IF Persisting = {} THEN w ELSE NONE)
  /\ overlapped' = (overlapped \/ Persisting # {})
  /\ kept' = kept \ {s}

\* Mutant: the clone is taken before the change.
PublishEarlier(w, s, g) ==
  /\ entries' = [entries EXCEPT ![s] = g]
  /\ snap' = [snap EXCEPT ![w] = entries]
  /\ step' = [step EXCEPT ![w] = "open"]
  /\ Changed(w, s)

\* The critical section of record and remove: entries changed and cloned.
Publish(w, s, g) ==
  /\ entries' = [entries EXCEPT ![s] = g]
  /\ snap' = [snap EXCEPT ![w] = entries']
  /\ step' = [step EXCEPT ![w] = "open"]
  /\ Changed(w, s)

\* An entry that is there, of another build or another view, is replaced.
Record(w) ==
  /\ step[w] = "spawned"
  /\ Publish(w, child[new[w]][2], new[w])
  /\ new' = [new EXCEPT ![w] = NONE]
  /\ UNCHANGED <<procVars, child, handle, diskVars, owed>>

\* The writer has reaped the leader, except of a watcher, and swept the group
\* or not; it has not waited for a group that lingers.  The entry goes, whoever
\* made it; that of the watched views with the last of them.
Remove(w, s, g) ==
  /\ worker = "up" /\ step[w] = "idle" /\ child[g] = <<w, s>>
  /\ \E left \in SUBSET (IF s \in Shared THEN members[g] ELSE members[g] \ {"leader"}) :
       members' = [members EXCEPT ![g] = left]
  /\ child' = [child EXCEPT ![g] = NONE]
  /\ IF s \in Shared /\ \E h \in Groups \ {g} : child[h] = <<w, s>>
     THEN UNCHANGED <<entries, snap, step, alone, overlapped, kept>>
     ELSE Publish(w, s, NONE)
  /\ UNCHANGED <<worker, used, strangers, new, handle, diskVars, owed>>

\* persist: fs::write of the temp file, then rename.
Unused == {i \in Inodes : i \notin {temp, file} /\ \A w \in Writers : handle[w] # i}

\* Mutant: the file itself is opened.
OpenInPlace(w) ==
  /\ step[w] = "open"
  /\ \/ file # NONE /\ temp' = file
     \/ file = NONE /\ temp' = CHOOSE i \in Unused : TRUE
  /\ content' = [content EXCEPT ![temp'] = Empty]
  /\ handle' = [handle EXCEPT ![w] = temp']
  /\ step' = [step EXCEPT ![w] = "write"]
  /\ UNCHANGED <<procVars, child, entries, new, snap, file, history>>

Open(w) ==
  /\ step[w] = "open"
  /\ \/ temp # NONE /\ temp' = temp
     \/ temp = NONE /\ temp' = CHOOSE i \in Unused : TRUE
  /\ content' = [content EXCEPT ![temp'] = Empty]
  /\ handle' = [handle EXCEPT ![w] = temp']
  /\ step' = [step EXCEPT ![w] = "write"]
  /\ UNCHANGED <<procVars, child, entries, new, snap, file, history>>

\* Mutant: the temp file is not closed before the rename.
WriteKeepsOpen(w) ==
  /\ step[w] = "write"
  /\ \E c \in {snap[w]} \cup (IF content[handle[w]] = Empty THEN {} ELSE {Torn}) :
       content' = [content EXCEPT ![handle[w]] = c]
  /\ step' = [step EXCEPT ![w] = "rename"]
  /\ UNCHANGED <<procVars, child, entries, new, snap, handle, temp, file, history>>

\* Over the bytes of another writer the result may be a mixture.
Write(w) ==
  /\ step[w] = "write"
  /\ \E c \in {snap[w]} \cup (IF content[handle[w]] = Empty THEN {} ELSE {Torn}) :
       content' = [content EXCEPT ![handle[w]] = c]
  /\ step' = [step EXCEPT ![w] = "rename"]
  /\ handle' = [handle EXCEPT ![w] = NONE]
  /\ UNCHANGED <<procVars, child, entries, new, snap, temp, file, history>>

\* A persist ends, whatever became of it: its result is dropped.
Return(w) ==
  /\ step' = [step EXCEPT ![w] = "idle"]
  /\ snap' = [snap EXCEPT ![w] = Blank]
  /\ alone' = (IF alone = w THEN NONE ELSE alone)
  /\ UNCHANGED <<procVars, child, entries, new, owed>>

\* It renames what the name denotes by now.
Rename(w) ==
  /\ step[w] = "rename" /\ temp # NONE
  /\ file' = temp /\ temp' = NONE
  /\ overlapped' = (overlapped /\ alone # w)
  /\ kept' = (IF alone = w THEN Slots ELSE kept)
  /\ Return(w)
  /\ UNCHANGED <<handle, content>>

\* The file cannot be opened (or its directory made), or not written, which
\* leaves what there was or a part of the new; or the rename fails, as it does
\* when another one took the file.
PersistFails(w) ==
  /\ \/ step[w] \in {"open", "rename"} /\ UNCHANGED <<handle, content>>
     \/ /\ step[w] = "write"
        /\ \E c \in {content[handle[w]], Torn} : content' = [content EXCEPT ![handle[w]] = c]
        /\ handle' = [handle EXCEPT ![w] = NONE]
  /\ Return(w)
  /\ UNCHANGED <<temp, file, overlapped, kept>>

-----------------------------------------------------------------------------
(* The processes, the worker's death and the next boot.                    *)

HelperStarts(g) ==
  /\ "leader" \in members[g] /\ "helper" \notin members[g]
  /\ members' = [members EXCEPT ![g] = @ \cup {"helper"}]
  /\ UNCHANGED <<worker, used, strangers, child, entries, writerVars, diskVars, history>>

MemberExits(g, m) ==
  /\ m \in members[g]
  /\ members' = [members EXCEPT ![g] = @ \ {m}]
  /\ UNCHANGED <<worker, used, strangers, child, entries, writerVars, diskVars, history>>

PidReused(g) ==
  /\ g \in used \ strangers /\ members[g] = {}
  /\ strangers' = strangers \cup {g}
  /\ UNCHANGED <<worker, members, used, child, entries, writerVars, diskVars, history>>

\* Slots that one writer fills, with one group at a time.
Sole == {s \in Slots : s \notin Shared /\ \A r, q \in Roles : r[2] = s /\ q[2] = s => r = q}

\* The supervised groups whose record is in the file for sure: the slot has not
\* changed since a persist that overlapped no other, and nobody else fills it,
\* or the group is the last that was recorded in it.
Registered ==
  {g \in Groups :
     /\ ~overlapped /\ child[g] # NONE /\ \A w \in Writers : new[w] # g
     /\ child[g][2] \in kept
     /\ child[g][2] \in Sole \/ entries[child[g][2]] = g}

\* kill -9 of the worker: memory is lost, the death signal takes the leaders
\* of harden_command, or those that did not clear it.
WorkerDies ==
  /\ worker = "up" /\ worker' = "down"
  /\ \E escaped \in SUBSET (IF DeathSignal THEN {} ELSE Groups) :
       members' = [g \in Groups |-> IF g \in escaped THEN members[g] ELSE members[g] \ {"leader"}]
  /\ child' = [g \in Groups |-> NONE] /\ entries' = Blank
  /\ step' = [w \in Writers |-> "idle"] /\ new' = [w \in Writers |-> NONE]
  /\ snap' = [w \in Writers |-> Blank] /\ handle' = [w \in Writers |-> NONE]
  /\ owed' = Registered /\ kept' = {} /\ alone' = NONE
  /\ UNCHANGED <<used, strangers, diskVars, overlapped>>

\* Mutant: any live process with the recorded pid will do.
PidIsAlive(g) == "leader" \in members[g] \/ g \in strangers

\* sweep_entry: the recorded pid is alive and has the recorded start ticks.
SameProcess(g) == "leader" \in members[g]

\* What the file on disk lists, if it parses.
Listed ==
  IF file # NONE /\ Parsable(content[file])
  THEN {content[file][s] : s \in Slots} \ {NONE} ELSE {}

\* sweep_orphans, before any extension spawns.  A file that does not parse
\* is removed; its groups are left alone.
Boot ==
  /\ worker = "down" /\ worker' = "up"
  /\ LET killed == {g \in Listed : SameProcess(g)}
     IN /\ members' = [g \in Groups |-> IF g \in killed THEN {} ELSE members[g]]
        /\ strangers' = strangers \ killed
  /\ file' = NONE
  /\ owed' = {} /\ overlapped' = FALSE
  /\ UNCHANGED <<used, child, entries, writerVars, temp, content, alone, kept>>

Next ==
  \/ \E w \in Writers, s \in Slots, g \in Groups : Spawn(w, s, g) \/ Remove(w, s, g)
  \/ \E w \in Writers : Record(w) \/ Open(w) \/ Write(w) \/ Rename(w) \/ PersistFails(w)
  \/ \E g \in Groups : HelperStarts(g) \/ PidReused(g)
  \/ \E g \in Groups, m \in {"leader", "helper"} : MemberExits(g, m)
  \/ WorkerDies
  \/ Boot

Spec == Init /\ [][Next]_vars

-----------------------------------------------------------------------------
(* Safety, with any number of writers.                                     *)

\* The next worker finds half a record only if two writers were at the shared
\* temporary file at once and none has replaced it on its own since: no death,
\* and no failure, of a single one leaves such a file ("All mutations rewrite
\* the whole file atomically", RunState).
TornByOverlapOnly == ~overlapped /\ file # NONE => Parsable(content[file])

\* A group whose entry reached the file, and whose slot no later record or
\* removal has touched, does not outlive the next boot, whatever the other slots
\* went through, whichever persists failed and whenever the worker died
\* (record, remove, persist, sweep_orphans).
OrphansAreSwept ==
  [][worker = "down" /\ worker' = "up" =>
       \A g \in owed : "leader" \in members[g] => members'[g] = {}]_vars

\* The sweep kills no process it did not record: a pid that was given to an
\* unrelated process since is spared by the start ticks (sweep_entry).
StrangersSpared == [][strangers \subseteq strangers']_vars
=============================================================================
