------------------------- MODULE RunStateStore_proofs -------------------------
(***************************************************************************)
(* Proofs about RunStateStore, for any number of writers at the one        *)
(* temporary file and any failures of their writes: type correctness, the  *)
(* sparing of strangers, what can tear the file, and what a boot sweeps.   *)
(***************************************************************************)
EXTENDS RunStateStore, FiniteSetTheorems, TLAPS

\* A pid is used again only after the group it was recorded for is gone.
StrangersOK ==
  /\ strangers \subseteq used
  /\ \A g \in strangers : members[g] = {}

\* A group that was just spawned is its writer's, and an entry of a slot that
\* only one writer fills follows the group it supervises there.
ChildrenOK ==
  /\ worker = "down" => \A w \in Writers : step[w] = "idle"
  /\ \A g \in Groups : child[g] # NONE => g \in used
  /\ \A w \in Writers : step[w] = "spawned" => child[new[w]] # NONE /\ child[new[w]][1] = w
  /\ \A g, h \in Groups :
       child[g] # NONE /\ child[g][2] \notin Shared /\ child[h] = child[g] => h = g
  /\ \A g \in Groups :
       child[g] # NONE /\ child[g][2] \in Sole => entries[child[g][2]] = g \/ new[child[g][1]] = g

\* Unless two have overlapped, the writer at work is alone; a writer that is
\* alone persists the entries as they are, into an inode nobody else has open.
AloneOK ==
  /\ ~overlapped => Persisting \subseteq {alone}
  /\ alone # NONE =>
       /\ Persisting = {alone} /\ snap[alone] = entries
       /\ step[alone] \in {"write", "rename"} => temp # NONE
       /\ step[alone] = "write" => handle[alone] = temp /\ content[temp] = Empty
       /\ step[alone] = "rename" => content[temp] = entries

\* So the file keeps the record it was given, and with it the kept slots.
FileOK ==
  /\ file # NONE => file # temp
  /\ ~overlapped /\ file # NONE => Parsable(content[file])
  /\ worker = "down" => kept = {}
  /\ ~overlapped => \A s \in kept : file # NONE /\ content[file][s] = entries[s]

OwedOK == worker = "down" => owed \subseteq Listed

IInv == TypeOK /\ StrangersOK

IStore == TypeOK /\ ChildrenOK /\ AloneOK /\ FileOK /\ OwedOK

-----------------------------------------------------------------------------
\* There is an inode for every name and every open file, so that a writer that
\* creates the temporary file finds one that nobody uses.
LEMMA FreshInode ==
  ASSUME TypeOK, temp = NONE
  PROVE  (CHOOSE i \in Unused : TRUE) \in Unused
<1>. DEFINE n == Cardinality(Writers)
            open == {i \in Inodes : \E w \in Writers : handle[w] = i}
            opener == {w \in Writers : handle[w] \in Inodes}
<1>1. n \in Nat /\ IsFiniteSet(Writers)
  BY StoreAssumption, FS_CardinalityType
<1>2. IsFiniteSet(opener) /\ Cardinality(opener) <= n
  <2>1. opener \in SUBSET Writers
    OBVIOUS
  <2>. QED BY <1>1, <2>1, FS_Subset
<1>3. IsFiniteSet(open) /\ Cardinality(open) <= Cardinality(opener)
  <2>1. [w \in opener |-> handle[w]] \in Surjection(opener, open)
    BY DEF TypeOK, Surjection
  <2>. QED BY <1>2, <2>1, FS_Surjection
<1>4. IsFiniteSet(open \cup {file}) /\ Cardinality(open \cup {file}) <= n + 1
  <2>1. Cardinality(opener) \in Nat /\ Cardinality(open) \in Nat
    BY <1>2, <1>3, FS_CardinalityType
  <2>2. /\ IsFiniteSet(open \cup {file})
        /\ Cardinality(open \cup {file}) = IF file \in open THEN Cardinality(open) ELSE Cardinality(open) + 1
    BY <1>3, FS_AddElement
  <2>. QED BY <1>1, <1>2, <1>3, <2>1, <2>2
<1>5. IsFiniteSet(Inodes) /\ Cardinality(Inodes) = n + 2
  <2>1. 0 \in Int /\ n + 1 \in Int
    BY <1>1
  <2>2. IsFiniteSet(0 .. n + 1) /\ Cardinality(0 .. n + 1) = IF 0 > n + 1 THEN 0 ELSE n + 1 - 0 + 1
    BY <2>1, FS_Interval
  <2>. QED BY <1>1, <2>2 DEF Inodes
<1>6. ~ (Inodes \subseteq open \cup {file})
  <2>1. SUFFICES ASSUME Inodes \in SUBSET (open \cup {file}) PROVE FALSE
    OBVIOUS
  <2>2. Cardinality(Inodes) <= Cardinality(open \cup {file})
    BY <1>4, <2>1, FS_Subset
  <2>3. Cardinality(open \cup {file}) \in Nat
    BY <1>4, FS_CardinalityType
  <2>. QED BY <1>1, <1>4, <1>5, <2>2, <2>3
<1>7. PICK i \in Inodes : i \notin open \cup {file}
  BY <1>6
<1>8. i \in Unused
  <2>1. i # NONE
    BY StoreAssumption DEF Inodes
  <2>. QED BY <1>7, <2>1 DEF Unused
<1>. QED BY <1>8

-----------------------------------------------------------------------------
LEMMA InitTypes == Init => TypeOK
<1>. SUFFICES ASSUME Init PROVE TypeOK
  OBVIOUS
<1>1. Blank \in Snapshot
  BY DEF Blank, Snapshot
<1>. QED BY <1>1 DEF Init, TypeOK

LEMMA SpawnTypes ==
  ASSUME TypeOK, NEW w \in Writers, NEW s \in Slots, NEW g \in Groups, Spawn(w, s, g)
  PROVE  TypeOK'
  BY StoreAssumption, ZenonT(40) DEF TypeOK, Spawn, Snapshot, diskVars, history

LEMMA RemoveTypes ==
  ASSUME TypeOK, NEW w \in Writers, NEW s \in Slots, NEW g \in Groups, Remove(w, s, g)
  PROVE  TypeOK'
<1>0. members' \in [Groups -> SUBSET {"leader", "helper"}] /\ child' \in [Groups -> Roles \cup {NONE}]
  BY DEF TypeOK, Remove
<1>1. CASE UNCHANGED <<entries, snap, step, alone, overlapped, kept>>
  BY <1>0, <1>1 DEF TypeOK, Remove, diskVars
<1>2. CASE Publish(w, s, NONE)
  <2>1. entries' \in Snapshot
    BY <1>2 DEF TypeOK, Publish, Snapshot
  <2>2. alone' \in Writers \cup {NONE} /\ overlapped' \in BOOLEAN /\ kept' \subseteq Slots
    BY <1>2 DEF TypeOK, Publish, Changed
  <2>. QED BY <1>0, <1>2, <2>1, <2>2 DEF TypeOK, Remove, Publish, diskVars
<1>. QED BY <1>1, <1>2 DEF Remove

LEMMA WriterTypes ==
  ASSUME TypeOK, NEW w \in Writers,
         Record(w) \/ Open(w) \/ Write(w) \/ Rename(w) \/ PersistFails(w)
  PROVE  TypeOK'
<1>0. NONE \notin Groups /\ NONE \notin Inodes
  BY StoreAssumption DEF Inodes
<1>1. CASE Record(w)
  <2>1. entries' \in Snapshot
    BY <1>1, StoreAssumption DEF TypeOK, Record, Publish, Snapshot
  <2>. QED BY <1>0, <1>1, <2>1 DEF TypeOK, Record, Publish, Changed, procVars, diskVars
<1>2. CASE Open(w)
  <2>1. temp' \in Inodes
    BY <1>2, FreshInode DEF TypeOK, Open, Unused
  <2>. QED BY <1>0, <1>2, <2>1 DEF TypeOK, Open, procVars, history
<1>3. CASE Write(w)
  <2>1. content' \in [Inodes -> Snapshot \cup {Empty, Torn}]
    BY <1>3 DEF TypeOK, Write
  <2>. QED BY <1>3, <2>1 DEF TypeOK, Write, procVars, history
<1>4. CASE Rename(w)
  <2>1. Blank \in Snapshot
    BY DEF Blank, Snapshot
  <2>. QED BY <1>4, <2>1 DEF TypeOK, Rename, Return, procVars
<1>5. CASE PersistFails(w)
  <2>1. Blank \in Snapshot
    BY DEF Blank, Snapshot
  <2>. QED BY <1>0, <1>5, <2>1 DEF TypeOK, PersistFails, Return, procVars
<1>. QED BY <1>1, <1>2, <1>3, <1>4, <1>5

LEMMA ProcessTypes ==
  ASSUME TypeOK, NEW g \in Groups,
         \/ HelperStarts(g) \/ PidReused(g)
         \/ \E m \in {"leader", "helper"} : MemberExits(g, m)
  PROVE  TypeOK'
  BY DEF TypeOK, HelperStarts, PidReused, MemberExits, writerVars, diskVars, history

LEMMA RestartTypes ==
  ASSUME TypeOK, WorkerDies \/ Boot
  PROVE  TypeOK'
<1>1. Blank \in Snapshot
  BY DEF Blank, Snapshot
<1>2. CASE WorkerDies
  BY <1>1, <1>2 DEF TypeOK, WorkerDies, Registered, diskVars
<1>3. CASE Boot
  BY <1>3 DEF TypeOK, Boot, writerVars
<1>. QED BY <1>2, <1>3

LEMMA Typing == TypeOK /\ [Next]_vars => TypeOK'
<1>1. TypeOK /\ Next => TypeOK'
  BY SpawnTypes, RemoveTypes, WriterTypes, ProcessTypes, RestartTypes DEF Next
<1>2. TypeOK /\ UNCHANGED vars => TypeOK'
  BY DEF TypeOK, vars, procVars, writerVars, diskVars, history
<1>. QED BY <1>1, <1>2

-----------------------------------------------------------------------------
LEMMA StrangersStep ==
  ASSUME IInv, [Next]_vars
  PROVE  StrangersOK' /\ strangers \subseteq strangers'
<1>0. TypeOK /\ StrangersOK
  BY DEF IInv
<1>1. ASSUME NEW w \in Writers, NEW s \in Slots, NEW g \in Groups, Spawn(w, s, g)
      PROVE  StrangersOK' /\ strangers \subseteq strangers'
  BY <1>0, <1>1 DEF StrangersOK, TypeOK, Spawn
<1>2. ASSUME NEW w \in Writers, NEW s \in Slots, NEW g \in Groups, Remove(w, s, g)
      PROVE  StrangersOK' /\ strangers \subseteq strangers'
  BY <1>0, <1>2 DEF StrangersOK, TypeOK, Remove
<1>3. ASSUME NEW w \in Writers, Record(w) \/ Open(w) \/ Write(w) \/ Rename(w) \/ PersistFails(w)
      PROVE  StrangersOK' /\ strangers \subseteq strangers'
  BY <1>0, <1>3 DEF StrangersOK, Record, Open, Write, Rename, PersistFails, Return, procVars
<1>4. ASSUME NEW g \in Groups,
             \/ HelperStarts(g) \/ PidReused(g)
             \/ \E m \in {"leader", "helper"} : MemberExits(g, m)
      PROVE  StrangersOK' /\ strangers \subseteq strangers'
  BY <1>0, <1>4 DEF StrangersOK, TypeOK, HelperStarts, PidReused, MemberExits
<1>5. CASE WorkerDies
  BY <1>0, <1>5 DEF StrangersOK, TypeOK, WorkerDies
<1>6. CASE Boot
  <2>1. \A g \in strangers : ~SameProcess(g)
    BY <1>0 DEF StrangersOK, SameProcess
  <2>. QED BY <1>0, <1>6, <2>1 DEF StrangersOK, TypeOK, Boot
<1>7. CASE UNCHANGED vars
  BY <1>0, <1>7 DEF StrangersOK, vars, procVars
<1>. QED BY <1>1, <1>2, <1>3, <1>4, <1>5, <1>6, <1>7 DEF Next

LEMMA Invariance == Spec => []IInv
<1>1. Init => IInv
  BY InitTypes DEF IInv, StrangersOK, Init
<1>2. IInv /\ [Next]_vars => IInv'
  BY Typing, StrangersStep DEF IInv
<1>. QED BY <1>1, <1>2, PTL DEF Spec

\* The stores, the steps of every writer and the inodes keep their types; a
\* writer has a slot in hand exactly between a spawn and its record, and an
\* open file exactly while it writes (record, remove, persist).
THEOREM TypeCorrect == Spec => []TypeOK
<1>1. IInv => TypeOK
  BY DEF IInv
<1>. QED BY <1>1, Invariance, PTL

\* The boot sweep never kills a process that was given a recorded pid later:
\* the start ticks tell it from the recorded leader (sweep_entry).
THEOREM StrangersAreSpared == Spec => StrangersSpared
<1>1. IInv /\ [Next]_vars => [strangers \subseteq strangers']_vars
  BY StrangersStep
<1>. QED BY <1>1, Invariance, PTL DEF Spec, StrangersSpared

-----------------------------------------------------------------------------
(* What the file holds.                                                    *)

LEMMA InitStore == Init => ChildrenOK /\ AloneOK /\ FileOK /\ OwedOK
  BY DEF Init, ChildrenOK, AloneOK, FileOK, OwedOK, Persisting

\* A writer at a persist is not idle, and when two are, they have overlapped.
LEMMA WriterAlone ==
  ASSUME IStore, ~overlapped, NEW w \in Writers, step[w] \in {"open", "write", "rename"}
  PROVE  alone = w /\ worker = "up"
<1>1. w \in Persisting
  BY DEF Persisting
<1>2. w = alone
  BY <1>1 DEF IStore, AloneOK
<1>. QED BY <1>2 DEF IStore, ChildrenOK, TypeOK

LEMMA SpawnStore ==
  ASSUME IStore, NEW w \in Writers, NEW s \in Slots, NEW g \in Groups, Spawn(w, s, g)
  PROVE  ChildrenOK' /\ AloneOK' /\ FileOK' /\ OwedOK'
<1>. USE DEF IStore, TypeOK, Spawn
<1>0. <<w, s>> # NONE /\ NONE \notin Groups /\ child[g] = NONE
  BY StoreAssumption DEF ChildrenOK
<1>1. ChildrenOK'
  <2>1. \A v \in Writers : step'[v] = "spawned" => child'[new'[v]] # NONE /\ child'[new'[v]][1] = v
    BY <1>0 DEF ChildrenOK
  <2>2. \A f, h \in Groups :
          child'[f] # NONE /\ child'[f][2] \notin Shared /\ child'[h] = child'[f] => h = f
    BY <1>0 DEF ChildrenOK
  <2>3. \A f \in Groups : child'[f] # NONE /\ child'[f][2] \in Sole
            => entries'[child'[f][2]] = f \/ new'[child'[f][1]] = f
    <3>1. ASSUME NEW f \in Groups, f # g, child[f] # NONE
          PROVE  new[child[f][1]] # f \/ child[f][1] # w
      BY <1>0, <3>1
    <3>. QED BY <1>0, <3>1 DEF ChildrenOK
  <2>. QED BY <1>0, <2>1, <2>2, <2>3 DEF ChildrenOK
<1>2. Persisting' = Persisting /\ (alone # NONE => alone \in Persisting /\ step'[alone] = step[alone])
  BY DEF Persisting, AloneOK, history
<1>3. AloneOK'
  BY <1>2 DEF AloneOK, history, diskVars
<1>4. FileOK' /\ OwedOK'
  BY DEF FileOK, OwedOK, history, diskVars
<1>. QED BY <1>1, <1>3, <1>4

\* What a change of an entry does to the file's bookkeeping.
LEMMA PublishStore ==
  ASSUME IStore, worker = "up", UNCHANGED <<worker, handle, diskVars, owed>>,
         NEW w \in Writers, step[w] \in {"idle", "spawned"},
         NEW s \in Slots, NEW g \in Groups \cup {NONE}, Publish(w, s, g)
  PROVE  AloneOK' /\ FileOK' /\ OwedOK'
<1>. USE DEF IStore, TypeOK, Publish, Changed
<1>1. Persisting' = Persisting \cup {w} /\ w # NONE
  BY StoreAssumption DEF Persisting
<1>2. snap'[w] = entries' /\ step'[w] = "open"
  OBVIOUS
<1>3. AloneOK'
  BY <1>1, <1>2 DEF AloneOK, diskVars
<1>4. \A t \in Slots \ {s} : entries'[t] = entries[t]
  BY DEF Snapshot
<1>5. FileOK'
  BY <1>4 DEF FileOK, diskVars
<1>6. OwedOK'
  BY DEF OwedOK
<1>. QED BY <1>3, <1>5, <1>6

LEMMA RecordStore ==
  ASSUME IStore, NEW w \in Writers, Record(w)
  PROVE  ChildrenOK' /\ AloneOK' /\ FileOK' /\ OwedOK'
<1>. DEFINE g == new[w]
            s == child[g][2]
<1>1. /\ g \in Groups /\ child[g] \in Writers \X Slots /\ child[g][1] = w /\ s \in Slots
      /\ child[g] # NONE /\ worker = "up" /\ g # NONE /\ w # NONE
  BY StoreAssumption DEF Record, IStore, TypeOK, ChildrenOK
<1>2. /\ Publish(w, s, g) /\ UNCHANGED <<worker, handle, diskVars, owed>>
      /\ UNCHANGED <<used, child>> /\ new' = [new EXCEPT ![w] = NONE] /\ step[w] = "spawned"
  BY DEF Record, procVars
<1>. HIDE DEF g, s
<1>3. AloneOK' /\ FileOK' /\ OwedOK'
  BY <1>1, <1>2, PublishStore
<1>4. ASSUME NEW f \in Groups, child[f] # NONE, child[f][2] \in Sole
      PROVE  entries'[child[f][2]] = f \/ new'[child[f][1]] = f
  <2>1. child[f] \in Roles /\ child[g] \in Roles /\ child[f] \in Writers \X Slots
    BY <1>1, <1>4, StoreAssumption DEF IStore, TypeOK
  <2>2. CASE child[f][2] = s
    <3>1. child[f] = child[g] /\ child[f][2] \notin Shared
      BY <1>4, <2>1, <2>2 DEF Sole, s
    <3>2. f = g
      BY <1>1, <1>4, <3>1 DEF IStore, ChildrenOK
    <3>. QED BY <1>1, <1>2, <2>1, <2>2, <3>2 DEF IStore, TypeOK, Publish, Snapshot
  <2>3. CASE child[f][2] # s
    <3>1. entries[child[f][2]] = f \/ new[child[f][1]] = f
      BY <1>4 DEF IStore, ChildrenOK
    <3>2. f # g
      BY <2>3 DEF s
    <3>3. entries'[child[f][2]] = entries[child[f][2]]
      BY <1>2, <2>1, <2>3 DEF IStore, TypeOK, Publish, Snapshot
    <3>4. new[child[f][1]] = f => child[f][1] # w
      BY <3>2 DEF g
    <3>. QED BY <1>2, <2>1, <3>1, <3>3, <3>4 DEF IStore, TypeOK
  <2>. QED BY <2>2, <2>3
<1>5. \A v \in Writers : step'[v] = "spawned" => step[v] = "spawned" /\ new'[v] = new[v]
  BY <1>2 DEF IStore, TypeOK, Publish
<1>6. ChildrenOK'
  BY <1>1, <1>2, <1>4, <1>5 DEF IStore, ChildrenOK
<1>. QED BY <1>3, <1>6

LEMMA RemoveStore ==
  ASSUME IStore, NEW w \in Writers, NEW s \in Slots, NEW g \in Groups, Remove(w, s, g)
  PROVE  ChildrenOK' /\ AloneOK' /\ FileOK' /\ OwedOK'
<1>0. /\ worker = "up" /\ step[w] = "idle" /\ child[g] = <<w, s>> /\ child[g] # NONE /\ w # NONE
      /\ child' = [child EXCEPT ![g] = NONE] /\ UNCHANGED <<worker, used, new, handle, diskVars, owed>>
  BY StoreAssumption DEF Remove, IStore, TypeOK
<1>1. /\ \A f \in Groups : child'[f] # NONE => f # g /\ child'[f] = child[f]
      /\ \A v \in Writers : step'[v] = "spawned" => step[v] = "spawned" /\ v # w
  BY <1>0 DEF Remove, Publish, IStore, TypeOK
<1>2. ASSUME NEW f \in Groups, child'[f] # NONE, child'[f][2] \in Sole
      PROVE  entries'[child'[f][2]] = f \/ new'[child'[f][1]] = f
  <2>1. child'[f] = child[f] /\ f # g /\ child[f] \in Roles /\ child[g] \in Roles
        /\ child[f] \in Writers \X Slots
    BY <1>0, <1>1, <1>2, StoreAssumption DEF IStore, TypeOK
  <2>2. entries[child[f][2]] = f \/ new[child[f][1]] = f
    BY <1>2, <2>1 DEF IStore, ChildrenOK
  <2>3. child[f][2] # s
    <3>1. SUFFICES ASSUME child[f][2] = s PROVE FALSE
      OBVIOUS
    <3>2. child[f] = child[g] /\ child[f][2] \notin Shared
      BY <1>0, <1>2, <2>1, <3>1 DEF Sole
    <3>. QED BY <1>0, <2>1, <3>2 DEF IStore, ChildrenOK
  <2>4. entries'[child[f][2]] = entries[child[f][2]]
    BY <2>1, <2>3 DEF Remove, Publish, IStore, TypeOK, Snapshot
  <2>. QED BY <1>0, <2>1, <2>2, <2>4
<1>3. ChildrenOK'
  <2>1. \A v \in Writers : step'[v] = "spawned" => child'[new'[v]] # NONE /\ child'[new'[v]][1] = v
    <3>1. TAKE v \in Writers
    <3>2. HAVE step'[v] = "spawned"
    <3>3. child[new[v]] # NONE /\ child[new[v]][1] = v /\ new[v] \in Groups /\ new[v] # g
      BY <1>0, <1>1, <3>2 DEF IStore, ChildrenOK, TypeOK
    <3>. QED BY <1>0, <3>3 DEF IStore, TypeOK
  <2>2. \A f, h \in Groups :
          child'[f] # NONE /\ child'[f][2] \notin Shared /\ child'[h] = child'[f] => h = f
    BY <1>1 DEF IStore, ChildrenOK
  <2>3. (worker = "down" => \A v \in Writers : step[v] = "idle")'
    BY <1>0
  <2>4. \A f \in Groups : child'[f] # NONE => f \in used'
    BY <1>0, <1>1 DEF IStore, ChildrenOK
  <2>. QED BY <1>2, <2>1, <2>2, <2>3, <2>4 DEF ChildrenOK
<1>4. CASE Publish(w, s, NONE)
  <2>1. AloneOK' /\ FileOK' /\ OwedOK'
    BY <1>0, <1>4, PublishStore
  <2>. QED BY <1>3, <2>1
<1>5. CASE UNCHANGED <<entries, snap, step, alone, overlapped, kept>>
  <2>1. AloneOK' /\ FileOK' /\ OwedOK'
    BY <1>0, <1>5 DEF IStore, AloneOK, FileOK, OwedOK, Persisting, diskVars
  <2>. QED BY <1>3, <2>1
<1>. QED BY <1>4, <1>5 DEF Remove

\* Steps of a persist leave the supervision of the children alone.
LEMMA PersistChildren ==
  ASSUME IStore, UNCHANGED <<procVars, child, entries, new>>, NEW w \in Writers,
         step[w] \in {"open", "write", "rename"},
         NEW t \in {"idle", "write", "rename"}, step' = [step EXCEPT ![w] = t]
  PROVE  ChildrenOK'
<1>1. worker = "up"
  BY DEF IStore, ChildrenOK, TypeOK
<1>2. \A v \in Writers : step'[v] = "spawned" => step[v] = "spawned"
  BY DEF IStore, TypeOK
<1>. QED BY <1>1, <1>2 DEF IStore, ChildrenOK, procVars

LEMMA OpenStore ==
  ASSUME IStore, NEW w \in Writers, Open(w)
  PROVE  AloneOK' /\ FileOK' /\ OwedOK' /\ ChildrenOK'
<1>. USE DEF IStore, TypeOK
<1>1. temp' \in Inodes /\ temp' # NONE /\ (file # NONE => temp' # file) /\ NONE \notin Inodes
  BY FreshInode, StoreAssumption DEF Open, FileOK, Unused, Inodes
<1>2. Persisting' = Persisting /\ step'[w] = "write" /\ handle'[w] = temp' /\ content'[temp'] = Empty
  BY <1>1 DEF Persisting, Open
<1>3. alone # NONE => alone = w
  BY DEF AloneOK, Open, Persisting
<1>4. AloneOK'
  BY <1>1, <1>2, <1>3 DEF AloneOK, Open, history
<1>5. worker = "up"
  BY DEF ChildrenOK, Open
<1>6. FileOK'
  BY <1>1 DEF FileOK, Open, history, procVars
<1>7. OwedOK'
  BY <1>5 DEF OwedOK, Open, procVars
<1>8. ChildrenOK'
  BY PersistChildren DEF Open
<1>. QED BY <1>4, <1>6, <1>7, <1>8

LEMMA WriteStore ==
  ASSUME IStore, NEW w \in Writers, Write(w)
  PROVE  AloneOK' /\ FileOK' /\ OwedOK' /\ ChildrenOK'
<1>. USE DEF IStore, TypeOK
<1>0. handle[w] \in Inodes /\ NONE \notin Inodes /\ step[w] = "write"
  BY StoreAssumption DEF Write, Inodes
<1>1. /\ content' = [content EXCEPT ![handle[w]] = content'[handle[w]]]
      /\ content'[handle[w]] = snap[w] \/ content[handle[w]] # Empty
  <2>1. PICK c \in {snap[w]} \cup (IF content[handle[w]] = Empty THEN {} ELSE {Torn}) :
          content' = [content EXCEPT ![handle[w]] = c]
    BY DEF Write
  <2>. QED BY <1>0, <2>1
<1>2. Persisting' = Persisting /\ step'[w] = "rename"
  BY DEF Persisting, Write
<1>3. alone # NONE => alone = w /\ handle[w] = temp /\ content'[temp] = entries /\ temp # NONE
  BY <1>0, <1>1 DEF AloneOK, Persisting
<1>4. AloneOK'
  BY <1>2, <1>3 DEF AloneOK, Write, history
<1>5. worker = "up"
  BY <1>0, <1>1 DEF ChildrenOK
<1>6. ~overlapped /\ file # NONE => file # handle[w] /\ content'[file] = content[file]
  BY <1>0, <1>1, <1>3, WriterAlone, StoreAssumption DEF FileOK
<1>7. FileOK'
  BY <1>6 DEF FileOK, Write, history, procVars
<1>8. OwedOK'
  BY <1>5 DEF OwedOK, Write, procVars
<1>9. ChildrenOK'
  BY PersistChildren DEF Write
<1>. QED BY <1>4, <1>7, <1>8, <1>9

\* Nobody is alone after a writer that was.
LEMMA ReturnAlone ==
  ASSUME IStore, NEW w \in Writers, step[w] \in {"open", "write", "rename"},
         Return(w), ~overlapped' => ~overlapped \/ alone = w
  PROVE  AloneOK'
<1>. USE DEF IStore, TypeOK, Return
<1>1. Persisting' = Persisting \ {w} /\ w \in Persisting
  BY DEF Persisting
<1>2. alone # NONE => alone = w
  BY <1>1 DEF AloneOK
<1>3. alone' = NONE
  BY <1>2
<1>4. ~overlapped' => Persisting' = {}
  BY <1>1, <1>2, StoreAssumption DEF AloneOK
<1>. QED BY <1>3, <1>4 DEF AloneOK

LEMMA RenameStore ==
  ASSUME IStore, NEW w \in Writers, Rename(w)
  PROVE  AloneOK' /\ FileOK' /\ OwedOK' /\ ChildrenOK'
<1>. USE DEF IStore, TypeOK
<1>1. worker = "up" /\ step[w] = "rename" /\ temp # NONE /\ w # NONE
  BY StoreAssumption DEF ChildrenOK, Rename
<1>2. alone = w => content[temp] = entries /\ entries \in Snapshot
  BY <1>1 DEF AloneOK
<1>3. ~overlapped => alone = w
  BY <1>1, WriterAlone
<1>4. FileOK'
  BY <1>1, <1>2, <1>3 DEF FileOK, Rename, Return, procVars, Parsable
<1>5. OwedOK'
  BY <1>1 DEF OwedOK, Rename, Return, procVars
<1>6. ChildrenOK'
  BY PersistChildren DEF Rename, Return
<1>7. AloneOK'
  BY <1>1, ReturnAlone DEF Rename
<1>. QED BY <1>4, <1>5, <1>6, <1>7

LEMMA FailStore ==
  ASSUME IStore, NEW w \in Writers, PersistFails(w)
  PROVE  AloneOK' /\ FileOK' /\ OwedOK' /\ ChildrenOK'
<1>. USE DEF IStore, TypeOK
<1>1. step[w] \in {"open", "write", "rename"} /\ worker = "up" /\ NONE \notin Inodes
  BY StoreAssumption DEF ChildrenOK, PersistFails, Inodes
<1>2. AloneOK'
  BY <1>1, ReturnAlone DEF PersistFails
<1>3. ChildrenOK'
  BY <1>1, PersistChildren DEF PersistFails, Return
<1>4. ~overlapped /\ file # NONE => content'[file] = content[file]
  <2>1. SUFFICES ASSUME ~overlapped, file # NONE PROVE content'[file] = content[file]
    OBVIOUS
  <2>2. alone = w
    BY <1>1, <2>1, WriterAlone
  <2>3. CASE UNCHANGED content
    BY <2>3
  <2>4. CASE step[w] = "write"
    <3>1. handle[w] = temp /\ temp # file /\ handle[w] \in Inodes /\ file \in Inodes
      BY <1>1, <2>1, <2>2, <2>4, StoreAssumption DEF AloneOK, FileOK
    <3>. QED BY <2>4, <3>1 DEF PersistFails
  <2>. QED BY <2>3, <2>4 DEF PersistFails
<1>5. FileOK'
  BY <1>1, <1>4 DEF FileOK, PersistFails, Return, procVars
<1>6. OwedOK'
  BY <1>1 DEF OwedOK, PersistFails, Return, procVars
<1>. QED BY <1>2, <1>3, <1>5, <1>6

LEMMA ProcessStore ==
  ASSUME IStore, NEW g \in Groups,
         \/ HelperStarts(g) \/ PidReused(g)
         \/ \E m \in {"leader", "helper"} : MemberExits(g, m)
  PROVE  ChildrenOK' /\ AloneOK' /\ FileOK' /\ OwedOK'
<1>1. UNCHANGED <<worker, used, child, entries, writerVars, diskVars, history>>
  BY DEF HelperStarts, PidReused, MemberExits
<1>. QED BY <1>1 DEF IStore, ChildrenOK, AloneOK, FileOK, OwedOK, Persisting, Listed,
                     writerVars, diskVars, history

\* What a dying worker leaves registered, the file lists.
LEMMA DeathStore ==
  ASSUME IStore, WorkerDies
  PROVE  ChildrenOK' /\ AloneOK' /\ FileOK' /\ OwedOK'
<1>. USE DEF IStore, TypeOK
<1>1. ChildrenOK' /\ AloneOK' /\ FileOK'
  BY DEF ChildrenOK, AloneOK, FileOK, Persisting, WorkerDies, diskVars
<1>2. ASSUME NEW g \in Registered
      PROVE  g \in Listed
  <2>1. /\ g \in Groups /\ ~overlapped /\ child[g] # NONE /\ child[g][2] \in kept
        /\ child[g][1] \in Writers /\ g # NONE
    BY StoreAssumption DEF Registered
  <2>2. entries[child[g][2]] = g
    BY <2>1 DEF Registered, ChildrenOK
  <2>3. file # NONE /\ Parsable(content[file]) /\ content[file][child[g][2]] = g
    BY <2>1, <2>2 DEF FileOK
  <2>. QED BY <2>1, <2>3 DEF Listed
<1>3. OwedOK'
  BY <1>2 DEF OwedOK, WorkerDies, Listed, diskVars
<1>. QED BY <1>1, <1>3

LEMMA BootStore ==
  ASSUME IStore, Boot
  PROVE  /\ ChildrenOK' /\ AloneOK' /\ FileOK' /\ OwedOK'
         /\ \A g \in owed : "leader" \in members[g] => members'[g] = {}
<1>. USE DEF IStore, TypeOK
<1>1. ChildrenOK' /\ FileOK' /\ OwedOK'
  BY DEF ChildrenOK, FileOK, OwedOK, Boot, writerVars
<1>2. Persisting' = {} /\ Persisting = {} /\ alone' = NONE
  BY DEF ChildrenOK, AloneOK, Persisting, Boot, writerVars
<1>3. AloneOK'
  BY <1>2 DEF AloneOK
<1>4. ASSUME NEW g \in owed, "leader" \in members[g] PROVE members'[g] = {}
  BY <1>4 DEF Boot, OwedOK, SameProcess
<1>. QED BY <1>1, <1>3, <1>4

LEMMA StoreStep ==
  ASSUME IStore, [Next]_vars
  PROVE  IStore' /\ (worker = "down" /\ worker' = "up" =>
                      \A g \in owed : "leader" \in members[g] => members'[g] = {})
<1>1. TypeOK'
  BY Typing DEF IStore
<1>2. CASE worker = "down" /\ worker' = "up"
  <2>1. Boot
    BY <1>2 DEF Next, Spawn, Remove, Record, Open, Write, Rename, PersistFails, Return, HelperStarts,
                PidReused, MemberExits, WorkerDies, vars, procVars
  <2>. QED BY <1>1, <2>1, BootStore DEF IStore
<1>3. CASE ~(worker = "down" /\ worker' = "up")
  <2>1. CASE UNCHANGED vars
    BY <1>1, <1>3, <2>1 DEF IStore, ChildrenOK, AloneOK, FileOK, OwedOK, Persisting, Listed,
                       vars, procVars, writerVars, diskVars, history
  <2>2. CASE Next
    <3>1. ChildrenOK' /\ AloneOK' /\ FileOK' /\ OwedOK'
      BY <2>2, SpawnStore, RemoveStore, RecordStore, OpenStore, WriteStore, RenameStore, FailStore,
         ProcessStore, DeathStore, BootStore DEF Next
    <3>. QED BY <1>1, <1>3, <3>1 DEF IStore
  <2>. QED BY <2>1, <2>2
<1>. QED BY <1>2, <1>3

LEMMA StoreInvariance == Spec => []IStore
<1>1. Init => IStore
  BY InitTypes, InitStore DEF IStore
<1>2. IStore /\ [Next]_vars => IStore'
  BY StoreStep
<1>. QED BY <1>1, <1>2, PTL DEF Spec

\* What every slot holds that nobody has changed since a persist that met no
\* other one is what the file says of it, although later persists failed or
\* were cut off (record, remove, persist).
KeptIsOnDisk ==
  ~overlapped => \A s \in kept :
    file # NONE /\ Parsable(content[file]) /\ content[file][s] = entries[s]

\* However many writers share the temporary file and whichever of their calls
\* fail, only an overlap of two leaves a file that does not parse (persist).
THEOREM TornFilesAreShared == Spec => []TornByOverlapOnly
<1>1. IStore => TornByOverlapOnly
  BY DEF IStore, FileOK, TornByOverlapOnly
<1>. QED BY <1>1, StoreInvariance, PTL

\* The file lags behind the entries by the slots that changed since a writer
\* last renamed it alone, and by no other (record, remove, persist).
THEOREM FileKeepsUnchangedSlots == Spec => []KeptIsOnDisk
<1>1. IStore => KeptIsOnDisk
  BY DEF IStore, FileOK, KeptIsOnDisk
<1>. QED BY <1>1, StoreInvariance, PTL

\* A group that was recorded for sure when its worker died is killed at the next
\* boot, if its leader still lives (sweep_orphans).
THEOREM RecordedOrphansAreSwept == Spec => OrphansAreSwept
<1>1. IStore /\ [Next]_vars =>
        [worker = "down" /\ worker' = "up" =>
           \A g \in owed : "leader" \in members[g] => members'[g] = {}]_vars
  BY StoreStep
<1>. QED BY <1>1, StoreInvariance, PTL DEF Spec, OrphansAreSwept
=============================================================================
