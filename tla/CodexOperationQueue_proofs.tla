---------------------- MODULE CodexOperationQueue_proofs ----------------------
(***************************************************************************)
(* Proofs about CodexOperationQueue, for any messages and compactions and  *)
(* any number of faults.                                                   *)
(*                                                                         *)
(* The invariant follows an entry from the viewer that submits it to the   *)
(* app server that takes it: it is in one place at a time, is sent at most *)
(* once to start a turn and at most once to be steered, and what may have  *)
(* been sent is out of the queue, marked, or being steered.                *)
(***************************************************************************)
EXTENDS CodexOperationQueue, FiniteSetTheorems, SequenceTheorems, TLAPS

SomeTurn == Turns \cup {NoTurn}
NoteKinds ==
    {"none", "reconnected", "disconnected", "started", "completed", "interrupted",
     "failed", "item", "active", "idle", "error", "systemError"}
Notes == [kind : NoteKinds, turn : SomeTurn]
RequestType ==
    [from : Threads \cup {LateCaller}, kind : {"start", "steer", "interrupt"},
     entry : Entries \cup {NoEntry}, turn : SomeTurn]
AnswerType == {NoAnswer, Failure} \cup {Ok(t) : t \in SomeTurn}

Types ==
    /\ entries \in Seq(Entries) /\ IsInjective(entries)
    /\ ToSet(entries) \subseteq submitted /\ submitted \subseteq Entries
    /\ unknown \subseteq ToSet(entries) \cap Messages
    /\ status \in {"ready", "running", "stopping", "failed"}
    /\ active \in SomeTurn /\ aim \in SomeTurn /\ turn \in SomeTurn
    /\ driving \in BOOLEAN /\ connected \in BOOLEAN
    /\ pc \in [Threads -> PCs] /\ cur \in [Threads -> Entries \cup {NoEntry}]
    /\ note \in Notes /\ events \in Seq(Notes)
    /\ requests \subseteq RequestType /\ answer \in [Threads -> AnswerType]
    /\ turns \in Nat /\ taken \in [Entries -> Nat]
    /\ faults \in 0 .. MaxFaults

\* Between taking a claim and giving it back.
Drivers == {a \in Threads : pc[a] \in {"pop", "send", "await", "clear", "release", "done"}}
DriverOK ==
    /\ driving <=> Drivers # {}
    /\ \A a, b \in Drivers : a = b

\* A thread that has an entry in hand which is in no queue and no request.
Carriers == {a \in Threads : pc[a] \in {"append", "send", "sendDirect"}}
Starts == {r \in requests : r.kind = "start"}
Steers == {r \in requests : r.kind = "steer"}

\* What has not been submitted is nowhere.
UnsubmittedOK ==
    \A e \in Entries \ submitted :
        /\ taken[e] = 0
        /\ \A a \in Threads : cur[a] # e
        /\ \A r \in requests : r.entry # e

CarriedOK ==
    /\ \A a \in Carriers :
        /\ cur[a] \in Entries \ ToSet(entries)
        /\ \A r \in Starts : r.entry # cur[a]
    /\ pc[Lane] = "append" =>
          taken[cur[Lane]] = 0 /\ \A r \in requests : r.entry # cur[Lane]
    /\ \A a, b \in Carriers : cur[a] = cur[b] => a = b

StartsOK ==
    /\ \A r \in Starts : r.entry \in Entries \ ToSet(entries)
    /\ \A q, r \in Starts : q.entry = r.entry => q = r

SteeringNow(e) == pc[Lane] = "steering" /\ cur[Lane] = e
SteersOK ==
    /\ pc[Lane] \in {"steer", "steering"} => cur[Lane] \in Messages
    /\ pc[Lane] = "steer" =>
          cur[Lane] \notin unknown /\ \A r \in Steers : r.entry # cur[Lane]
    /\ \A r \in Steers :
        /\ r.entry \in Messages
        /\ r.entry \in ToSet(entries) \ unknown => SteeringNow(r.entry)
    /\ \A q, r \in Steers : q.entry = r.entry => q = r

TakenOK ==
    \A e \in ToSet(entries) \ unknown : taken[e] > 0 => SteeringNow(e)

Places == UnsubmittedOK /\ CarriedOK /\ StartsOK /\ SteersOK /\ TakenOK

\* What may still start a turn, and what may still be steered.
Startable ==
    {e \in Entries :
        \/ e \notin submitted \/ e \in ToSet(entries)
        \/ \E a \in Carriers : cur[a] = e
        \/ \E r \in Starts : r.entry = e}
Steerable ==
    {e \in Entries :
        \/ e \notin submitted
        \/ e \in ToSet(entries) \ unknown /\ ~SteeringNow(e)
        \/ pc[Lane] \in {"append", "steer"} /\ cur[Lane] = e
        \/ \E r \in Steers : r.entry = e}

\* Every turn has used up an entry, and an entry is taken once for either.
BudgetOK ==
    /\ turns + Cardinality(Startable) <= Cardinality(Entries)
    /\ \A e \in Entries :
        /\ taken[e] <= 2
        /\ e \in Startable \cup Steerable => taken[e] <= 1
        /\ e \in Startable \cap Steerable => taken[e] = 0

IInv == Types /\ DriverOK /\ Places /\ BudgetOK

-----------------------------------------------------------------------------
(* The queue: what its operations do to the entries in it.                 *)

LEMMA Assumed ==
    /\ IsFiniteSet(Entries) /\ NoEntry \notin Entries
    /\ Messages \subseteq Entries /\ Cardinality(Entries) \in Nat
  BY QueueAssumption, FS_Union, FS_CardinalityType DEF Entries

\* An entry that is put into the queue.
LEMMA Put ==
  ASSUME NEW V, NEW s \in Seq(V), NEW e \in V, e \notin ToSet(s), IsInjective(s)
  PROVE  /\ Append(s, e) \in Seq(V) /\ IsInjective(Append(s, e))
         /\ ToSet(Append(s, e)) = ToSet(s) \cup {e}
<1> DEFINE t == Append(s, e)
<1>1. /\ t \in Seq(V) /\ Len(s) \in Nat /\ Len(t) = Len(s) + 1
      /\ DOMAIN s = 1 .. Len(s) /\ DOMAIN t = 1 .. Len(s) + 1
      /\ \A i \in 1 .. Len(s) : t[i] = s[i]
      /\ t[Len(s) + 1] = e
  OBVIOUS
<1>2. \A i \in 1 .. Len(s) : s[i] \in ToSet(s)
  BY <1>1 DEF ToSet
<1> HIDE DEF t
<1>3. IsInjective(t)
  BY <1>1, <1>2 DEF IsInjective
<1>4. ToSet(t) \subseteq ToSet(s) \cup {e}
  BY <1>1, <1>2 DEF ToSet
<1>5. ASSUME NEW x \in ToSet(s) PROVE x \in ToSet(t)
  <2>1. PICK i \in 1 .. Len(s) : x = s[i]
    BY <1>1 DEF ToSet
  <2>2. i \in DOMAIN t /\ t[i] = x
    BY <1>1, <2>1
  <2> QED BY <2>2 DEF ToSet
<1>6. e \in ToSet(t)
  <2>1. Len(s) + 1 \in DOMAIN t
    BY <1>1
  <2> QED BY <1>1, <2>1 DEF ToSet
<1> QED BY <1>1, <1>3, <1>4, <1>5, <1>6 DEF t

\* The head of the queue is taken out.
LEMMA Popped ==
  ASSUME NEW V, NEW s \in Seq(V), s # <<>>, IsInjective(s)
  PROVE  /\ Tail(s) \in Seq(V) /\ IsInjective(Tail(s))
         /\ Head(s) \in ToSet(s) /\ Head(s) \in V
         /\ ToSet(Tail(s)) = ToSet(s) \ {Head(s)}
<1>1. /\ Tail(s) \in Seq(V) /\ Len(Tail(s)) = Len(s) - 1
      /\ \A i \in 1 .. Len(s) - 1 : Tail(s)[i] = s[i + 1]
      /\ Head(s) = s[1] /\ Len(s) \in Nat \ {0}
  OBVIOUS
<1>2. IsInjective(Tail(s))
  BY <1>1 DEF IsInjective
<1>3. Head(s) \in ToSet(s) /\ Head(s) \in V
  BY <1>1 DEF ToSet
<1>4. ToSet(Tail(s)) \subseteq ToSet(s) \ {Head(s)}
  BY <1>1 DEF ToSet, IsInjective
<1>5. ASSUME NEW x \in ToSet(s) \ {Head(s)}
      PROVE  x \in ToSet(Tail(s))
  <2>1. PICK i \in 1 .. Len(s) : x = s[i]
    BY DEF ToSet
  <2>2. i - 1 \in 1 .. Len(s) - 1 /\ Tail(s)[i - 1] = x
    BY <1>1, <1>5, <2>1
  <2>3. i - 1 \in DOMAIN Tail(s)
    BY <1>1, <2>2
  <2> QED BY <2>2, <2>3 DEF ToSet
<1> QED BY <1>1, <1>2, <1>3, <1>4, <1>5

\* An entry is removed, wherever it is, or it was not there.
LEMMA PlaceOf ==
  ASSUME NEW V, NEW s \in Seq(V), NEW k \in 1 .. Len(s), IsInjective(s)
  PROVE  RemoveFirst(s, s[k]) = RemoveAt(s, k)
<1>1. DOMAIN s = 1 .. Len(s) /\ \A i \in 1 .. Len(s) : s[i] = s[k] => i = k
  BY DEF IsInjective
<1>2. {i \in 1 .. Len(s) : s[i] = s[k]} = {k}
  BY <1>1
<1>3. Min({k}) = k
  BY DEF Min
<1>4. SelectInSeq(s, LAMBDA v : v = s[k]) = k
  BY <1>2, <1>3 DEF SelectInSeq
<1> QED BY <1>4 DEF RemoveFirst

LEMMA TakenOut ==
  ASSUME NEW V, NEW s \in Seq(V), NEW k \in 1 .. Len(s), IsInjective(s)
  PROVE  /\ RemoveAt(s, k) \in Seq(V) /\ IsInjective(RemoveAt(s, k))
         /\ ToSet(RemoveAt(s, k)) = ToSet(s) \ {s[k]}
<1> DEFINE t == RemoveAt(s, k)
           old(i) == IF i < k THEN i ELSE i + 1
<1>1. /\ Len(s) \in Nat /\ k \in Nat /\ DOMAIN s = 1 .. Len(s)
      /\ \A i \in 1 .. Len(s) : s[i] \in V
  OBVIOUS
<1>2. /\ t \in Seq(V) /\ Len(t) = Len(s) - 1
      /\ DOMAIN t = 1 .. Len(s) - 1
      /\ \A i \in 1 .. Len(s) - 1 : t[i] = s[old(i)]
  <2> DEFINE before == SubSeq(s, 1, k - 1)
             after == SubSeq(s, k + 1, Len(s))
  <2>1. /\ before \in Seq(V) /\ Len(before) = k - 1
        /\ \A i \in 1 .. k - 1 : before[i] = s[i]
    BY <1>1
  <2>2. /\ after \in Seq(V) /\ Len(after) = Len(s) - k
        /\ \A i \in 1 .. Len(s) - k : after[i] = s[i + k]
    <3>1. k + 1 \in Int /\ Len(s) \in Int /\ \A i \in k + 1 .. Len(s) : s[i] \in V
      BY <1>1
    <3>2. /\ after \in Seq(V)
          /\ Len(after) = IF k + 1 <= Len(s) THEN Len(s) - (k + 1) + 1 ELSE 0
          /\ \A i \in 1 .. Len(s) - (k + 1) + 1 : after[i] = s[k + 1 + i - 1]
      BY <3>1, SubSeqProperties
    <3> HIDE DEF after
    <3>3. Len(s) - (k + 1) + 1 = Len(s) - k /\ k <= Len(s)
      BY <1>1
    <3>4. \A i \in 1 .. Len(s) - k : k + 1 + i - 1 = i + k
      BY <1>1
    <3>5. Len(after) = Len(s) - k
      <4>1. CASE k + 1 <= Len(s)
        BY <3>2, <3>3, <4>1
      <4>2. CASE ~ (k + 1 <= Len(s))
        <5> \A m, n \in Nat : n <= m /\ ~ (n + 1 <= m) => m - n = 0
          OBVIOUS
        <5>1. Len(s) - k = 0
          BY <1>1, <3>3, <4>2
        <5> QED BY <3>2, <4>2, <5>1
      <4> QED BY <4>1, <4>2
    <3>6. ASSUME NEW i \in 1 .. Len(s) - k PROVE after[i] = s[i + k]
      BY <3>2, <3>3, <3>4
    <3> QED BY <3>2, <3>5, <3>6
  <2>3. t = before \o after
    BY DEF RemoveAt
  <2> HIDE DEF before, after, t
  <2>4. t \in Seq(V) /\ Len(t) = Len(s) - 1 /\ DOMAIN t = 1 .. Len(s) - 1
    <3>1. t \in Seq(V) /\ Len(t) = Len(before) + Len(after)
      BY <2>1, <2>2, <2>3, ConcatProperties
    <3>2. (k - 1) + (Len(s) - k) = Len(s) - 1
      BY <1>1
    <3> QED BY <2>1, <2>2, <3>1, <3>2
  <2>5. ASSUME NEW i \in 1 .. Len(s) - 1 PROVE t[i] = s[old(i)]
    <3>1. CASE i < k
      BY <1>1, <2>1, <2>2, <2>3, <3>1
    <3>2. CASE i >= k
      <4>1. i - (k - 1) \in 1 .. Len(s) - k /\ i - (k - 1) + k = i + 1
        BY <1>1, <3>2
      <4>2. t[i] = after[i - (k - 1)]
        BY <1>1, <2>1, <2>2, <2>3, <3>2
      <4> QED BY <1>1, <2>2, <3>2, <4>1, <4>2
    <3> QED BY <1>1, <3>1, <3>2
  <2> QED BY <2>4, <2>5
<1>3. \A i \in 1 .. Len(s) - 1 : old(i) \in 1 .. Len(s) /\ old(i) # k
  BY <1>1
<1>4. \A i, j \in 1 .. Len(s) - 1 : old(i) = old(j) => i = j
  BY <1>1
<1>5. \A i, j \in 1 .. Len(s) : s[i] = s[j] => i = j
  BY <1>1 DEF IsInjective
<1> HIDE DEF t
<1>6. IsInjective(t)
  BY <1>2, <1>3, <1>4, <1>5 DEF IsInjective
<1>7. ToSet(t) \subseteq ToSet(s) \ {s[k]}
  BY <1>1, <1>2, <1>3, <1>5, SMTT(30) DEF ToSet
<1>8. ASSUME NEW x \in ToSet(s) \ {s[k]}
      PROVE  x \in ToSet(t)
  <2>1. PICK i \in 1 .. Len(s) : x = s[i]
    BY <1>1 DEF ToSet
  <2>2. PICK j \in 1 .. Len(s) - 1 : old(j) = i
    <3>1. CASE i < k
      BY <1>1, <3>1
    <3>2. CASE i > k
      <4>1. i - 1 \in 1 .. Len(s) - 1 /\ old(i - 1) = i
        BY <1>1, <3>2
      <4> QED BY <4>1
    <3> QED BY <1>1, <1>8, <2>1, <3>1, <3>2
  <2> QED BY <1>2, <2>1, <2>2 DEF ToSet
<1> QED BY <1>2, <1>6, <1>7, <1>8 DEF t

LEMMA Removed ==
  ASSUME NEW V, NEW s \in Seq(V), NEW e, IsInjective(s)
  PROVE  /\ RemoveFirst(s, e) \in Seq(V) /\ IsInjective(RemoveFirst(s, e))
         /\ ToSet(RemoveFirst(s, e)) = ToSet(s) \ {e}
<1>1. CASE \E k \in 1 .. Len(s) : s[k] = e
  BY <1>1, PlaceOf, TakenOut
<1>2. CASE ~ \E k \in 1 .. Len(s) : s[k] = e
  <2>1. RemoveFirst(s, e) = s
    BY <1>2 DEF RemoveFirst
  <2>2. e \notin ToSet(s)
    BY <1>2 DEF ToSet
  <2> QED BY <2>1, <2>2
<1> QED BY <1>1, <1>2

\* An injective queue is as long as it has entries.
LEMMA LengthOfQueue ==
  ASSUME NEW V, NEW s \in Seq(V), IsInjective(s)
  PROVE  Len(s) = Cardinality(ToSet(s))
<1>1. Len(s) \in Nat /\ DOMAIN s = 1 .. Len(s)
  OBVIOUS
<1>2. IsFiniteSet(1 .. Len(s)) /\ Cardinality(1 .. Len(s)) = Len(s)
  BY <1>1, FS_Interval, SMTT(30)
<1>3. s \in Bijection(1 .. Len(s), ToSet(s))
  BY <1>1 DEF ToSet, IsInjective, Bijection, Injection, Surjection
<1> QED BY <1>2, <1>3, FS_Bijection DEF ExistsBijection

LEMMA InQueueIsMember == ASSUME NEW e PROVE InQueue(e) <=> e \in ToSet(entries)
  BY DEF InQueue, Contains, ToSet

LEMMA EmptyQueue == /\ <<>> \in Seq(Entries) /\ IsInjective(<<>>) /\ ToSet(<<>>) = {}
  BY DEF ToSet, IsInjective
-----------------------------------------------------------------------------
(* Types.                                                                  *)

LEMMA Names ==
    /\ Lane \in Threads /\ Forwarder \in Threads /\ Lane # Forwarder
    /\ \A a \in Threads : a = Lane \/ a = Forwarder
    /\ LateCaller \notin Threads
  BY DEF Lane, Forwarder, LateCaller, Threads

LEMMA NotesAre == ASSUME NEW kind \in NoteKinds, NEW t \in SomeTurn PROVE Note(kind, t) \in Notes
  BY DEF Note, Notes

LEMMA Values ==
    /\ NoTurn \in SomeTurn /\ NoNote \in Notes
    /\ NoAnswer \in AnswerType /\ Failure \in AnswerType
    /\ \A t \in SomeTurn : Ok(t) \in AnswerType
    /\ \A x \in AnswerType : x.ok => x.turn \in SomeTurn
<1>1. NoTurn \in SomeTurn
  BY DEF SomeTurn
<1>2. NoNote \in Notes
  BY <1>1 DEF NoNote, Note, Notes, NoteKinds
<1>3. /\ NoAnswer \in AnswerType /\ Failure \in AnswerType
      /\ \A t \in SomeTurn : Ok(t) \in AnswerType
  BY DEF AnswerType
<1>4. ASSUME NEW x \in AnswerType, x.ok PROVE x.turn \in SomeTurn
  <2>1. CASE x = NoAnswer
    BY <1>4, <2>1 DEF NoAnswer
  <2>2. CASE x = Failure
    BY <1>4, <2>2 DEF Failure
  <2>3. CASE \E t \in SomeTurn : x = Ok(t)
    BY <2>3 DEF Ok
  <2> QED BY <2>1, <2>2, <2>3 DEF AnswerType
<1> QED BY <1>1, <1>2, <1>3, <1>4

LEMMA RequestsAre ==
  ASSUME NEW a \in Threads, NEW kind \in {"start", "steer", "interrupt"},
         NEW e \in Entries \cup {NoEntry}, NEW t \in SomeTurn
  PROVE  /\ Request(a, kind, e, t) \in RequestType
         /\ Request(a, kind, e, t).kind = kind /\ Request(a, kind, e, t).entry = e
  BY DEF Request, RequestType

\* What a step that sends a request does to the connection.
LEMMA SendsKeepsTypes ==
  ASSUME Types, NEW a \in Threads, NEW r \in RequestType, Sends(a, r)
  PROVE  /\ requests' \subseteq RequestType /\ answer' \in [Threads -> AnswerType]
         /\ connected' \in BOOLEAN /\ events' \in Seq(Notes)
<1>1. Note("reconnected", NoTurn) \in Notes
  BY Values DEF Note, Notes, NoteKinds
<1> QED BY <1>1, Values DEF Types, Sends

LEMMA FailsKeepsTypes ==
  ASSUME Types, NEW a \in Threads, Fails(a)
  PROVE  /\ requests' \subseteq RequestType /\ answer' \in [Threads -> AnswerType]
         /\ connected' \in BOOLEAN /\ events' \in Seq(Notes)
  BY Values DEF Types, Fails

Traffic ==
    /\ requests \subseteq RequestType /\ answer \in [Threads -> AnswerType]
    /\ connected \in BOOLEAN /\ events \in Seq(Notes)
Queue ==
    /\ entries \in Seq(Entries) /\ IsInjective(entries)
    /\ ToSet(entries) \subseteq submitted /\ submitted \subseteq Entries
    /\ unknown \subseteq ToSet(entries) \cap Messages
Runtime ==
    /\ status \in {"ready", "running", "stopping", "failed"}
    /\ active \in SomeTurn
Hands ==
    /\ pc \in [Threads -> PCs] /\ cur \in [Threads -> Entries \cup {NoEntry}]
    /\ aim \in SomeTurn /\ note \in Notes /\ driving \in BOOLEAN
Server ==
    /\ turn \in SomeTurn /\ turns \in Nat /\ taken \in [Entries -> Nat]
    /\ faults \in 0 .. MaxFaults

LEMMA TypesParts == Types <=> Queue /\ Runtime /\ Hands /\ Server /\ Traffic
  BY DEF Types, Queue, Runtime, Hands, Server, Traffic

LEMMA ClearKeepsQueue == ASSUME Queue, Clear, submitted' = submitted PROVE Queue'
  BY EmptyQueue DEF Queue, Clear

LEMMA WithoutKeepsQueue ==
  ASSUME Queue, NEW e, Without(e), submitted' = submitted
  PROVE  /\ Queue' /\ ToSet(entries') = ToSet(entries) \ {e}
<1>1. /\ entries' \in Seq(Entries) /\ IsInjective(entries')
      /\ ToSet(entries') = ToSet(entries) \ {e}
  BY Removed DEF Queue, Without
<1> QED BY <1>1 DEF Queue, Without

LEMMA DriveTypes ==
  ASSUME Types, NEW a \in Threads, Drive(a),
         pc[a] \in {"send", "sendDirect"} => cur[a] \in Entries
  PROVE  Types'
<1> USE Names, Values
<1>0. Queue /\ Runtime /\ Hands /\ Server /\ Traffic
  BY TypesParts
<1> SUFFICES Queue' /\ Runtime' /\ Hands' /\ Server' /\ Traffic'
  BY DEF Types, Queue, Runtime, Hands, Server, Traffic
<1>1. CASE Claim(a)
  BY <1>0, <1>1 DEF Claim, Goto, UnchangedInDrive, Queue, Runtime, Hands, Server, Traffic, store, runtime, appServer, PCs
<1>2. CASE Pop(a)
  <2>1. Runtime' /\ Server' /\ Traffic'
    BY <1>0, <1>2 DEF Pop, UnchangedInDrive, Runtime, Server, Traffic, runtime, appServer
  <2>2. CASE ~Busy /\ Drivable
    <3>1. /\ entries # <<>> /\ entries' = Tail(entries)
          /\ Head(entries) \notin unknown /\ unknown' = unknown /\ submitted' = submitted
          /\ cur' = [cur EXCEPT ![a] = Head(entries)] /\ pc' = [pc EXCEPT ![a] = "send"]
          /\ UNCHANGED <<aim, note, driving>>
      BY <1>2, <2>2 DEF Pop, Drivable, UnchangedInDrive, Goto, Holds
    <3>2. /\ entries' \in Seq(Entries) /\ IsInjective(entries')
          /\ Head(entries) \in Entries
          /\ ToSet(entries') = ToSet(entries) \ {Head(entries)}
      BY <1>0, <3>1, Popped DEF Queue
    <3>3. Queue'
      BY <1>0, <3>1, <3>2 DEF Queue
    <3>4. Hands'
      BY <1>0, <3>1, <3>2 DEF Hands, PCs
    <3> QED BY <2>1, <3>3, <3>4
  <2>3. CASE ~ (~Busy /\ Drivable)
    BY <1>0, <1>2, <2>1, <2>3 DEF Pop, UnchangedInDrive, Queue, Hands, Goto, PCs
  <2> QED BY <2>2, <2>3
<1>3. CASE Send(a)
  <2>1. Queue' /\ Runtime' /\ Server'
    BY <1>0, <1>3 DEF Send, UnchangedInDrive, Queue, Runtime, Server, store, runtime, appServer
  <2>2. Hands'
    BY <1>0, <1>3 DEF Send, UnchangedInDrive, Hands, Goto, Holds, PCs
  <2>3. Traffic'
    <3>1. Request(a, "start", cur[a], NoTurn) \in RequestType
      BY <1>3, RequestsAre DEF Send
    <3> QED BY <1>0, <1>3, <3>1, SendsKeepsTypes, FailsKeepsTypes DEF Send, Traffic
  <2> QED BY <2>1, <2>2, <2>3
<1>4. CASE Dispatched(a)
  <2>1. Queue' /\ Server'
    BY <1>0, <1>4 DEF Dispatched, UnchangedInDrive, Queue, Server, store, appServer
  <2>2. Hands'
    BY <1>0, <1>4 DEF Dispatched, UnchangedInDrive, Hands, Goto, Holds, PCs
  <2>3. Traffic'
    BY <1>0, <1>4 DEF Dispatched, Traffic, Forget
  <2>4. Runtime'
    BY <1>0, <1>4 DEF Dispatched, Runtime, Accepted, runtime, Traffic
  <2> QED BY <2>1, <2>2, <2>3, <2>4
<1>5. CASE DropQueue(a)
  <2>1. Queue'
    BY <1>0, <1>5, ClearKeepsQueue DEF DropQueue, UnchangedInDrive
  <2> QED BY <1>0, <1>5, <2>1 DEF DropQueue, Goto, UnchangedInDrive, Runtime, Hands, Server, Traffic, runtime, appServer, PCs
<1>6. CASE Release(a)
  BY <1>0, <1>6 DEF Release, Goto, UnchangedInDrive, Queue, Runtime, Hands, Server, Traffic, store, runtime, appServer, PCs
<1>7. CASE Recheck(a)
  BY <1>0, <1>7 DEF Recheck, Goto, UnchangedInDrive, Queue, Runtime, Hands, Server, Traffic, store, runtime, appServer, PCs
<1> QED BY <1>1, <1>2, <1>3, <1>4, <1>5, <1>6, <1>7 DEF Drive
LEMMA LaneTypes ==
  ASSUME Types,
         pc[Lane] = "append" => cur[Lane] \in Entries \ ToSet(entries),
         pc[Lane] = "append" => cur[Lane] \in submitted,
         pc[Lane] = "steering" => cur[Lane] \in Messages,
         \/ AppendEntry \/ Steer \/ Steered \/ SendInterrupt \/ Interrupted \/ Viewer
  PROVE  Types'
<1> USE Names, Values
<1>0. Queue /\ Runtime /\ Hands /\ Server /\ Traffic
  BY TypesParts
<1>m. Messages \subseteq Entries
  BY Assumed
<1> SUFFICES Queue' /\ Runtime' /\ Hands' /\ Server' /\ Traffic'
  BY DEF Types, Queue, Runtime, Hands, Server, Traffic
<1>1. CASE AppendEntry
  <2>1. /\ entries' = Append(entries, cur[Lane]) /\ unknown' = unknown
        /\ submitted' = submitted /\ pc[Lane] = "append"
    BY <1>1 DEF AppendEntry
  <2>2. /\ entries' \in Seq(Entries) /\ IsInjective(entries')
        /\ ToSet(entries') = ToSet(entries) \cup {cur[Lane]}
    BY <1>0, <2>1, Put DEF Queue
  <2>3. Queue'
    BY <1>0, <2>1, <2>2 DEF Queue
  <2> QED BY <1>0, <1>1, <2>3 DEF AppendEntry, Goto, Holds, UnchangedInLane, NoTraffic, Runtime, Hands, Server, Traffic, store, runtime, appServer, PCs
<1>2. CASE Steer
  <2>1. Request(Lane, "steer", cur[Lane], aim) \in RequestType
    BY <1>0, RequestsAre DEF Hands
  <2>2. Traffic'
    BY <1>2, <2>1, SendsKeepsTypes, FailsKeepsTypes DEF Steer, Traffic
  <2>3. Queue' /\ Runtime' /\ Server'
    BY <1>0, <1>2 DEF Steer, UnchangedInLane, Queue, Runtime, Server, store, runtime, appServer
  <2>4. Hands'
    BY <1>0, <1>2 DEF Steer, UnchangedInLane, Hands, Goto, PCs
  <2> QED BY <2>2, <2>3, <2>4
<1>3. CASE Steered
  <2>1. Runtime' /\ Server' /\ Hands' /\ Traffic'
    BY <1>0, <1>3 DEF Steered, Forget, Goto, Holds, UnchangedInLane, NoTraffic, Runtime, Hands, Server, Traffic, store, runtime, appServer, PCs
  <2>2. submitted' = submitted /\ cur[Lane] \in Messages
    BY <1>3 DEF Steered
  <2>3. CASE Without(cur[Lane])
    BY <1>0, <2>2, <2>3, WithoutKeepsQueue, <2>1
  <2>4. CASE Quarantine(cur[Lane])
    <3>1. Queue'
      BY <1>0, <2>2, <2>4, InQueueIsMember DEF Quarantine, Queue
    <3> QED BY <2>1, <3>1
  <2> QED BY <1>3, <2>3, <2>4 DEF Steered
<1>4. CASE SendInterrupt
  <2>1. Request(Lane, "interrupt", NoEntry, aim) \in RequestType
    BY <1>0, RequestsAre DEF Hands
  <2>2. Traffic'
    BY <1>4, <2>1, SendsKeepsTypes, FailsKeepsTypes DEF SendInterrupt, Traffic
  <2>3. Queue' /\ Runtime' /\ Server'
    BY <1>0, <1>4 DEF SendInterrupt, UnchangedInLane, Queue, Runtime, Server, store, runtime, appServer
  <2>4. Hands'
    BY <1>0, <1>4 DEF SendInterrupt, UnchangedInLane, Hands, Goto, PCs
  <2> QED BY <2>2, <2>3, <2>4
<1>5. CASE Interrupted
  BY <1>0, <1>5 DEF Interrupted, Forget, Queue, Goto, Holds, UnchangedInLane, NoTraffic, Runtime, Hands, Server, Traffic, store, runtime, appServer, PCs
<1>6. CASE Interrupt
  <2>1. Queue'
    BY <1>0, <1>6, ClearKeepsQueue DEF Interrupt
  <2> QED BY <1>0, <1>6, <2>1 DEF Interrupt, Goto, Holds, UnchangedInLane, NoTraffic, Runtime, Hands, Server, Traffic, store, runtime, appServer, PCs
<1>7. ASSUME NEW e \in Entries, Submit(e) PROVE Queue' /\ Runtime' /\ Hands' /\ Server' /\ Traffic'
  <2>1. Queue'
    BY <1>0, <1>7 DEF Submit, Queue, store
  <2> QED BY <1>0, <1>7, <2>1 DEF Submit, Goto, Holds, UnchangedInLane, NoTraffic, Runtime, Hands, Server, Traffic, store, runtime, appServer, PCs
<1>8. ASSUME NEW e \in Entries, RemoveEntry(e) PROVE Queue' /\ Runtime' /\ Hands' /\ Server' /\ Traffic'
  <2>1. Queue'
    BY <1>0, <1>8, WithoutKeepsQueue DEF RemoveEntry
  <2> QED BY <1>0, <1>8, <2>1 DEF RemoveEntry, Goto, Holds, UnchangedInLane, NoTraffic, Runtime, Hands, Server, Traffic, store, runtime, appServer, PCs
<1>9. ASSUME NEW e \in Entries, RunNow(e) PROVE Queue' /\ Runtime' /\ Hands' /\ Server' /\ Traffic'
  <2>1. Queue' /\ Runtime' /\ Server' /\ Traffic'
    BY <1>0, <1>9 DEF RunNow, UnchangedInLane, NoTraffic, Queue, Runtime, Server, Traffic, store, runtime, appServer
  <2>2. CASE Goto(Lane, "drive") /\ UNCHANGED <<cur, aim>>
    BY <1>0, <1>9, <2>1, <2>2 DEF RunNow, UnchangedInLane, Hands, Goto, PCs
  <2>3. CASE Goto(Lane, "steer") /\ Holds(Lane, e) /\ aim' = active
    BY <1>0, <1>9, <2>1, <2>3 DEF RunNow, UnchangedInLane, Hands, Goto, Holds, Runtime, PCs
  <2> QED BY <1>9, <2>2, <2>3 DEF RunNow
<1> QED BY <1>1, <1>2, <1>3, <1>4, <1>5, <1>6, <1>7, <1>8, <1>9 DEF Viewer

LEMMA ForwarderTypes ==
  ASSUME Types,
         TakeEvent \/ Effect \/ Reconnect \/ ListThreads \/ ClearRuntime \/ ReadThread
  PROVE  Types'
<1> USE Names, Values
<1>0. Queue /\ Runtime /\ Hands /\ Server /\ Traffic
  BY TypesParts
<1> SUFFICES Queue' /\ Runtime' /\ Hands' /\ Server' /\ Traffic'
  BY DEF Types, Queue, Runtime, Hands, Server, Traffic
<1>1. CASE TakeEvent
  <2> DEFINE n == Head(events)
  <2>1. n \in Notes /\ n.turn \in SomeTurn /\ Tail(events) \in Seq(Notes)
    <3>1. events \in Seq(Notes) /\ events # <<>>
      BY <1>0, <1>1 DEF TakeEvent, Traffic
    <3>2. n \in Notes /\ Tail(events) \in Seq(Notes)
      BY <3>1, HeadTailProperties
    <3> HIDE DEF n
    <3> QED BY <3>2 DEF Notes
  <2>2. StatusAfter(n) \in {"ready", "running", "stopping", "failed"}
    BY <1>0 DEF StatusAfter, Runtime
  <2>3. ActiveAfter(n) \in SomeTurn
    BY <1>0, <2>1 DEF ActiveAfter, Runtime
  <2>4. Queue'
    BY <1>0, <1>1, ClearKeepsQueue DEF TakeEvent, UnchangedInForwarder, store, Queue
  <2>5. /\ note' \in Notes
        /\ \E step \in {"effect", "reconnect", "list", "idle"} : pc' = [pc EXCEPT ![Forwarder] = step]
    <3> DEFINE step == CASE note' # NoNote          -> "effect"
                         [] n.kind = "disconnected" -> "reconnect"
                         [] n.kind = "reconnected"  -> "list"
                         [] OTHER                   -> "idle"
    <3>1. note' \in Notes
      <4>1. note' = IF n.kind = "completed" \/ n.kind \in Clearing THEN n ELSE NoNote
        BY <1>1 DEF TakeEvent
      <4> HIDE DEF n
      <4> QED BY <2>1, <4>1
    <3>2. pc' = [pc EXCEPT ![Forwarder] = step]
      BY <1>1 DEF TakeEvent, Goto
    <3>3. step \in {"effect", "reconnect", "list", "idle"}
      <4> HIDE DEF n
      <4> QED OBVIOUS
    <3> QED BY <3>1, <3>2, <3>3
  <2>6. Hands'
    BY <1>0, <1>1, <2>5 DEF Hands, TakeEvent, UnchangedInForwarder, PCs
  <2>7. Runtime' /\ Server' /\ Traffic'
    BY <1>0, <1>1, <2>1, <2>2, <2>3 DEF Runtime, Server, Traffic, TakeEvent, UnchangedInForwarder, appServer
  <2> QED BY <2>4, <2>6, <2>7
<1>2. CASE Effect
  <2>1. Queue'
    BY <1>0, <1>2, ClearKeepsQueue DEF Effect, UnchangedInForwarder, store, Queue
  <2> QED BY <1>0, <1>2, <2>1 DEF Effect, UnchangedInForwarder, Goto, Holds, UnchangedInLane, NoTraffic, Runtime, Hands, Server, Traffic, store, runtime, appServer, PCs
<1>3. CASE Reconnect
  <2>1. Note("reconnected", NoTurn) \in Notes
    BY DEF Note, Notes, NoteKinds
  <2>2. events' \in Seq(Notes)
    BY <1>0, <1>3, <2>1 DEF Reconnect, Traffic
  <2>3. connected' \in BOOLEAN
    BY <1>0, <1>3 DEF Reconnect, Traffic
  <2>4. Queue' /\ Runtime' /\ Server'
    BY <1>0, <1>3 DEF Reconnect, UnchangedInForwarder, Queue, Runtime, Server, store, runtime, appServer
  <2>5. Hands'
    BY <1>0, <1>3 DEF Reconnect, UnchangedInForwarder, Hands, Goto, PCs
  <2> QED BY <1>0, <1>3, <2>2, <2>3, <2>4, <2>5 DEF Reconnect, Traffic
<1>4. CASE ListThreads
  <2>1. Note("active", turn) \in Notes
    BY <1>0 DEF Note, Notes, NoteKinds, Server
  <2> QED BY <1>0, <1>4, <2>1 DEF ListThreads, Queue, UnchangedInForwarder, Goto, Holds, UnchangedInLane, NoTraffic, Runtime, Hands, Server, Traffic, store, runtime, appServer, PCs
<1>5. CASE ClearRuntime
  BY <1>0, <1>5 DEF ClearRuntime, Queue, UnchangedInForwarder, Goto, Holds, UnchangedInLane, NoTraffic, Runtime, Hands, Server, Traffic, store, runtime, appServer, PCs
<1>6. CASE ReadThread
  BY <1>0, <1>6 DEF ReadThread, Queue, UnchangedInForwarder, Goto, Holds, UnchangedInLane, NoTraffic, Runtime, Hands, Server, Traffic, store, runtime, appServer, PCs
<1> QED BY <1>1, <1>2, <1>3, <1>4, <1>5, <1>6

LEMMA LateKeepsTypes == ASSUME Traffic, NEW who PROVE Late(who) \subseteq RequestType
  BY DEF Traffic, Late, RequestType

\* The app server has turns left for what may still start one.
LEMMA ServerTypes ==
  ASSUME Types, AppServer, \A r \in Starts : r.entry \in Entries,
         Starts # {} => turns + 1 \in Turns
  PROVE  Types'
<1> USE Names, Values
<1>0. Queue /\ Runtime /\ Hands /\ Server /\ Traffic
  BY TypesParts
<1>m. Messages \subseteq Entries
  BY Assumed
<1> SUFFICES Queue' /\ Runtime' /\ Hands' /\ Server' /\ Traffic'
  BY DEF Types, Queue, Runtime, Hands, Server, Traffic
<1>q. Queue' /\ Runtime' /\ Hands'
  <2>1. UnchangedInServer
    BY DEF AppServer, EndTurn, Disconnect, Aside, Answers, StartTurn, JoinTurn, StopTurn, Refuse, Timeout
  <2> QED BY <1>0, <2>1 DEF UnchangedInServer, Queue, Runtime, Hands, store, runtime
<1>f. ASSUME Fault PROVE faults' \in 0 .. MaxFaults
  BY <1>0, <1>f, QueueAssumption DEF Fault, Server
<1>e. ASSUME NEW n \in Notes, Emit(n) PROVE events' \in Seq(Notes)
  BY <1>0, <1>e DEF Emit, Traffic
<1>r. ASSUME NEW r \in requests, NEW x \in AnswerType, Replies(r, x)
      PROVE  requests' \subseteq RequestType /\ answer' \in [Threads -> AnswerType]
  BY <1>0, <1>r DEF Replies, Traffic
<1>1. CASE EndTurn
  <2>1. \A kind \in {"completed", "failed"} : Note(kind, turn) \in Notes
    BY <1>0 DEF Note, Notes, NoteKinds, Server
  <2>2. events' \in Seq(Notes)
    BY <1>1, <2>1, <1>e DEF EndTurn
  <2> QED BY <1>0, <1>q, <1>1, <2>2 DEF EndTurn, Server, Traffic
<1>2. CASE Disconnect
  <2>1. Note("disconnected", NoTurn) \in Notes
    BY DEF Note, Notes, NoteKinds
  <2>2. Late(Threads) \subseteq RequestType
    BY <1>0, LateKeepsTypes
  <2>3. connected' \in BOOLEAN /\ requests' = Late(Threads)
    BY <1>2 DEF Disconnect
  <2>4. events' \in Seq(Notes)
    BY <1>0, <1>2, <2>1 DEF Disconnect, Traffic
  <2>5. answer' \in [Threads -> AnswerType]
    BY <1>0, <1>2 DEF Disconnect, Traffic
  <2>6. Server'
    BY <1>0, <1>2, <1>f DEF Disconnect, Server, appServer
  <2> QED BY <2>6, <1>q, <2>2, <2>3, <2>4, <2>5 DEF Traffic
<1>3. ASSUME NEW kind \in Asides, Aside(kind) PROVE Server' /\ Traffic'
  <2>1. Note(kind, turn) \in Notes
    BY <1>0 DEF Note, Notes, NoteKinds, Server, Asides
  <2>2. events' \in Seq(Notes)
    BY <1>3, <2>1, <1>e DEF Aside
  <2> QED BY <1>0, <1>3, <1>f, <2>2 DEF Aside, Server, Traffic, appServer
<1>4. ASSUME NEW a \in Threads, Timeout(a) PROVE Server' /\ Traffic'
  <2>1. Late({a}) \subseteq RequestType
    BY <1>0, LateKeepsTypes
  <2> QED BY <1>0, <1>4, <1>f, <2>1 DEF Timeout, Server, Traffic, appServer
<1>5. ASSUME NEW r \in requests, StartTurn(r) PROVE Server' /\ Traffic'
  <2>1. r.entry \in Entries /\ turns + 1 \in Turns
    BY <1>5 DEF StartTurn, Starts
  <2>2. turn' \in SomeTurn /\ turns' \in Nat /\ turn' = turns'
    BY <1>0, <1>5, <2>1 DEF StartTurn, SomeTurn, Turns
  <2>3. Note("started", turn') \in Notes
    BY <2>2 DEF Note, Notes, NoteKinds
  <2>4. events' \in Seq(Notes)
    BY <1>5, <2>3, <1>e DEF StartTurn
  <2>5. requests' \subseteq RequestType /\ answer' \in [Threads -> AnswerType]
    <3>1. Ok(IF r.entry \in Messages THEN turn' ELSE NoTurn) \in AnswerType
      BY <2>2
    <3> QED BY <1>5, <3>1, <1>r DEF StartTurn
  <2>6. taken' \in [Entries -> Nat]
    BY <1>0, <1>5, <2>1 DEF StartTurn, Takes, Server
  <2> QED BY <1>0, <1>5, <2>2, <2>4, <2>5, <2>6 DEF StartTurn, Server, Traffic
<1>6. ASSUME NEW r \in requests, JoinTurn(r) PROVE Server' /\ Traffic'
  <2>1. requests' \subseteq RequestType /\ answer' \in [Threads -> AnswerType]
    BY <1>0, <1>6, <1>r DEF JoinTurn, Server
  <2>2. taken' \in [Entries -> Nat]
    BY <1>0, <1>m, <1>6 DEF JoinTurn, Takes, Server
  <2> QED BY <1>0, <1>6, <2>1, <2>2 DEF JoinTurn, Server, Traffic
<1>7. ASSUME NEW r \in requests, StopTurn(r) PROVE Server' /\ Traffic'
  <2>1. Note("interrupted", turn) \in Notes
    BY <1>0 DEF Note, Notes, NoteKinds, Server
  <2>2. events' \in Seq(Notes)
    BY <1>7, <2>1, <1>e DEF StopTurn
  <2>3. requests' \subseteq RequestType /\ answer' \in [Threads -> AnswerType]
    BY <1>0, <1>7, <1>r DEF StopTurn, Server
  <2> QED BY <1>0, <1>7, <2>2, <2>3 DEF StopTurn, Server, Traffic
<1>8. ASSUME NEW r \in requests, Refuse(r) PROVE Server' /\ Traffic'
  <2>1. requests' \subseteq RequestType /\ answer' \in [Threads -> AnswerType]
    BY <1>8, <1>r DEF Refuse
  <2> QED BY <1>0, <1>8, <2>1 DEF Refuse, Server, Traffic, appServer
<1> QED BY <1>q, <1>1, <1>2, <1>3, <1>4, <1>5, <1>6, <1>7, <1>8 DEF AppServer, Answers
-----------------------------------------------------------------------------
(* The claim.                                                              *)

DriverPCs == {"pop", "send", "await", "clear", "release", "done"}

\* A step that neither takes nor gives back the claim.
LEMMA ClaimStands ==
  ASSUME Types, DriverOK, UNCHANGED driving,
         UNCHANGED pc \/ \E a \in Threads, step \in PCs :
           /\ pc' = [pc EXCEPT ![a] = step]
           /\ pc[a] \in DriverPCs <=> step \in DriverPCs
  PROVE  DriverOK'
<1>1. Drivers' = Drivers
  BY DEF Types, Drivers, DriverPCs
<1> QED BY <1>1 DEF DriverOK

LEMMA DriveKeepsClaim ==
  ASSUME Types, DriverOK, NEW a \in Threads, Drive(a)
  PROVE  DriverOK'
<1>0. pc \in [Threads -> PCs]
  BY DEF Types
<1>1. CASE Claim(a)
  <2>1. CASE Busy \/ driving
    <3>1. pc' = [pc EXCEPT ![a] = "idle"] /\ pc[a] = "drive" /\ UNCHANGED driving
      BY <1>1, <2>1 DEF Claim, Goto
    <3> QED BY <3>1, ClaimStands DEF DriverPCs, PCs
  <2>2. CASE ~ (Busy \/ driving)
    <3>1. pc' = [pc EXCEPT ![a] = "pop"] /\ driving' = TRUE /\ Drivers = {}
      BY <1>1, <2>2 DEF Claim, Goto, DriverOK
    <3>2. Drivers' = {a}
      BY <1>0, <3>1 DEF Drivers
    <3> QED BY <3>1, <3>2 DEF DriverOK
  <2> QED BY <2>1, <2>2
<1>2. CASE Pop(a)
  <2>1. pc[a] = "pop" /\ UNCHANGED driving
    BY <1>2 DEF Pop
  <2>2. pc' = [pc EXCEPT ![a] = "send"] \/ pc' = [pc EXCEPT ![a] = "release"]
    BY <1>2 DEF Pop, Goto
  <2> QED BY <2>1, <2>2, ClaimStands DEF DriverPCs, PCs
<1>3. CASE Send(a)
  <2>1. pc[a] \in {"send", "sendDirect"} /\ UNCHANGED driving
    BY <1>3 DEF Send
  <2>2. \/ pc[a] = "send" /\ (pc' = [pc EXCEPT ![a] = "await"] \/ pc' = [pc EXCEPT ![a] = "clear"])
        \/ pc[a] = "sendDirect" /\ (pc' = [pc EXCEPT ![a] = "awaitDirect"] \/ pc' = [pc EXCEPT ![a] = "idle"])
    BY <1>3 DEF Send, Goto
  <2> QED BY <2>1, <2>2, ClaimStands DEF DriverPCs, PCs
<1>4. CASE Dispatched(a)
  <2>1. pc[a] \in {"await", "awaitDirect"} /\ UNCHANGED driving
    BY <1>4 DEF Dispatched
  <2>2. \/ pc[a] = "await" /\ (pc' = [pc EXCEPT ![a] = "done"] \/ pc' = [pc EXCEPT ![a] = "clear"])
        \/ pc[a] = "awaitDirect" /\ pc' = [pc EXCEPT ![a] = "idle"]
    BY <1>4 DEF Dispatched, Goto
  <2> QED BY <2>1, <2>2, ClaimStands DEF DriverPCs, PCs
<1>5. CASE DropQueue(a)
  <2>1. pc[a] = "clear" /\ UNCHANGED driving /\ pc' = [pc EXCEPT ![a] = "release"]
    BY <1>5 DEF DropQueue, Goto
  <2> QED BY <2>1, ClaimStands DEF DriverPCs, PCs
<1>6. CASE Release(a)
  <2>1. /\ a \in Drivers /\ driving' = FALSE
        /\ \E step \in {"idle", "recheck"} : pc' = [pc EXCEPT ![a] = step]
    BY <1>6 DEF Release, Goto, Drivers
  <2>2. Drivers' = {}
    BY <1>0, <2>1 DEF Drivers, DriverOK
  <2> QED BY <2>1, <2>2 DEF DriverOK
<1>7. CASE Recheck(a)
  <2>1. pc[a] = "recheck" /\ UNCHANGED driving
    BY <1>7 DEF Recheck
  <2>2. pc' = [pc EXCEPT ![a] = "drive"] \/ pc' = [pc EXCEPT ![a] = "idle"]
    BY <1>7 DEF Recheck, Goto
  <2> QED BY <2>1, <2>2, ClaimStands DEF DriverPCs, PCs
<1> QED BY <1>1, <1>2, <1>3, <1>4, <1>5, <1>6, <1>7 DEF Drive

LEMMA ClaimKept == ASSUME Types, DriverOK, [Next]_vars PROVE DriverOK'
<1> USE Names
<1>1. ASSUME NEW a \in Threads, Drive(a) PROVE DriverOK'
  BY <1>1, DriveKeepsClaim
<1>2. CASE \/ AppendEntry \/ Steer \/ Steered \/ SendInterrupt \/ Interrupted \/ Viewer
  <2>1. UNCHANGED driving
    BY <1>2 DEF AppendEntry, Steer, Steered, SendInterrupt, Interrupted, Viewer, Interrupt,
         Submit, RemoveEntry, RunNow, UnchangedInLane
  <2>2. \/ UNCHANGED pc
        \/ /\ pc[Lane] \notin DriverPCs
           /\ \E step \in PCs \ DriverPCs : pc' = [pc EXCEPT ![Lane] = step]
    BY <1>2 DEF AppendEntry, Steer, Steered, SendInterrupt, Interrupted, Viewer, Interrupt,
         Submit, RemoveEntry, RunNow, Goto, PCs, DriverPCs
  <2> QED BY <2>1, <2>2, ClaimStands
<1>3. CASE TakeEvent \/ Effect \/ Reconnect \/ ListThreads \/ ClearRuntime \/ ReadThread
  <2>1. UNCHANGED driving
    BY <1>3 DEF TakeEvent, Effect, Reconnect, ListThreads, ClearRuntime, ReadThread,
         UnchangedInForwarder
  <2>2. pc[Forwarder] \notin DriverPCs
    BY <1>3 DEF TakeEvent, Effect, Reconnect, ListThreads, ClearRuntime, ReadThread, DriverPCs
  <2>3. \E step \in PCs \ DriverPCs : pc' = [pc EXCEPT ![Forwarder] = step]
    <3>1. CASE TakeEvent
      <4> DEFINE step == CASE note' # NoNote                 -> "effect"
                           [] Head(events).kind = "disconnected" -> "reconnect"
                           [] Head(events).kind = "reconnected"  -> "list"
                           [] OTHER                          -> "idle"
      <4>1. pc' = [pc EXCEPT ![Forwarder] = step]
        BY <3>1 DEF TakeEvent, Goto
      <4>2. step \in PCs \ DriverPCs
        BY DEF PCs, DriverPCs
      <4> QED BY <4>1, <4>2
    <3> QED BY <1>3, <3>1 DEF Effect, Reconnect, ListThreads, ClearRuntime, ReadThread, Goto,
              PCs, DriverPCs
  <2> QED BY <2>1, <2>2, <2>3, ClaimStands
<1>4. CASE AppServer
  <2>1. UnchangedInServer
    BY <1>4 DEF AppServer, EndTurn, Disconnect, Aside, Answers, StartTurn, JoinTurn, StopTurn,
         Refuse, Timeout
  <2> QED BY <2>1, ClaimStands DEF UnchangedInServer
<1>5. CASE UNCHANGED vars
  BY <1>5, ClaimStands DEF vars
<1> QED BY <1>1, <1>2, <1>3, <1>4, <1>5 DEF Next, LaneStep, ForwarderStep

LEMMA OneDriverFollows == ASSUME Types, DriverOK PROVE OneDriver
<1>1. CASE Drivers = {}
  <2>1. Cardinality(Drivers) <= 1
    BY <1>1, FS_EmptySet
  <2> QED BY <2>1 DEF OneDriver, DriverOK, Drivers
<1>2. CASE Drivers # {}
  <2>1. PICK a \in Threads : Drivers = {a}
    BY <1>2 DEF DriverOK, Drivers
  <2>2. Cardinality(Drivers) <= 1
    BY <2>1, FS_Singleton
  <2> QED BY <2>2 DEF OneDriver, DriverOK, Drivers
<1> QED BY <1>1, <1>2
-----------------------------------------------------------------------------
(* Steps by which an entry goes nowhere: it may leave the queue, a hand or *)
(* a request, but it comes to no new place.                                *)

AloneInRequests(R) ==
    \A q, r \in R :
        q.kind = r.kind /\ q.entry = r.entry /\ q.kind # "interrupt" => q = r

Settled ==
    /\ UNCHANGED <<submitted, turns, taken>>
    /\ ToSet(entries') \subseteq ToSet(entries)
    /\ ToSet(entries') \ unknown' \subseteq ToSet(entries) \ unknown
    /\ \A r \in requests' :
        \/ r.kind = "interrupt" /\ r.entry = NoEntry
        \/ \E q \in requests : q.kind = r.kind /\ q.entry = r.entry
    /\ AloneInRequests(requests')
    /\ \A a \in Threads : cur'[a] \in {cur[a], NoEntry}
    /\ \A a \in Carriers' : pc'[a] = pc[a] /\ cur'[a] = cur[a]
    /\ pc'[Lane] = "steer" =>
          pc[Lane] = "steer" /\ cur'[Lane] = cur[Lane] /\ cur[Lane] \notin unknown'
    /\ pc'[Lane] = "steering" =>
          pc[Lane] \in {"steer", "steering"} /\ cur'[Lane] = cur[Lane]
    /\ pc[Lane] = "steering" /\ cur[Lane] \in ToSet(entries') \ unknown' =>
          pc'[Lane] = "steering" /\ cur'[Lane] = cur[Lane]

LEMMA SettledPlaces ==
  ASSUME Types, Places, Settled
  PROVE  Places'
<1> USE Assumed
<1>s. \A e : SteeringNow(e) /\ e \in ToSet(entries') \ unknown' => SteeringNow(e)'
  BY DEF Settled, SteeringNow
<1>c. \A a \in Carriers' : a \in Carriers
  BY DEF Settled, Carriers
<1>r. \A r \in Starts' : \E q \in Starts : q.entry = r.entry
  BY DEF Settled, Starts
<1>t. \A r \in Steers' : \E q \in Steers : q.entry = r.entry
  BY DEF Settled, Steers
<1>1. UnsubmittedOK'
  <2> SUFFICES ASSUME NEW e \in Entries \ submitted
               PROVE  /\ taken'[e] = 0
                      /\ \A a \in Threads : cur'[a] # e
                      /\ \A r \in requests' : r.entry # e
    BY DEF UnsubmittedOK, Settled
  <2>1. taken'[e] = 0
    BY DEF Places, UnsubmittedOK, Settled
  <2>2. \A a \in Threads : cur'[a] # e
    BY DEF Places, UnsubmittedOK, Settled
  <2>3. \A r \in requests' : r.entry # e
    BY DEF Places, UnsubmittedOK, Settled
  <2> QED BY <2>1, <2>2, <2>3
<1>2. CarriedOK'
  <2>1. ASSUME NEW a \in Carriers'
        PROVE  /\ cur'[a] \in Entries \ ToSet(entries')
               /\ \A r \in Starts' : r.entry # cur'[a]
    <3>1. a \in Carriers /\ cur'[a] = cur[a]
      BY <1>c, <2>1 DEF Settled
    <3>2. cur[a] \in Entries \ ToSet(entries) /\ \A r \in Starts : r.entry # cur[a]
      BY <3>1 DEF Places, CarriedOK
    <3>3. cur'[a] \in Entries \ ToSet(entries')
      BY <3>1, <3>2 DEF Settled
    <3>4. \A r \in Starts' : r.entry # cur'[a]
      BY <1>r, <3>1, <3>2
    <3> QED BY <3>3, <3>4
  <2>3. ASSUME pc'[Lane] = "append"
        PROVE  taken'[cur'[Lane]] = 0 /\ \A r \in requests' : r.entry # cur'[Lane]
    <3>1. Lane \in Carriers'
      BY <2>3, Names DEF Carriers
    <3>2. Lane \in Carriers /\ cur'[Lane] = cur[Lane] /\ pc[Lane] = "append"
      BY <1>c, <2>3, <3>1 DEF Settled
    <3>3. /\ taken[cur[Lane]] = 0 /\ \A r \in requests : r.entry # cur[Lane]
          /\ cur[Lane] \in Entries
      BY <3>2 DEF Places, CarriedOK
    <3>4. taken'[cur'[Lane]] = 0
      BY <3>2, <3>3 DEF Settled
    <3>5. \A r \in requests' : r.entry # cur'[Lane]
      BY <3>2, <3>3 DEF Settled
    <3> QED BY <3>4, <3>5
  <2>2. \A a, b \in Carriers' : cur'[a] = cur'[b] => a = b
    BY <1>c DEF Settled, Places, CarriedOK
  <2> QED BY <2>1, <2>2, <2>3 DEF CarriedOK
<1>3. StartsOK'
  <2>1. \A r \in Starts' : r.entry \in Entries \ ToSet(entries')
    BY <1>r DEF Settled, Places, StartsOK
  <2>2. \A q, r \in Starts' : q.entry = r.entry => q = r
    BY DEF Settled, AloneInRequests, Starts
  <2> QED BY <2>1, <2>2 DEF StartsOK
<1>4. SteersOK'
  <2>1. pc'[Lane] \in {"steer", "steering"} => cur'[Lane] \in Messages
    BY DEF Settled, Places, SteersOK
  <2>2. pc'[Lane] = "steer" =>
          cur'[Lane] \notin unknown' /\ \A r \in Steers' : r.entry # cur'[Lane]
    BY <1>t DEF Settled, Places, SteersOK
  <2>3. \A r \in Steers' :
          /\ r.entry \in Messages
          /\ r.entry \in ToSet(entries') \ unknown' => SteeringNow(r.entry)'
    BY <1>t, <1>s DEF Settled, Places, SteersOK
  <2>4. \A q, r \in Steers' : q.entry = r.entry => q = r
    BY DEF Settled, AloneInRequests, Steers
  <2> QED BY <2>1, <2>2, <2>3, <2>4 DEF SteersOK
<1>5. TakenOK'
  BY <1>s DEF Settled, Places, TakenOK
<1> QED BY <1>1, <1>2, <1>3, <1>4, <1>5 DEF Places

\* The budget, for a step after which no more may start or be steered.
LEMMA BudgetStands ==
  ASSUME BudgetOK, UNCHANGED <<turns, taken>>, turns \in Nat,
         Startable' \subseteq Startable, Steerable' \subseteq Steerable
  PROVE  BudgetOK'
<1>1. Startable \subseteq Entries
  BY DEF Startable
<1>2. /\ Cardinality(Startable') <= Cardinality(Startable)
      /\ Cardinality(Startable') \in Nat /\ Cardinality(Startable) \in Nat
  BY <1>1, Assumed, FS_Subset, FS_CardinalityType
<1>3. turns' + Cardinality(Startable') <= Cardinality(Entries)
  BY <1>2, Assumed DEF BudgetOK
<1>4. \A e \in Entries :
        /\ taken'[e] <= 2
        /\ e \in Startable' \cup Steerable' => taken'[e] <= 1
        /\ e \in Startable' \cap Steerable' => taken'[e] = 0
  BY DEF BudgetOK
<1> QED BY <1>3, <1>4 DEF BudgetOK

LEMMA SettledKeeps ==
  ASSUME Types, Places, BudgetOK, Settled
  PROVE  Places' /\ BudgetOK'
<1>1. Places'
  BY SettledPlaces
<1>2. Startable' \subseteq Startable
  <2>1. \A a \in Carriers' : a \in Carriers /\ cur'[a] = cur[a]
    BY DEF Settled, Carriers
  <2>2. \A r \in Starts' : \E q \in Starts : q.entry = r.entry
    BY DEF Settled, Starts
  <2>3. submitted' = submitted /\ ToSet(entries') \subseteq ToSet(entries)
    BY DEF Settled
  <2> QED BY <2>1, <2>2, <2>3 DEF Startable
<1>3. Steerable' \subseteq Steerable
  <2>1. \A r \in Steers' : \E q \in Steers : q.entry = r.entry
    BY DEF Settled, Steers
  <2>2. pc'[Lane] \in {"append", "steer"} => pc'[Lane] = pc[Lane] /\ cur'[Lane] = cur[Lane]
    BY Names DEF Settled, Carriers
  <2>3. /\ submitted' = submitted
        /\ ToSet(entries') \ unknown' \subseteq ToSet(entries) \ unknown
    BY DEF Settled
  <2>4. \A e \in ToSet(entries') \ unknown' : SteeringNow(e) => SteeringNow(e)'
    BY DEF Settled, SteeringNow
  <2> QED BY <2>1, <2>2, <2>3, <2>4 DEF Steerable
<1> QED BY <1>1, <1>2, <1>3, BudgetStands DEF Settled, Types
RequestsSettle ==
    /\ \A r \in requests' :
        \/ r.kind = "interrupt" /\ r.entry = NoEntry
        \/ \E q \in requests : q.kind = r.kind /\ q.entry = r.entry
    /\ AloneInRequests(requests')

LEMMA Alone == ASSUME Types, Places PROVE AloneInRequests(requests)
<1>1. \A r \in requests : r \in Starts \/ r \in Steers \/ r.kind = "interrupt"
  BY DEF Types, RequestType, Starts, Steers
<1> QED BY <1>1 DEF AloneInRequests, Places, StartsOK, SteersOK, Starts, Steers

LEMMA FewerRequests ==
  ASSUME Types, Places, requests' \subseteq requests
  PROVE  RequestsSettle
  BY Alone DEF RequestsSettle, AloneInRequests

LEMMA LateRequests ==
  ASSUME Types, Places, NEW who, requests' = Late(who)
  PROVE  RequestsSettle
<1>1. ASSUME NEW r \in requests'
      PROVE  \E q \in requests :
                /\ q.kind = r.kind /\ q.entry = r.entry
                /\ r = IF q.from \in who THEN [q EXCEPT !.from = LateCaller] ELSE q
  <2>1. PICK q \in requests :
          r = IF q.from \in who THEN [q EXCEPT !.from = LateCaller] ELSE q
    BY DEF Late
  <2>2. q \in RequestType
    BY DEF Types
  <2>3. r.kind = q.kind /\ r.entry = q.entry
    BY <2>1, <2>2 DEF RequestType
  <2> QED BY <2>1, <2>3
<1>2. AloneInRequests(requests')
  <2> SUFFICES ASSUME NEW r1 \in requests', NEW r2 \in requests', r1.kind = r2.kind,
                      r1.entry = r2.entry, r1.kind # "interrupt"
               PROVE  r1 = r2
    BY DEF AloneInRequests
  <2>1. PICK q1 \in requests :
          /\ q1.kind = r1.kind /\ q1.entry = r1.entry
          /\ r1 = IF q1.from \in who THEN [q1 EXCEPT !.from = LateCaller] ELSE q1
    BY <1>1
  <2>2. PICK q2 \in requests :
          /\ q2.kind = r2.kind /\ q2.entry = r2.entry
          /\ r2 = IF q2.from \in who THEN [q2 EXCEPT !.from = LateCaller] ELSE q2
    BY <1>1
  <2>3. q1 = q2
    BY <2>1, <2>2, Alone DEF AloneInRequests
  <2> QED BY <2>1, <2>2, <2>3
<1> QED BY <1>1, <1>2 DEF RequestsSettle

LEMMA InterruptSent ==
  ASSUME Types, Places, NEW a \in Threads, NEW t \in SomeTurn,
         requests' = requests \cup {Request(a, "interrupt", NoEntry, t)}
  PROVE  RequestsSettle
<1>1. /\ Request(a, "interrupt", NoEntry, t).kind = "interrupt"
      /\ Request(a, "interrupt", NoEntry, t).entry = NoEntry
  BY RequestsAre
<1> QED BY <1>1, Alone DEF RequestsSettle, AloneInRequests

\* A thread goes on without an entry in hand, or with one it needs no more.
LEMMA HandsSettle ==
  ASSUME Types, UNCHANGED <<submitted, turns, taken>>, RequestsSettle,
         ToSet(entries') \subseteq ToSet(entries), unknown' \subseteq unknown,
         ToSet(entries') \ unknown' \subseteq ToSet(entries) \ unknown,
         NEW a \in Threads, pc[a] # "steering",
         NEW step \in PCs \ {"append", "send", "sendDirect", "steer", "steering"},
         pc' = [pc EXCEPT ![a] = step],
         UNCHANGED cur \/ cur' = [cur EXCEPT ![a] = NoEntry],
         Places
  PROVE  Settled
<1> USE Names
<1>1. \A b \in Threads : b # a => pc'[b] = pc[b] /\ cur'[b] = cur[b]
  BY DEF Types
<1>2. pc'[a] = step /\ cur'[a] \in {cur[a], NoEntry}
  BY DEF Types
<1>3. \A b \in Threads : cur'[b] \in {cur[b], NoEntry}
  BY <1>1, <1>2
<1>4. \A b \in Carriers' : pc'[b] = pc[b] /\ cur'[b] = cur[b]
  BY <1>1, <1>2 DEF Carriers
<1>5. pc'[Lane] = "steer" =>
          pc[Lane] = "steer" /\ cur'[Lane] = cur[Lane] /\ cur[Lane] \notin unknown'
  BY <1>1, <1>2 DEF Places, SteersOK
<1>6. pc'[Lane] = "steering" =>
          pc[Lane] \in {"steer", "steering"} /\ cur'[Lane] = cur[Lane]
  BY <1>1, <1>2
<1>7. pc[Lane] = "steering" => pc'[Lane] = "steering" /\ cur'[Lane] = cur[Lane]
  BY <1>1, <1>2
<1> QED BY <1>3, <1>4, <1>5, <1>6, <1>7 DEF Settled, RequestsSettle

\* No thread moves.
LEMMA OthersSettle ==
  ASSUME Types, UNCHANGED <<submitted, turns, taken, pc, cur>>, RequestsSettle,
         ToSet(entries') \subseteq ToSet(entries), unknown' \subseteq unknown,
         ToSet(entries') \ unknown' \subseteq ToSet(entries) \ unknown,
         Places
  PROVE  Settled
<1>1. pc[Lane] = "steer" => cur[Lane] \notin unknown'
  BY DEF Places, SteersOK
<1> QED BY <1>1 DEF Settled, RequestsSettle, Carriers

LEMMA StoreSettles ==
  ASSUME Types, \/ UNCHANGED store
                \/ Clear
                \/ \E e \in Entries : Without(e) /\ UNCHANGED submitted
  PROVE  /\ ToSet(entries') \subseteq ToSet(entries) /\ unknown' \subseteq unknown
         /\ ToSet(entries') \ unknown' \subseteq ToSet(entries) \ unknown
<1>1. CASE UNCHANGED store
  BY <1>1 DEF store
<1>2. CASE Clear
  BY <1>2, EmptyQueue DEF Clear
<1>3. ASSUME NEW e \in Entries, Without(e), UNCHANGED submitted
      PROVE  /\ ToSet(entries') \subseteq ToSet(entries) /\ unknown' \subseteq unknown
             /\ ToSet(entries') \ unknown' \subseteq ToSet(entries) \ unknown
  <2>1. ToSet(entries') = ToSet(entries) \ {e}
    BY <1>3, WithoutKeepsQueue, TypesParts
  <2> QED BY <1>3, <2>1 DEF Without
<1> QED BY <1>1, <1>2, <1>3
-----------------------------------------------------------------------------
(* Steps by which an entry comes to its next place.                        *)

\* From the queue into the hand of the thread that drives it.
LEMMA PopKeeps ==
  ASSUME Types, Places, BudgetOK, NEW a \in Threads, Pop(a), ~Busy /\ Drivable
  PROVE  Places' /\ BudgetOK'
<1> USE Names
<1>1. /\ entries # <<>> /\ entries' = Tail(entries)
      /\ Head(entries) \notin unknown /\ unknown' = unknown /\ submitted' = submitted
      /\ cur' = [cur EXCEPT ![a] = Head(entries)] /\ pc' = [pc EXCEPT ![a] = "send"]
      /\ pc[a] = "pop" /\ UNCHANGED <<requests, taken, turns>>
  BY DEF Pop, Drivable, UnchangedInDrive, Goto, Holds, appServer
<1>2. PICK e \in Entries : e = Head(entries)
  BY <1>1, Popped DEF Types
<1>3. ToSet(entries') = ToSet(entries) \ {e} /\ e \in ToSet(entries) \ unknown
  BY <1>1, <1>2, Popped DEF Types
<1>4. /\ cur'[a] = e /\ pc'[a] = "send"
      /\ \A b \in Threads : b # a => cur'[b] = cur[b] /\ pc'[b] = pc[b]
  BY <1>1, <1>2 DEF Types
<1>5. Carriers' = Carriers \cup {a} /\ a \notin Carriers
  BY <1>1, <1>4 DEF Carriers
<1>6. \A x : SteeringNow(x)' <=> SteeringNow(x)
  BY <1>1, <1>4 DEF SteeringNow
<1>7. Starts' = Starts /\ Steers' = Steers
  BY <1>1 DEF Starts, Steers
<1>8. e \in submitted
  BY <1>3 DEF Types
<1>p. UnsubmittedOK /\ CarriedOK /\ StartsOK /\ SteersOK /\ TakenOK
  BY DEF Places
<1>9. UnsubmittedOK'
  BY <1>p, <1>1, <1>4, <1>8 DEF UnsubmittedOK
<1>10. CarriedOK'
  <2>1. \A b \in Carriers : b # a /\ cur[b] # e /\ cur'[b] = cur[b]
    BY <1>p, <1>3, <1>4, <1>5 DEF CarriedOK, Carriers
  <2>2. \A r \in Starts : r.entry # e
    BY <1>p, <1>3 DEF StartsOK
  <2>3. \A b \in Carriers' :
          cur'[b] \in Entries \ ToSet(entries') /\ \A r \in Starts' : r.entry # cur'[b]
    BY <1>p, <1>3, <1>4, <1>5, <1>7, <2>1, <2>2 DEF CarriedOK
  <2>4. \A b, c \in Carriers' : cur'[b] = cur'[c] => b = c
    BY <1>p, <1>4, <1>5, <2>1 DEF CarriedOK
  <2>5. pc'[Lane] = "append" =>
          taken'[cur'[Lane]] = 0 /\ \A r \in requests' : r.entry # cur'[Lane]
    BY <1>p, <1>1, <1>4 DEF CarriedOK
  <2> QED BY <2>3, <2>4, <2>5 DEF CarriedOK
<1>11. StartsOK'
  BY <1>p, <1>3, <1>7 DEF StartsOK
<1>12. SteersOK'
  BY <1>p, <1>1, <1>3, <1>4, <1>6, <1>7 DEF SteersOK
<1>13. TakenOK'
  BY <1>p, <1>1, <1>3, <1>6 DEF TakenOK
<1>14. Startable' \subseteq Startable
  BY <1>1, <1>3, <1>4, <1>5, <1>7 DEF Startable, Carriers
<1>15. Steerable' \subseteq Steerable
  BY <1>1, <1>3, <1>4, <1>6, <1>7 DEF Steerable
<1> QED BY <1>1, <1>9, <1>10, <1>11, <1>12, <1>13, <1>14, <1>15, BudgetStands DEF Places, Types

\* From the hand into a request that starts a turn.
LEMMA SendKeeps ==
  ASSUME Types, Places, BudgetOK, NEW a \in Threads, Send(a),
         Sends(a, Request(a, "start", cur[a], NoTurn)),
         UNCHANGED cur,
         Goto(a, IF pc[a] = "send" THEN "await" ELSE "awaitDirect")
  PROVE  Places' /\ BudgetOK'
<1> USE Names
<1>p. UnsubmittedOK /\ CarriedOK /\ StartsOK /\ SteersOK /\ TakenOK
  BY DEF Places
<1>1. /\ a \in Carriers /\ pc[a] \in {"send", "sendDirect"}
      /\ UNCHANGED <<entries, unknown, submitted, taken, turns, cur>>
  BY DEF Send, UnchangedInDrive, Carriers, store, appServer
<1>2. PICK e \in Entries : e = cur[a]
  BY <1>p, <1>1 DEF CarriedOK
<1>3. PICK q \in RequestType :
        q = Request(a, "start", e, NoTurn) /\ q.kind = "start" /\ q.entry = e
  BY <1>2, RequestsAre, Values
<1>4. requests' = requests \cup {q}
  BY <1>2, <1>3 DEF Sends
<1>5. /\ pc'[a] \in {"await", "awaitDirect"}
      /\ \A b \in Threads : b # a => pc'[b] = pc[b]
  BY DEF Goto, Types
<1>6. Carriers' = Carriers \ {a}
  BY <1>5 DEF Carriers
<1>7. \A x : SteeringNow(x)' <=> SteeringNow(x)
  BY <1>1, <1>5 DEF SteeringNow
<1>8. Starts' = Starts \cup {q} /\ Steers' = Steers
  BY <1>3, <1>4 DEF Starts, Steers
<1>9. UnsubmittedOK'
  BY <1>p, <1>1, <1>2, <1>3, <1>4 DEF UnsubmittedOK
<1>10. \A b \in Carriers' : b \in Carriers /\ cur[b] # e
  BY <1>p, <1>1, <1>2, <1>6 DEF CarriedOK
<1>11. CarriedOK'
  <2>1. \A b \in Carriers' :
          cur'[b] \in Entries \ ToSet(entries') /\ \A r \in Starts' : r.entry # cur'[b]
    BY <1>p, <1>1, <1>3, <1>8, <1>10 DEF CarriedOK
  <2>2. ASSUME pc'[Lane] = "append"
        PROVE  taken'[cur'[Lane]] = 0 /\ \A r \in requests' : r.entry # cur'[Lane]
    <3>1. Lane # a /\ pc[Lane] = "append"
      BY <1>5, <2>2
    <3>2. Lane \in Carriers'
      BY <2>2 DEF Carriers
    <3> QED BY <1>p, <1>1, <1>3, <1>4, <1>10, <3>1, <3>2 DEF CarriedOK
  <2>3. \A b, c \in Carriers' : cur'[b] = cur'[c] => b = c
    BY <1>p, <1>1, <1>6 DEF CarriedOK
  <2> QED BY <2>1, <2>2, <2>3 DEF CarriedOK
<1>12. StartsOK'
  <2>1. e \in Entries \ ToSet(entries) /\ \A r \in Starts : r.entry # e
    BY <1>p, <1>1, <1>2 DEF CarriedOK
  <2> QED BY <1>p, <1>1, <1>3, <1>8, <2>1 DEF StartsOK
<1>13. SteersOK'
  BY <1>p, <1>1, <1>5, <1>7, <1>8 DEF SteersOK
<1>14. TakenOK'
  BY <1>p, <1>1, <1>7 DEF TakenOK
<1>15. Startable' \subseteq Startable
  BY <1>1, <1>2, <1>3, <1>6, <1>8 DEF Startable
<1>16. Steerable' \subseteq Steerable
  BY <1>1, <1>5, <1>7, <1>8 DEF Steerable
<1> QED BY <1>1, <1>9, <1>11, <1>12, <1>13, <1>14, <1>15, <1>16, BudgetStands DEF Places, Types

LEMMA DriveKeeps ==
  ASSUME Types, Places, BudgetOK, NEW a \in Threads, Drive(a)
  PROVE  Places' /\ BudgetOK'
<1> USE Names
<1>1. CASE Claim(a)
  <2>1. \E step \in {"idle", "pop"} : pc' = [pc EXCEPT ![a] = step]
    BY <1>1 DEF Claim, Goto
  <2>2. /\ UNCHANGED <<submitted, turns, taken, cur>> /\ requests' \subseteq requests
        /\ UNCHANGED store /\ pc[a] # "steering"
    BY <1>1 DEF Claim, UnchangedInDrive, appServer
  <2> QED BY <2>1, <2>2, FewerRequests, StoreSettles, HandsSettle, SettledKeeps DEF PCs
<1>2. CASE Pop(a)
  <2>1. CASE ~Busy /\ Drivable
    BY <1>2, <2>1, PopKeeps
  <2>2. CASE ~ (~Busy /\ Drivable)
    <3>1. /\ UNCHANGED <<submitted, turns, taken, cur>> /\ requests' \subseteq requests
          /\ UNCHANGED store /\ pc[a] # "steering" /\ pc' = [pc EXCEPT ![a] = "release"]
      BY <1>2, <2>2 DEF Pop, UnchangedInDrive, appServer, store, Goto
    <3> QED BY <3>1, FewerRequests, StoreSettles, HandsSettle, SettledKeeps DEF PCs
  <2> QED BY <2>1, <2>2
<1>3. CASE Send(a)
  <2>1. /\ UNCHANGED <<submitted, turns, taken>> /\ UNCHANGED store /\ pc[a] # "steering"
    BY <1>3 DEF Send, UnchangedInDrive, appServer
  <2>2. CASE /\ Sends(a, Request(a, "start", cur[a], NoTurn)) /\ UNCHANGED cur
             /\ Goto(a, IF pc[a] = "send" THEN "await" ELSE "awaitDirect")
    BY <1>3, <2>2, SendKeeps
  <2>3. CASE /\ requests' \subseteq requests
             /\ UNCHANGED cur \/ cur' = [cur EXCEPT ![a] = NoEntry]
             /\ \E step \in {"await", "awaitDirect", "clear", "idle"} : pc' = [pc EXCEPT ![a] = step]
    BY <2>1, <2>3, FewerRequests, StoreSettles, HandsSettle, SettledKeeps DEF PCs
  <2> QED BY <1>3, <2>2, <2>3 DEF Send, Fails, Goto, Holds
<1>4. CASE Dispatched(a)
  <2>1. /\ UNCHANGED <<submitted, turns, taken>> /\ requests' \subseteq requests
        /\ UNCHANGED store /\ pc[a] # "steering" /\ cur' = [cur EXCEPT ![a] = NoEntry]
    BY <1>4 DEF Dispatched, UnchangedInDrive, appServer, Holds
  <2>2. \E step \in {"done", "clear", "idle"} : pc' = [pc EXCEPT ![a] = step]
    BY <1>4 DEF Dispatched, Goto
  <2> QED BY <2>1, <2>2, FewerRequests, StoreSettles, HandsSettle, SettledKeeps DEF PCs
<1>5. CASE DropQueue(a)
  <2>1. /\ UNCHANGED <<submitted, turns, taken, cur>> /\ requests' \subseteq requests
        /\ Clear /\ pc[a] # "steering" /\ pc' = [pc EXCEPT ![a] = "release"]
    BY <1>5 DEF DropQueue, UnchangedInDrive, appServer, Goto
  <2> QED BY <2>1, FewerRequests, StoreSettles, HandsSettle, SettledKeeps DEF PCs
<1>6. CASE Release(a)
  <2>1. /\ UNCHANGED <<submitted, turns, taken, cur>> /\ requests' \subseteq requests
        /\ UNCHANGED store /\ pc[a] # "steering"
        /\ \E step \in {"idle", "recheck"} : pc' = [pc EXCEPT ![a] = step]
    BY <1>6 DEF Release, UnchangedInDrive, appServer, Goto
  <2> QED BY <2>1, FewerRequests, StoreSettles, HandsSettle, SettledKeeps DEF PCs
<1>7. CASE Recheck(a)
  <2>1. /\ UNCHANGED <<submitted, turns, taken, cur>> /\ requests' \subseteq requests
        /\ UNCHANGED store /\ pc[a] # "steering"
        /\ \E step \in {"idle", "drive"} : pc' = [pc EXCEPT ![a] = step]
    BY <1>7 DEF Recheck, UnchangedInDrive, appServer, Goto
  <2> QED BY <2>1, FewerRequests, StoreSettles, HandsSettle, SettledKeeps DEF PCs
<1> QED BY <1>1, <1>2, <1>3, <1>4, <1>5, <1>6, <1>7 DEF Drive
\* From nowhere into the lane's hand.
LEMMA SubmitKeeps ==
  ASSUME Types, Places, BudgetOK, NEW e \in Entries, Submit(e)
  PROVE  Places' /\ BudgetOK'
<1> USE Names
<1>p. UnsubmittedOK /\ CarriedOK /\ StartsOK /\ SteersOK /\ TakenOK
  BY DEF Places
<1>1. /\ pc[Lane] = "idle" /\ e \notin submitted /\ submitted' = submitted \cup {e}
      /\ UNCHANGED <<entries, unknown, requests, taken, turns>>
      /\ Starts' = Starts /\ Steers' = Steers
  BY DEF Submit, NoTraffic, UnchangedInLane, store, appServer, Starts, Steers
<1>2. /\ taken[e] = 0 /\ \A a \in Threads : cur[a] # e
      /\ \A r \in requests : r.entry # e
      /\ e \notin ToSet(entries)
  BY <1>p, <1>1 DEF UnsubmittedOK, Types
<1>3. CASE UNCHANGED <<pc, cur>>
  <2>1. Carriers' = Carriers /\ \A x : SteeringNow(x)' <=> SteeringNow(x)
    BY <1>3 DEF Carriers, SteeringNow
  <2>2. UnsubmittedOK' /\ CarriedOK' /\ StartsOK' /\ SteersOK' /\ TakenOK'
    BY <1>p, <1>1, <1>3, <2>1 DEF UnsubmittedOK, CarriedOK, StartsOK, SteersOK, TakenOK
  <2>3. Startable' \subseteq Startable /\ Steerable' \subseteq Steerable
    BY <1>1, <1>3, <2>1 DEF Startable, Steerable
  <2> QED BY <1>1, <2>2, <2>3, BudgetStands DEF Places, Types
<1>4. ASSUME NEW step \in {"sendDirect", "append"},
             pc' = [pc EXCEPT ![Lane] = step], cur' = [cur EXCEPT ![Lane] = e]
      PROVE  Places' /\ BudgetOK'
  <2>1. /\ pc'[Lane] = step /\ cur'[Lane] = e
        /\ \A a \in Threads : a # Lane => pc'[a] = pc[a] /\ cur'[a] = cur[a]
    BY <1>4 DEF Types
  <2>2. Carriers' = Carriers \cup {Lane} /\ Lane \notin Carriers
    BY <1>1, <2>1 DEF Carriers
  <2>3. \A x : ~SteeringNow(x)' /\ ~SteeringNow(x)
    BY <1>1, <2>1 DEF SteeringNow
  <2>4. UnsubmittedOK'
    BY <1>p, <1>1, <2>1 DEF UnsubmittedOK
  <2>5. CarriedOK'
    <3>1. \A a \in Carriers : a # Lane /\ cur'[a] = cur[a] /\ cur[a] # e
      BY <1>2, <2>1, <2>2 DEF Carriers
    <3>2. \A a \in Carriers' :
            cur'[a] \in Entries \ ToSet(entries') /\ \A r \in Starts' : r.entry # cur'[a]
      BY <1>p, <1>1, <1>2, <2>1, <2>2, <3>1 DEF CarriedOK, Starts
    <3>3. \A a, b \in Carriers' : cur'[a] = cur'[b] => a = b
      BY <1>p, <2>1, <2>2, <3>1 DEF CarriedOK
    <3>4. taken'[cur'[Lane]] = 0 /\ \A r \in requests' : r.entry # cur'[Lane]
      BY <1>1, <1>2, <2>1
    <3> QED BY <3>2, <3>3, <3>4 DEF CarriedOK
  <2>6. StartsOK' /\ SteersOK' /\ TakenOK'
    BY <1>p, <1>1, <2>1, <2>3 DEF StartsOK, SteersOK, TakenOK
  <2>7. Startable' \subseteq Startable
    BY <1>1, <2>1, <2>2 DEF Startable, Carriers
  <2>8. Steerable' \subseteq Steerable
    BY <1>1, <2>1, <2>3 DEF Steerable
  <2> QED BY <1>1, <2>4, <2>5, <2>6, <2>7, <2>8, BudgetStands DEF Places, Types
<1>5. \/ UNCHANGED <<pc, cur>>
      \/ /\ cur' = [cur EXCEPT ![Lane] = e]
         /\ \E step \in {"sendDirect", "append"} : pc' = [pc EXCEPT ![Lane] = step]
  BY DEF Submit, Goto, Holds
<1> QED BY <1>3, <1>4, <1>5

\* From the lane's hand into the queue.
LEMMA AppendKeeps ==
  ASSUME Types, Places, BudgetOK, AppendEntry
  PROVE  Places' /\ BudgetOK'
<1> USE Names
<1>p. UnsubmittedOK /\ CarriedOK /\ StartsOK /\ SteersOK /\ TakenOK
  BY DEF Places
<1>1. /\ pc[Lane] = "append" /\ entries' = Append(entries, cur[Lane])
      /\ UNCHANGED <<unknown, submitted, requests, taken, turns>>
      /\ cur' = [cur EXCEPT ![Lane] = NoEntry] /\ pc' = [pc EXCEPT ![Lane] = "drive"]
      /\ Starts' = Starts /\ Steers' = Steers /\ Lane \in Carriers
  BY DEF AppendEntry, NoTraffic, UnchangedInLane, appServer, Starts, Steers, Goto, Holds, Carriers
<1>2. PICK e \in Entries : e = cur[Lane]
  BY <1>p, <1>1 DEF CarriedOK
<1>3. /\ e \notin ToSet(entries) /\ e \notin unknown /\ e \in submitted
      /\ taken[e] = 0 /\ \A r \in requests : r.entry # e
  BY <1>p, <1>1, <1>2 DEF CarriedOK, UnsubmittedOK, Types
<1>4. ToSet(entries') = ToSet(entries) \cup {e}
  BY <1>1, <1>2, <1>3, Put DEF Types
<1>5. /\ pc'[Lane] = "drive" /\ cur'[Lane] = NoEntry
      /\ \A a \in Threads : a # Lane => pc'[a] = pc[a] /\ cur'[a] = cur[a]
  BY <1>1 DEF Types
<1>6. Carriers' = Carriers \ {Lane}
  BY <1>5 DEF Carriers
<1>7. \A x : ~SteeringNow(x)' /\ ~SteeringNow(x)
  BY <1>1, <1>5 DEF SteeringNow
<1>8. UnsubmittedOK'
  BY <1>p, <1>1, <1>5, Assumed DEF UnsubmittedOK
<1>9. CarriedOK'
  <2>1. \A a \in Carriers' : a \in Carriers /\ a # Lane /\ cur'[a] = cur[a] /\ cur[a] # e
    BY <1>p, <1>1, <1>2, <1>5, <1>6 DEF CarriedOK, Carriers
  <2>2. \A a \in Carriers' :
          cur'[a] \in Entries \ ToSet(entries') /\ \A r \in Starts' : r.entry # cur'[a]
    BY <1>p, <1>1, <1>4, <2>1 DEF CarriedOK
  <2>3. \A a, b \in Carriers' : cur'[a] = cur'[b] => a = b
    BY <1>p, <2>1 DEF CarriedOK
  <2> QED BY <1>5, <2>2, <2>3 DEF CarriedOK
<1>10. StartsOK'
  BY <1>p, <1>1, <1>3, <1>4 DEF StartsOK, Starts
<1>11. SteersOK'
  BY <1>p, <1>1, <1>3, <1>4, <1>5, <1>7 DEF SteersOK, Steers
<1>12. TakenOK'
  <2>1. \A x \in ToSet(entries') \ unknown' : taken'[x] > 0 => x \in ToSet(entries) \ unknown
    BY <1>1, <1>3, <1>4
  <2> QED BY <1>p, <1>1, <1>7, <2>1 DEF TakenOK
<1>13. Startable' \subseteq Startable
  BY <1>1, <1>2, <1>4, <1>5, <1>6 DEF Startable, Carriers
<1>14. Steerable' \subseteq Steerable
  BY <1>1, <1>2, <1>4, <1>5, <1>7 DEF Steerable
<1> QED BY <1>1, <1>8, <1>9, <1>10, <1>11, <1>12, <1>13, <1>14, BudgetStands DEF Places, Types

\* A message that is to be steered stays in the queue.
LEMMA RunNowKeeps ==
  ASSUME Types, Places, BudgetOK, NEW e \in Entries, RunNow(e)
  PROVE  Places' /\ BudgetOK'
<1> USE Names
<1>p. UnsubmittedOK /\ CarriedOK /\ StartsOK /\ SteersOK /\ TakenOK
  BY DEF Places
<1>1. /\ pc[Lane] = "idle" /\ e \in ToSet(entries) \ unknown /\ e \in Messages
      /\ UNCHANGED <<entries, unknown, submitted, requests, taken, turns>>
      /\ Starts' = Starts /\ Steers' = Steers
  BY InQueueIsMember DEF RunNow, NoTraffic, UnchangedInLane, store, appServer, Starts, Steers
<1>2. CASE pc' = [pc EXCEPT ![Lane] = "drive"] /\ UNCHANGED cur
  <2>1. UNCHANGED store /\ requests' \subseteq requests
    BY <1>1 DEF store
  <2> QED BY <1>1, <1>2, <2>1, FewerRequests, StoreSettles, HandsSettle, SettledKeeps DEF PCs
<1>3. CASE pc' = [pc EXCEPT ![Lane] = "steer"] /\ cur' = [cur EXCEPT ![Lane] = e]
  <2>1. /\ pc'[Lane] = "steer" /\ cur'[Lane] = e
        /\ \A a \in Threads : a # Lane => pc'[a] = pc[a] /\ cur'[a] = cur[a]
    BY <1>3 DEF Types
  <2>2. Carriers' = Carriers /\ Lane \notin Carriers /\ \A a \in Carriers : cur'[a] = cur[a]
    BY <1>1, <2>1 DEF Carriers
  <2>3. \A x : ~SteeringNow(x)' /\ ~SteeringNow(x)
    BY <1>1, <2>1 DEF SteeringNow
  <2>4. UnsubmittedOK'
    BY <1>p, <1>1, <2>1 DEF UnsubmittedOK, Types
  <2>5. CarriedOK'
    BY <1>p, <1>1, <2>1, <2>2 DEF CarriedOK
  <2>6. StartsOK' /\ TakenOK'
    BY <1>p, <1>1, <2>3 DEF StartsOK, TakenOK
  <2>7. SteersOK'
    BY <1>p, <1>1, <2>1, <2>3 DEF SteersOK
  <2>8. Startable' \subseteq Startable
    BY <1>1, <2>2 DEF Startable
  <2>9. Steerable' \subseteq Steerable
    BY <1>1, <2>1, <2>3 DEF Steerable
  <2> QED BY <1>1, <2>4, <2>5, <2>6, <2>7, <2>8, <2>9, BudgetStands DEF Places, Types
<1> QED BY <1>2, <1>3 DEF RunNow, Goto, Holds

\* From the lane's hand into a request to steer.
LEMMA SteerKeeps ==
  ASSUME Types, Places, BudgetOK, Steer
  PROVE  Places' /\ BudgetOK'
<1> USE Names
<1>p. UnsubmittedOK /\ CarriedOK /\ StartsOK /\ SteersOK /\ TakenOK
  BY DEF Places
<1>1. /\ pc[Lane] = "steer" /\ pc' = [pc EXCEPT ![Lane] = "steering"]
      /\ UNCHANGED <<entries, unknown, submitted, taken, turns, cur>>
  BY DEF Steer, UnchangedInLane, store, appServer, Goto
<1>2. PICK e \in Messages : e = cur[Lane]
  BY <1>p, <1>1 DEF SteersOK
<1>3. /\ pc'[Lane] = "steering"
      /\ \A a \in Threads : a # Lane => pc'[a] = pc[a]
  BY <1>1 DEF Types
<1>4. Carriers' = Carriers /\ Lane \notin Carriers
  BY <1>1, <1>3 DEF Carriers
<1>5. CASE Fails(Lane)
  <2>1. RequestsSettle
    BY <1>5, FewerRequests DEF Fails
  <2>2. \A a \in Carriers' : pc'[a] = pc[a]
    BY <1>3, <1>4 DEF Carriers
  <2>3. Settled
    BY <1>1, <1>3, <2>1, <2>2 DEF Settled, RequestsSettle
  <2> QED BY <2>3, SettledKeeps
<1>6. CASE Sends(Lane, Request(Lane, "steer", cur[Lane], aim))
  <2>1. PICK q : q = Request(Lane, "steer", e, aim) /\ q.kind = "steer" /\ q.entry = e
    BY <1>2, RequestsAre, Assumed DEF Types
  <2>2. requests' = requests \cup {q}
    BY <1>2, <1>6, <2>1 DEF Sends
  <2>3. Starts' = Starts /\ Steers' = Steers \cup {q}
    BY <2>1, <2>2 DEF Starts, Steers
  <2>4. SteeringNow(e)' /\ \A x : ~SteeringNow(x)
    BY <1>1, <1>2, <1>3 DEF SteeringNow
  <2>5. UnsubmittedOK'
    BY <1>p, <1>1, <1>2, <2>1, <2>2 DEF UnsubmittedOK
  <2>6. CarriedOK'
    <3>1. \A a \in Carriers' :
            cur'[a] \in Entries \ ToSet(entries') /\ \A r \in Starts' : r.entry # cur'[a]
      BY <1>p, <1>1, <1>4, <2>3 DEF CarriedOK
    <3>2. \A a, b \in Carriers' : cur'[a] = cur'[b] => a = b
      BY <1>p, <1>1, <1>4 DEF CarriedOK
    <3> QED BY <1>3, <3>1, <3>2 DEF CarriedOK
  <2>7. StartsOK'
    BY <1>p, <1>1, <2>3 DEF StartsOK
  <2>8. TakenOK'
    BY <1>p, <1>1, <2>4 DEF TakenOK
  <2>9. SteersOK'
    <3>1. \A r \in Steers : r.entry # e /\ r.entry \notin ToSet(entries) \ unknown
      BY <1>p, <1>1, <1>2, <2>4 DEF SteersOK
    <3>2. \A r \in Steers' :
            /\ r.entry \in Messages
            /\ r.entry \in ToSet(entries') \ unknown' => SteeringNow(r.entry)'
      BY <1>p, <1>1, <2>1, <2>3, <2>4, <3>1 DEF SteersOK
    <3>3. \A r1, r2 \in Steers' : r1.entry = r2.entry => r1 = r2
      BY <1>p, <2>1, <2>3, <3>1 DEF SteersOK
    <3>4. cur'[Lane] \in Messages
      BY <1>1, <1>2
    <3> QED BY <1>3, <3>2, <3>3, <3>4 DEF SteersOK
  <2>10. Startable' \subseteq Startable
    BY <1>1, <1>4, <2>3 DEF Startable
  <2>11. Steerable' \subseteq Steerable
    BY <1>1, <1>2, <1>3, <2>1, <2>3, <2>4 DEF Steerable
  <2> QED BY <1>1, <2>5, <2>6, <2>7, <2>8, <2>9, <2>10, <2>11, BudgetStands DEF Places, Types
<1> QED BY <1>5, <1>6 DEF Steer

\* After the answer to a steered message it is out of the queue or marked.
LEMMA SteeredKeeps ==
  ASSUME Types, Places, BudgetOK, Steered
  PROVE  Places' /\ BudgetOK'
<1> USE Names
<1>1. /\ pc[Lane] = "steering" /\ pc' = [pc EXCEPT ![Lane] = "idle"]
      /\ UNCHANGED <<submitted, taken, turns, requests>>
      /\ cur' = [cur EXCEPT ![Lane] = NoEntry]
  BY DEF Steered, UnchangedInLane, appServer, Goto, Holds
<1>2. PICK e \in Entries : e = cur[Lane]
  BY <1>1, Assumed DEF Places, SteersOK
<1>3. /\ ToSet(entries') \subseteq ToSet(entries)
      /\ ToSet(entries') \ unknown' \subseteq ToSet(entries) \ unknown
      /\ e \notin ToSet(entries') \ unknown'
  <2>1. CASE Without(e)
    <3>1. ToSet(entries') = ToSet(entries) \ {e}
      BY <1>1, <2>1, WithoutKeepsQueue, TypesParts
    <3> QED BY <2>1, <3>1 DEF Without
  <2>2. CASE Quarantine(e)
    BY <2>2, InQueueIsMember DEF Quarantine
  <2> QED BY <1>2, <2>1, <2>2 DEF Steered
<1>4. RequestsSettle
  BY <1>1, FewerRequests
<1>5. /\ pc'[Lane] = "idle" /\ cur'[Lane] = NoEntry
      /\ \A a \in Threads : a # Lane => pc'[a] = pc[a] /\ cur'[a] = cur[a]
  BY <1>1 DEF Types
<1>6. \A a \in Carriers' : pc'[a] = pc[a] /\ cur'[a] = cur[a]
  BY <1>5 DEF Carriers
<1>7. Settled
  BY <1>1, <1>2, <1>3, <1>4, <1>5, <1>6 DEF Settled, RequestsSettle
<1> QED BY <1>7, SettledKeeps
LEMMA LaneKeeps ==
  ASSUME Types, Places, BudgetOK,
         \/ AppendEntry \/ Steer \/ Steered \/ SendInterrupt \/ Interrupted \/ Viewer
  PROVE  Places' /\ BudgetOK'
<1> USE Names
<1>1. CASE SendInterrupt
  <2>1. /\ UNCHANGED <<submitted, turns, taken, cur>> /\ UNCHANGED store
        /\ pc[Lane] # "steering" /\ pc' = [pc EXCEPT ![Lane] = "interrupting"]
    BY <1>1 DEF SendInterrupt, UnchangedInLane, appServer, Goto
  <2>2. RequestsSettle
    BY <1>1, FewerRequests, InterruptSent DEF SendInterrupt, Sends, Fails, Types
  <2> QED BY <2>1, <2>2, StoreSettles, HandsSettle, SettledKeeps DEF PCs
<1>2. CASE Interrupted
  <2>1. /\ UNCHANGED <<submitted, turns, taken, cur>> /\ UNCHANGED store
        /\ requests' \subseteq requests
        /\ pc[Lane] # "steering" /\ pc' = [pc EXCEPT ![Lane] = "idle"]
    BY <1>2 DEF Interrupted, UnchangedInLane, appServer, Goto
  <2> QED BY <2>1, FewerRequests, StoreSettles, HandsSettle, SettledKeeps DEF PCs
<1>3. CASE Interrupt
  <2>1. /\ UNCHANGED <<submitted, turns, taken, cur>> /\ Clear
        /\ requests' \subseteq requests /\ pc[Lane] # "steering"
        /\ \E step \in {"idle", "interrupt"} : pc' = [pc EXCEPT ![Lane] = step]
    BY <1>3 DEF Interrupt, UnchangedInLane, NoTraffic, appServer, Goto
  <2> QED BY <2>1, FewerRequests, StoreSettles, HandsSettle, SettledKeeps DEF PCs
<1>4. ASSUME NEW e \in Entries, RemoveEntry(e) PROVE Places' /\ BudgetOK'
  <2>1. /\ UNCHANGED <<submitted, turns, taken, pc, cur>> /\ Without(e)
        /\ requests' \subseteq requests
    BY <1>4 DEF RemoveEntry, UnchangedInLane, NoTraffic, appServer
  <2> QED BY <2>1, FewerRequests, StoreSettles, OthersSettle, SettledKeeps
<1> QED BY <1>1, <1>2, <1>3, <1>4, AppendKeeps, SteerKeeps, SteeredKeeps, SubmitKeeps, RunNowKeeps
        DEF Viewer

LEMMA ForwarderKeeps ==
  ASSUME Types, Places, BudgetOK,
         TakeEvent \/ Effect \/ Reconnect \/ ListThreads \/ ClearRuntime \/ ReadThread
  PROVE  Places' /\ BudgetOK'
<1> USE Names
<1>1. /\ UNCHANGED <<submitted, turns, taken, cur>>
      /\ \/ UNCHANGED store
         \/ Clear
      /\ requests' \subseteq requests /\ pc[Forwarder] # "steering"
  BY DEF TakeEvent, Effect, Reconnect, ListThreads, ClearRuntime, ReadThread,
     UnchangedInForwarder, NoTraffic, appServer
<1>2. \E step \in PCs \ {"append", "send", "sendDirect", "steer", "steering"} :
        pc' = [pc EXCEPT ![Forwarder] = step]
  <2>1. CASE TakeEvent
    <3> DEFINE step == CASE note' # NoNote                 -> "effect"
                         [] Head(events).kind = "disconnected" -> "reconnect"
                         [] Head(events).kind = "reconnected"  -> "list"
                         [] OTHER                          -> "idle"
    <3>1. pc' = [pc EXCEPT ![Forwarder] = step]
      BY <2>1 DEF TakeEvent, Goto
    <3>2. step \in PCs \ {"append", "send", "sendDirect", "steer", "steering"}
      BY DEF PCs
    <3> QED BY <3>1, <3>2
  <2> QED BY <2>1 DEF Effect, Reconnect, ListThreads, ClearRuntime, ReadThread, Goto, PCs
<1> QED BY <1>1, <1>2, FewerRequests, StoreSettles, HandsSettle, SettledKeeps

\* The app server takes an entry, into a new turn or into the running one.
LEMMA TakingKeeps ==
  ASSUME Types, Places, BudgetOK, NEW r \in requests,
         r.kind = "start" \/ (r.kind = "steer" /\ turns' = turns),
         turns' = turns \/ turns' = turns + 1,
         requests' = requests \ {r}, taken' = [taken EXCEPT ![r.entry] = @ + 1],
         UNCHANGED <<entries, unknown, submitted, pc, cur>>
  PROVE  Places' /\ BudgetOK'
<1>p. UnsubmittedOK /\ CarriedOK /\ StartsOK /\ SteersOK /\ TakenOK
  BY DEF Places
<1>1. r \in Starts \/ r \in Steers
  BY DEF Starts, Steers
<1>2. PICK e \in Entries : e = r.entry
  BY <1>p, <1>1, Assumed DEF StartsOK, SteersOK
<1>3. /\ Starts' = Starts \ {r} /\ Steers' = Steers \ {r}
      /\ Carriers' = Carriers /\ \A x : SteeringNow(x)' <=> SteeringNow(x)
  BY DEF Starts, Steers, Carriers, SteeringNow
<1>4. /\ taken' \in [Entries -> Nat] /\ taken'[e] = taken[e] + 1 /\ taken[e] \in Nat
      /\ \A x \in Entries : x # e => taken'[x] = taken[x]
  BY <1>2 DEF Types
<1>5. e \in submitted
  BY <1>p, <1>2 DEF UnsubmittedOK
<1>6. UnsubmittedOK'
  BY <1>p, <1>2, <1>4, <1>5 DEF UnsubmittedOK
<1>7. CarriedOK'
  <2>1. pc'[Lane] = "append" =>
          taken'[cur'[Lane]] = 0 /\ \A q \in requests' : q.entry # cur'[Lane]
    <3>1. ASSUME pc[Lane] = "append" PROVE cur[Lane] \in Entries
      BY <1>p, <3>1, Names DEF CarriedOK, Carriers
    <3> QED BY <1>p, <1>2, <1>4, <3>1 DEF CarriedOK
  <2>2. \A a \in Carriers' :
          cur'[a] \in Entries \ ToSet(entries') /\ \A q \in Starts' : q.entry # cur'[a]
    BY <1>p, <1>3 DEF CarriedOK
  <2>3. \A a, b \in Carriers' : cur'[a] = cur'[b] => a = b
    BY <1>p, <1>3 DEF CarriedOK
  <2> QED BY <2>1, <2>2, <2>3 DEF CarriedOK
<1>8. StartsOK' /\ SteersOK'
  BY <1>p, <1>3 DEF StartsOK, SteersOK
<1>9. TakenOK'
  <2>1. e \in ToSet(entries) \ unknown => SteeringNow(e)
    BY <1>p, <1>1, <1>2 DEF StartsOK, SteersOK
  <2>2. ToSet(entries) \subseteq Entries
    BY DEF Types
  <2> QED BY <1>p, <1>3, <1>4, <2>1, <2>2 DEF TakenOK
<1>10. Places'
  BY <1>6, <1>7, <1>8, <1>9 DEF Places
<1>11. Startable' \subseteq Startable /\ Steerable' \subseteq Steerable
  BY <1>3 DEF Startable, Steerable
<1>12. r \in Starts => e \in Startable \ Startable'
  <2> SUFFICES ASSUME r \in Starts PROVE e \in Startable \ Startable'
    OBVIOUS
  <2>1. e \in Startable
    BY <1>2 DEF Startable
  <2>2. e \notin ToSet(entries) /\ \A a \in Carriers : cur[a] # e
    BY <1>p, <1>2 DEF StartsOK, CarriedOK
  <2>3. \A q \in Starts' : q.entry # e
    BY <1>p, <1>2, <1>3 DEF StartsOK
  <2> QED BY <1>3, <1>5, <2>1, <2>2, <2>3 DEF Startable
<1>13. r \in Steers => e \in Steerable \ Steerable'
  <2> SUFFICES ASSUME r \in Steers PROVE e \in Steerable \ Steerable'
    OBVIOUS
  <2>1. e \in Steerable
    BY <1>2 DEF Steerable
  <2>2. e \in ToSet(entries) \ unknown => SteeringNow(e)
    BY <1>p, <1>2 DEF SteersOK
  <2>3. ~ (pc[Lane] \in {"append", "steer"} /\ cur[Lane] = e)
    BY <1>p, <1>2 DEF SteersOK, CarriedOK
  <2>4. \A q \in Steers' : q.entry # e
    BY <1>p, <1>2, <1>3 DEF SteersOK
  <2> QED BY <1>3, <1>5, <2>1, <2>2, <2>3, <2>4 DEF Steerable
<1>14. turns' + Cardinality(Startable') <= Cardinality(Entries)
  <2>1. Startable \subseteq Entries
    BY DEF Startable
  <2>2. /\ IsFiniteSet(Startable) /\ Cardinality(Startable) \in Nat
        /\ Cardinality(Startable') \in Nat
        /\ Cardinality(Startable') <= Cardinality(Startable)
    BY <1>11, <2>1, Assumed, FS_Subset, FS_CardinalityType
  <2>3. CASE r.kind = "steer"
    BY <2>2, <2>3, Assumed DEF BudgetOK, Types
  <2>4. CASE r.kind = "start"
    <3>1. e \in Startable /\ Startable' \subseteq Startable \ {e}
      BY <1>11, <1>12, <2>4 DEF Starts
    <3>2. /\ IsFiniteSet(Startable \ {e})
          /\ Cardinality(Startable \ {e}) = Cardinality(Startable) - 1
      BY <2>2, <3>1, FS_RemoveElement
    <3>3. Cardinality(Startable') <= Cardinality(Startable \ {e})
      BY <3>1, <3>2, FS_Subset
    <3>4. turns + Cardinality(Startable) <= Cardinality(Entries) /\ turns \in Nat
      BY DEF BudgetOK, Types
    <3>5. turns' <= turns + 1 /\ turns' \in Nat
      BY <2>4, <3>4
    <3> QED BY <2>2, <3>2, <3>3, <3>4, <3>5, Assumed
  <2> QED BY <2>3, <2>4
<1>15. ASSUME NEW x \in Entries
       PROVE  /\ taken'[x] <= 2
              /\ x \in Startable' \cup Steerable' => taken'[x] <= 1
              /\ x \in Startable' \cap Steerable' => taken'[x] = 0
  <2>1. /\ taken[x] <= 2
        /\ x \in Startable \cup Steerable => taken[x] <= 1
        /\ x \in Startable \cap Steerable => taken[x] = 0
    BY DEF BudgetOK
  <2>2. CASE x # e
    BY <1>4, <1>11, <2>1, <2>2
  <2>3. CASE x = e
    BY <1>1, <1>4, <1>11, <1>12, <1>13, <2>1, <2>3
  <2> QED BY <2>2, <2>3
<1> QED BY <1>10, <1>14, <1>15 DEF BudgetOK

LEMMA ServerKeeps ==
  ASSUME Types, Places, BudgetOK, AppServer
  PROVE  Places' /\ BudgetOK'
<1>0. UNCHANGED <<entries, unknown, submitted, pc, cur>> /\ UNCHANGED store
  BY DEF AppServer, EndTurn, Disconnect, Aside, Answers, StartTurn, JoinTurn, StopTurn,
     Refuse, Timeout, UnchangedInServer, store
<1>1. ASSUME UNCHANGED <<turns, taken>>, RequestsSettle
      PROVE  Places' /\ BudgetOK'
  BY <1>0, <1>1, StoreSettles, OthersSettle, SettledKeeps
<1>2. CASE EndTurn
  BY <1>1, <1>2, FewerRequests DEF EndTurn
<1>3. CASE Disconnect
  BY <1>1, <1>3, LateRequests DEF Disconnect, appServer
<1>4. ASSUME NEW kind \in Asides, Aside(kind) PROVE Places' /\ BudgetOK'
  BY <1>1, <1>4, FewerRequests DEF Aside, appServer
<1>5. ASSUME NEW a \in Threads, Timeout(a) PROVE Places' /\ BudgetOK'
  BY <1>1, <1>5, LateRequests DEF Timeout, appServer
<1>6. ASSUME NEW r \in requests, StartTurn(r) PROVE Places' /\ BudgetOK'
  <2>1. /\ requests' = requests \ {r} /\ taken' = [taken EXCEPT ![r.entry] = @ + 1]
    BY <1>6 DEF StartTurn, Replies, Takes
  <2>2. r.kind = "start" \/ (r.kind = "steer" /\ turns' = turns)
    BY <1>6 DEF StartTurn
  <2>3. turns' = turns \/ turns' = turns + 1
    BY <1>6 DEF StartTurn
  <2> QED BY <1>0, <2>1, <2>2, <2>3, TakingKeeps
<1>7. ASSUME NEW r \in requests, JoinTurn(r) PROVE Places' /\ BudgetOK'
  <2>1. /\ r.kind \in {"start", "steer"} /\ turns' = turns
        /\ requests' = requests \ {r} /\ taken' = [taken EXCEPT ![r.entry] = @ + 1]
    BY <1>7 DEF JoinTurn, Replies, Takes
  <2> QED BY <1>0, <2>1, TakingKeeps
<1>8. ASSUME NEW r \in requests, StopTurn(r) \/ Refuse(r) PROVE Places' /\ BudgetOK'
  BY <1>1, <1>8, FewerRequests DEF StopTurn, Refuse, Replies, appServer
<1> QED BY <1>2, <1>3, <1>4, <1>5, <1>6, <1>7, <1>8 DEF AppServer, Answers

-----------------------------------------------------------------------------
(* The theorems.                                                           *)

LEMMA InitIInv == Init => IInv
<1> SUFFICES ASSUME Init PROVE IInv
  OBVIOUS
<1> USE Names, Values, Assumed, EmptyQueue DEF Init
<1>1. Types
  <2>1. <<>> \in Seq(Notes)
    OBVIOUS
  <2>2. taken \in [Entries -> Nat] /\ turns \in Nat /\ faults \in 0 .. MaxFaults
    BY QueueAssumption
  <2>3. pc \in [Threads -> PCs] /\ cur \in [Threads -> Entries \cup {NoEntry}]
    BY DEF PCs
  <2>4. answer \in [Threads -> AnswerType] /\ requests \subseteq RequestType
    OBVIOUS
  <2>5. /\ entries \in Seq(Entries) /\ IsInjective(entries)
        /\ ToSet(entries) \subseteq submitted /\ submitted \subseteq Entries
        /\ unknown \subseteq ToSet(entries) \cap Messages
    OBVIOUS
  <2>6. driving \in BOOLEAN /\ connected \in BOOLEAN
    OBVIOUS
  <2> QED BY <2>1, <2>2, <2>3, <2>4, <2>5, <2>6 DEF Types
<1>2. DriverOK
  BY DEF DriverOK, Drivers
<1>3. Carriers = {} /\ Starts = {} /\ Steers = {}
  BY DEF Carriers, Starts, Steers
<1>4. Places
  BY <1>3 DEF Places, UnsubmittedOK, CarriedOK, StartsOK, SteersOK, TakenOK
<1>5. BudgetOK
  <2>1. Startable \subseteq Entries
    BY DEF Startable
  <2>2. Cardinality(Startable) <= Cardinality(Entries) /\ Cardinality(Startable) \in Nat
    BY <2>1, FS_Subset, FS_CardinalityType
  <2> QED BY <2>2 DEF BudgetOK
<1> QED BY <1>1, <1>2, <1>4, <1>5 DEF IInv

LEMMA NextIInv == IInv /\ [Next]_vars => IInv'
<1> SUFFICES ASSUME IInv, [Next]_vars PROVE IInv'
  OBVIOUS
<1> USE Names, Assumed
<1>0. Types /\ DriverOK /\ Places /\ BudgetOK
  BY DEF IInv
<1>p. UnsubmittedOK /\ CarriedOK /\ StartsOK /\ SteersOK
  BY <1>0 DEF Places
<1>1. DriverOK'
  BY <1>0, ClaimKept
<1>2. ASSUME NEW a \in Threads, Drive(a) PROVE Types' /\ Places' /\ BudgetOK'
  <2>1. pc[a] \in {"send", "sendDirect"} => cur[a] \in Entries
    BY <1>p DEF CarriedOK, Carriers
  <2> QED BY <1>0, <1>2, <2>1, DriveTypes, DriveKeeps
<1>3. ASSUME \/ AppendEntry \/ Steer \/ Steered \/ SendInterrupt \/ Interrupted \/ Viewer
      PROVE  Types' /\ Places' /\ BudgetOK'
  <2>1. pc[Lane] = "append" => cur[Lane] \in Entries \ ToSet(entries)
    BY <1>p DEF CarriedOK, Carriers
  <2>2. pc[Lane] = "append" => cur[Lane] \in submitted
    BY <1>p, <2>1 DEF UnsubmittedOK
  <2>3. pc[Lane] = "steering" => cur[Lane] \in Messages
    BY <1>p DEF SteersOK
  <2> QED BY <1>0, <1>3, <2>1, <2>2, <2>3, LaneTypes, LaneKeeps
<1>4. ASSUME TakeEvent \/ Effect \/ Reconnect \/ ListThreads \/ ClearRuntime \/ ReadThread
      PROVE  Types' /\ Places' /\ BudgetOK'
  BY <1>0, <1>4, ForwarderTypes, ForwarderKeeps
<1>5. ASSUME AppServer PROVE Types' /\ Places' /\ BudgetOK'
  <2>1. \A r \in Starts : r.entry \in Entries
    BY <1>p DEF StartsOK
  <2>2. ASSUME NEW r \in Starts PROVE turns + 1 \in Turns
    <3>1. r.entry \in Startable /\ Startable \subseteq Entries
      BY <2>1 DEF Startable
    <3>2. IsFiniteSet(Startable) /\ Cardinality(Startable) \in Nat
      BY <3>1, FS_Subset, FS_CardinalityType
    <3>3. Cardinality(Startable) # 0
      BY <3>1, <3>2, FS_EmptySet
    <3> QED BY <1>0, <3>2, <3>3 DEF BudgetOK, Types, Turns
  <2> QED BY <1>0, <1>5, <2>1, <2>2, ServerTypes, ServerKeeps
<1>6. ASSUME UNCHANGED vars PROVE Types' /\ Places' /\ BudgetOK'
  <2>1. UNCHANGED <<entries, unknown, status, active, driving, pc, cur, aim, note, submitted,
                    connected, events, requests, answer, turn, turns, taken, faults>>
    BY <1>6 DEF vars, store, runtime, appServer
  <2>2. Types'
    BY <1>0, <2>1 DEF Types
  <2>3. UNCHANGED store /\ requests' \subseteq requests
    BY <2>1 DEF store
  <2> QED BY <1>0, <2>1, <2>2, <2>3, FewerRequests, StoreSettles, OthersSettle, SettledKeeps
<1>7. Types' /\ Places' /\ BudgetOK'
  BY <1>2, <1>3, <1>4, <1>5, <1>6 DEF Next, LaneStep, ForwarderStep
<1> QED BY <1>1, <1>7 DEF IInv

LEMMA Inductive == Spec => []IInv
  BY InitIInv, NextIInv, PTL DEF Spec

\* The queue, the runtime and the app server keep to their types: an entry is
\* in the queue once, is taken at most twice, and no more turns are started
\* than there are entries (operation_queue.rs, thread_runtime.rs).
THEOREM TypeCorrect == Spec => []TypeOK
<1>1. IInv => TypeOK
  <2> SUFFICES ASSUME IInv PROVE TypeOK
    OBVIOUS
  <2>0. Types /\ BudgetOK
    BY DEF IInv
  <2>1. Len(entries) = Cardinality(ToSet(entries))
    BY <2>0, LengthOfQueue DEF Types
  <2>2. turns \in Turns \cup {0}
    <3>1. Startable \subseteq Entries
      BY DEF Startable
    <3>2. Cardinality(Startable) \in Nat
      BY <3>1, Assumed, FS_Subset, FS_CardinalityType
    <3>3. turns \in Nat /\ turns <= Cardinality(Entries)
      BY <2>0, <3>2, Assumed DEF Types, BudgetOK
    <3> QED BY <3>3, Assumed DEF Turns
  <2>3. taken \in [Entries -> 0 .. 2]
    BY <2>0 DEF Types, BudgetOK
  <2>4. \A r \in requests : r.from \in Threads \cup {LateCaller}
    BY <2>0 DEF Types, RequestType
  <2>5. driving \in BOOLEAN /\ connected \in BOOLEAN
    BY <2>0 DEF Types
  <2> QED BY <2>0, <2>1, <2>2, <2>3, <2>4, <2>5 DEF TypeOK, Types, SomeTurn
<1> QED BY <1>1, Inductive, PTL

\* Of the lane and the forwarder one at a time holds the claim of
\* driving_threads, from taking it to giving it back (drive_if_idle).
THEOREM ClaimIsExclusive == Spec => []OneDriver
<1>1. IInv => OneDriver
  BY OneDriverFollows DEF IInv
<1> QED BY <1>1, Inductive, PTL

\* What waits in the queue, unmarked, has not been taken by the app server,
\* but for the message that is being steered: nothing is sent twice because a
\* request failed or was given up (pop_front, mark_outcome_unknown).
THEOREM NothingIsSentAgain == Spec => []NothingSentIsDrivable
<1>1. IInv => NothingSentIsDrivable
  BY InQueueIsMember DEF IInv, Places, TakenOK, SteeringNow, NothingSentIsDrivable
<1> QED BY <1>1, Inductive, PTL
=============================================================================
