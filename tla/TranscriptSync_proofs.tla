------------------------- MODULE TranscriptSync_proofs -------------------------
(***************************************************************************)
(* Proofs about TranscriptSync, for any number of changes, widths and      *)
(* events.                                                                 *)
(***************************************************************************)
EXTENDS TranscriptSync, SequenceTheorems, TLAPS

\* The reads, of a transcript at revision v.
ReadType(v) ==
  [by : Awaited \cup {"open", "width"}, n : 0 .. MaxWidth, fresh : BOOLEAN,
   base : Nothing .. v, target : BOOLEAN, answer : Missing .. v, twin : BOOLEAN]

\* Nobody waits for two reads, and only one width asks for a given read.
Apart(R) ==
  /\ \A r, q \in R : r.by = q.by /\ r.n = q.n => r = q
  /\ \A r, q \in R : {r.by, q.by} \subseteq {"pending", "page"} => r = q

\* Reads that share the current generation know it.
Twins(R) == \A r, q \in R : r.fresh /\ q.fresh /\ r # q => r.twin

\* The answer of the only read of the current generation is not older than the
\* screen: the screen has not changed since it was asked for.
Ahead(R, s) == \A r \in R : r.fresh /\ ~r.twin /\ r.answer >= 0 => s <= r.answer

\* A closed thread has no refresh to run and no read that is still current; a
\* resume lasts as long as its read; the widths come in order; an invalidation
\* stands for a change.
ClosedOK == ~open => /\ pending = NoRefresh
                     /\ \A r \in reads : ~r.fresh /\ r.by \in Awaited
ResumeOK == \A r \in reads : r.by = "resume" => resuming
WidthsOK == \A r \in reads : r.by = "width" => r.n <= width
NotesOK == Len(notes) <= rev

IInv == /\ TypeOK
        /\ Twins(reads) /\ Ahead(reads, shown)
        /\ ClosedOK /\ ResumeOK /\ WidthsOK /\ NotesOK

-----------------------------------------------------------------------------
(* Sets of reads: v is the revision, s what is shown.                      *)

Good(R, v, s) == R \subseteq ReadType(v) /\ Apart(R) /\ Twins(R) /\ Ahead(R, s)

LEMMA Values == Nothing = -1 /\ Missing = -2
  BY DEF Nothing, Missing

LEMMA GoodSubset ==
    ASSUME NEW R, NEW v, NEW s, Good(R, v, s), NEW Q, Q \subseteq R
    PROVE  Good(Q, v, s)
  BY DEF Good, Apart, Twins, Ahead

\* The transcript moves on.
LEMMA GoodLater ==
    ASSUME NEW R, NEW v \in Nat, NEW s, Good(R, v, s)
    PROVE  Good(R, v + 1, s)
<1>1. Nothing .. v \subseteq Nothing .. v + 1 /\ Missing .. v \subseteq Missing .. v + 1
  BY Values
<1>2. ReadType(v) \subseteq ReadType(v + 1)
  BY <1>1 DEF ReadType
<1>. QED BY <1>2 DEF Good

\* A new generation: no read is current, whatever is shown from now on.
LEMMA OutdatedGood ==
    ASSUME NEW R, NEW v \in Nat, NEW s, NEW t, Good(R, v, s)
    PROVE  /\ Good(Outdated(R), v, t)
           /\ \A r \in Outdated(R) : /\ ~r.fresh /\ r.by \in Awaited
                                     /\ \E q \in R : q.by = r.by /\ q.n = r.n
<1>1. ASSUME NEW r \in Outdated(R)
      PROVE  \E q \in R :
               /\ q.by \in Awaited /\ r \in ReadType(v)
               /\ r.by = q.by /\ r.n = q.n /\ r.fresh = FALSE
               /\ r = [by |-> q.by, n |-> q.n, fresh |-> FALSE, base |-> q.base,
                       target |-> q.target, answer |-> Nothing, twin |-> FALSE]
  <2>1. PICK q \in R : /\ q.by \in Awaited
                       /\ r = [q EXCEPT !.fresh = FALSE, !.answer = Nothing, !.twin = FALSE]
    BY <1>1 DEF Outdated
  <2>2. q \in ReadType(v)
    BY DEF Good
  <2>3. r = [by |-> q.by, n |-> q.n, fresh |-> FALSE, base |-> q.base,
             target |-> q.target, answer |-> Nothing, twin |-> FALSE]
    BY <2>1, <2>2 DEF ReadType
  <2>4. Nothing \in Missing .. v
    BY Values
  <2>5. r \in ReadType(v)
    BY <2>2, <2>3, <2>4 DEF ReadType
  <2>6. r.by = q.by /\ r.n = q.n /\ r.fresh = FALSE
    BY <2>3
  <2>. QED BY <2>1, <2>3, <2>5, <2>6
<1>2. \A r, q \in Outdated(R) : r.by = q.by /\ r.n = q.n => r = q
  <2>1. SUFFICES ASSUME NEW r \in Outdated(R), NEW q \in Outdated(R), r.by = q.by, r.n = q.n
                 PROVE  r = q
    OBVIOUS
  <2>2. PICK a \in R : /\ r.by = a.by /\ r.n = a.n
                       /\ r = [by |-> a.by, n |-> a.n, fresh |-> FALSE, base |-> a.base,
                               target |-> a.target, answer |-> Nothing, twin |-> FALSE]
    BY <1>1
  <2>3. PICK b \in R : /\ q.by = b.by /\ q.n = b.n
                       /\ q = [by |-> b.by, n |-> b.n, fresh |-> FALSE, base |-> b.base,
                               target |-> b.target, answer |-> Nothing, twin |-> FALSE]
    BY <1>1
  <2>4. a = b
    BY <2>1, <2>2, <2>3 DEF Good, Apart
  <2>. QED BY <2>2, <2>3, <2>4
<1>3. \A r, q \in Outdated(R) : {r.by, q.by} \subseteq {"pending", "page"} => r = q
  <2>1. SUFFICES ASSUME NEW r \in Outdated(R), NEW q \in Outdated(R),
                        {r.by, q.by} \subseteq {"pending", "page"}
                 PROVE  r = q
    OBVIOUS
  <2>2. PICK a \in R : r.by = a.by /\ r.n = a.n
    BY <1>1
  <2>3. PICK b \in R : q.by = b.by /\ q.n = b.n
    BY <1>1
  <2>4. a = b
    BY <2>1, <2>2, <2>3 DEF Good, Apart
  <2>. QED BY <1>2, <2>2, <2>3, <2>4
<1>. QED BY <1>1, <1>2, <1>3 DEF Good, Apart, Twins, Ahead

\* A read is issued in a generation of its own.
LEMMA GoodAdd ==
    ASSUME NEW R, NEW v, NEW s, Good(R, v, s),
           \A q \in R : ~q.fresh,
           NEW r \in ReadType(v), r.answer = Nothing,
           \A q \in R : q.by # r.by \/ q.n # r.n,
           r.by \in {"pending", "page"} => \A q \in R : q.by \notin {"pending", "page"}
    PROVE  Good(R \cup {r}, v, s)
<1>1. Apart(R \cup {r})
  BY DEF Good, Apart
<1>2. Twins(R \cup {r})
  BY DEF Good, Twins
<1>3. Ahead(R \cup {r}, s)
  BY Values DEF Good, Ahead
<1>. QED BY <1>1, <1>2, <1>3 DEF Good

\* A read goes on as another.
LEMMA GoodReplace ==
    ASSUME NEW R, NEW v, NEW s, Good(R, v, s),
           NEW r \in R, NEW q \in ReadType(v),
           q.by = r.by, q.n = r.n, q.fresh = r.fresh, q.twin = r.twin,
           q.answer >= 0 => s <= q.answer
    PROVE  Good((R \ {r}) \cup {q}, v, s)
<1>1. Apart((R \ {r}) \cup {q})
  BY DEF Good, Apart
<1>2. Twins((R \ {r}) \cup {q})
  BY DEF Good, Twins
<1>3. Ahead((R \ {r}) \cup {q}, s)
  BY DEF Good, Ahead
<1>. QED BY <1>1, <1>2, <1>3 DEF Good

-----------------------------------------------------------------------------
(* The rest of the state.                                                  *)

Kinds == {"content", "order"}
Statuses == {"idle", "loading", "ready", "failed"}
PendingType ==
  {NoRefresh} \cup [timer : BOOLEAN, policy : Policies, target : BOOLEAN, paged : BOOLEAN]

Flags ==
  /\ connected \in BOOLEAN /\ open \in BOOLEAN /\ active \in BOOLEAN
  /\ resuming \in BOOLEAN /\ resumeAgain \in BOOLEAN /\ excused \in BOOLEAN

Rest ==
  /\ rev \in 0 .. MaxRev /\ cut \in 0 .. rev
  /\ notes \in Seq(Kinds)
  /\ width \in 0 .. MaxWidth /\ events \in 0 .. MaxEvents
  /\ status \in Statuses
  /\ shown \in Nothing .. rev
  /\ pending \in PendingType

Current == ClosedOK /\ ResumeOK /\ WidthsOK

LEMMA UnfoldIInv == IInv <=> Flags /\ Rest /\ NotesOK /\ Good(reads, rev, shown) /\ Current
<1>1. Rest /\ NotesOK => Len(notes) <= MaxRev
  <2>1. Rest => Len(notes) \in Nat
    BY LenProperties DEF Rest
  <2>. QED BY <2>1, SyncAssumption DEF Rest, NotesOK
<1>. QED BY <1>1 DEF IInv, TypeOK, Flags, Rest, Good, Apart, ReadType, Kinds, Statuses,
                     PendingType, Current

LEMMA FoldIInv ==
    ASSUME Flags', Rest', NotesOK', Good(reads', rev', shown'), Current'
    PROVE  IInv'
<1>1. Len(notes') <= MaxRev
  <2>1. Len(notes') \in Nat
    BY LenProperties DEF Rest
  <2>. QED BY <2>1, SyncAssumption DEF Rest, NotesOK
<1>. QED BY <1>1 DEF IInv, TypeOK, Flags, Rest, Good, Apart, ReadType, Kinds, Statuses,
                     PendingType, Current

LEMMA InitOK == Init => IInv
<1>. SUFFICES ASSUME Init PROVE IInv
  OBVIOUS
<1>1. notes \in Seq(Kinds) /\ Len(notes) = 0
  BY DEF Init
<1>2. NotesOK
  BY <1>1 DEF Init, NotesOK
<1>3. shown \in Nothing .. rev /\ rev \in 0 .. MaxRev /\ cut \in 0 .. rev
  BY SyncAssumption, Values DEF Init
<1>4. Rest
  BY <1>1, <1>3, SyncAssumption DEF Init, Rest, Statuses, PendingType
<1>6. Flags
  BY DEF Init, Flags
<1>5. Good(reads, rev, shown) /\ Current
  BY DEF Init, Good, Apart, Twins, Ahead, Current, ClosedOK, ResumeOK, WidthsOK
<1>. QED BY <1>2, <1>4, <1>5, <1>6, UnfoldIInv

\* Reads that go and refreshes that wait for them.
LEMMA PendingAfterType ==
    ASSUME NEW by, pending \in PendingType
    PROVE  /\ PendingAfter(by) \in PendingType
           /\ pending = NoRefresh => PendingAfter(by) = NoRefresh
<1>1. ASSUME pending # NoRefresh PROVE [pending EXCEPT !.timer = TRUE] \in PendingType
  BY <1>1 DEF PendingType
<1>. QED BY <1>1 DEF PendingAfter

LEMMA FailureStatus ==
    ASSUME NEW R, status \in Statuses PROVE StatusAfterFailure(R) \in Statuses
  BY DEF StatusAfterFailure, Statuses

LEMMA CurrentLater ==
    ASSUME Current, UNCHANGED <<open, resuming, width>>,
           pending = NoRefresh => pending' = NoRefresh,
           \A r \in reads' : \E q \in reads :
             r.by = q.by /\ r.n = q.n /\ (~q.fresh => ~r.fresh)
    PROVE  Current'
  BY DEF Current, ClosedOK, ResumeOK, WidthsOK

LEMMA SettleOK ==
    ASSUME IInv, NEW r \in reads,
           Accept(r) \/ AnswerMissing(r) \/ FailRead(r) \/ RefuseRead(r) \/ DropStale(r)
    PROVE  IInv'
<1>0. Flags /\ Rest /\ NotesOK /\ Good(reads, rev, shown) /\ Current
  BY UnfoldIInv
<1>1. /\ reads' = reads \ {r} /\ pending' = PendingAfter(r.by)
      /\ UNCHANGED <<server, notes, connected, open, active, width, resume>>
  BY DEF Accept, AnswerMissing, FailRead, RefuseRead, DropStale, Reject, Settle, server, resume
<1>2. r \in ReadType(rev)
  BY <1>0 DEF Good
<1>3. Rest'
  <2>1. pending' \in PendingType
    BY <1>0, <1>1, PendingAfterType DEF Rest
  <2>2. shown' \in Nothing .. rev
    <3>1. shown' \in {shown, r.answer} /\ (shown' = shown \/ r.answer >= 0)
      BY DEF Accept, AnswerMissing, FailRead, RefuseRead, DropStale, Reject, server, resume
    <3>2. r.answer \in Missing .. rev /\ rev \in Nat
      BY <1>0, <1>2, SyncAssumption DEF ReadType, Rest
    <3>. QED BY <1>0, <3>1, <3>2, Values DEF Rest
  <2>3. status' \in Statuses
    <3>1. status' \in {status, "ready", StatusAfterFailure({r})}
      BY DEF Accept, AnswerMissing, FailRead, RefuseRead, DropStale, Reject, server, resume
    <3>. QED BY <1>0, <3>1, FailureStatus DEF Rest, Statuses
  <2>4. events' \in 0 .. MaxEvents
    BY <1>0, SyncAssumption
       DEF Accept, AnswerMissing, FailRead, RefuseRead, DropStale, Event, Rest
  <2>. QED BY <1>0, <1>1, <2>1, <2>2, <2>3, <2>4 DEF Rest, server, resume
<1>7. Flags'
  <2>1. excused' = excused \/ excused' = TRUE \/ excused' = FALSE
    BY DEF Accept, AnswerMissing, FailRead, RefuseRead, DropStale
  <2>. QED BY <1>0, <1>1, <2>1 DEF Flags, resume
<1>4. Good(reads', rev', shown')
  <2>1. Good(reads \ {r}, rev, shown)
    BY <1>0, GoodSubset
  <2>2. CASE Accept(r)
    <3>1. Ahead(reads \ {r}, shown')
      BY <1>0, <2>2 DEF Ahead, Good, Twins, Accept
    <3>. QED BY <1>1, <2>1, <3>1 DEF Good, server
  <2>3. CASE ~Accept(r)
    <3>1. shown' = shown
      BY <2>3 DEF server, resume, AnswerMissing, FailRead, RefuseRead, DropStale, Reject
    <3>. QED BY <1>1, <2>1, <3>1 DEF server
  <2>. QED BY <2>2, <2>3
<1>5. Current'
  <2>1. pending = NoRefresh => pending' = NoRefresh
    BY <1>0, <1>1, PendingAfterType DEF Rest
  <2>. QED BY <1>0, <1>1, <2>1, CurrentLater DEF resume
<1>6. NotesOK'
  BY <1>0, <1>1 DEF NotesOK, server
<1>. QED BY <1>3, <1>4, <1>5, <1>6, <1>7, FoldIInv

\* A read that is answered, or read again around its turn, stays the same read.
LEMMA GoesOnOK ==
    ASSUME IInv, NEW r \in reads, Serve(r) \/ ReadAroundTarget(r)
    PROVE  IInv'
<1>0. Flags /\ Rest /\ NotesOK /\ Good(reads, rev, shown) /\ Current
  BY UnfoldIInv
<1>1. UNCHANGED <<rev, cut, notes, connected, open, active, width, status, shown,
                  pending, resuming, resumeAgain, events, excused>>
  BY DEF Serve, ReadAroundTarget, server, resume
<1>2. r \in ReadType(rev) /\ rev \in Nat /\ shown \in Nothing .. rev
  BY <1>0, SyncAssumption DEF Good, Rest
<1>3. PICK q \in ReadType(rev) :
        /\ reads' = (reads \ {r}) \cup {q}
        /\ q.by = r.by /\ q.n = r.n /\ q.fresh = r.fresh /\ q.twin = r.twin
        /\ q.answer >= 0 => shown <= q.answer
  <2>1. CASE Serve(r)
    <3>1. PICK a \in {rev, Missing} :
            reads' = (reads \ {r}) \cup {[r EXCEPT !.answer = a]}
      BY <2>1 DEF Serve
    <3>2. a \in Missing .. rev /\ (a >= 0 => shown <= a)
      BY <1>2, Values
    <3>3. /\ [r EXCEPT !.answer = a] \in ReadType(rev)
          /\ [r EXCEPT !.answer = a].by = r.by /\ [r EXCEPT !.answer = a].n = r.n
          /\ [r EXCEPT !.answer = a].fresh = r.fresh /\ [r EXCEPT !.answer = a].twin = r.twin
          /\ [r EXCEPT !.answer = a].answer = a
      BY <1>2, <3>2 DEF ReadType
    <3>. QED BY <3>1, <3>2, <3>3
  <2>2. CASE ReadAroundTarget(r)
    <3>1. r.answer \in Nothing .. rev /\ Nothing \in Missing .. rev
      <4>1. r.answer >= 0
        BY <2>2 DEF ReadAroundTarget
      <4>2. r.answer \in Missing .. rev
        BY <1>2 DEF ReadType
      <4>. QED BY <1>2, <4>1, <4>2, Values
    <3>2. PICK b : b = [r EXCEPT !.base = r.answer]
      OBVIOUS
    <3>3. /\ b \in ReadType(rev)
          /\ b.by = r.by /\ b.n = r.n /\ b.fresh = r.fresh /\ b.twin = r.twin
      BY <1>2, <3>1, <3>2 DEF ReadType
    <3>4. PICK t : t = [b EXCEPT !.target = FALSE]
      OBVIOUS
    <3>5. /\ t \in ReadType(rev)
          /\ t.by = r.by /\ t.n = r.n /\ t.fresh = r.fresh /\ t.twin = r.twin
      BY <3>3, <3>4 DEF ReadType
    <3>6. PICK q : q = [t EXCEPT !.answer = Nothing]
      OBVIOUS
    <3>7. /\ q \in ReadType(rev) /\ q.answer = Nothing
          /\ q.by = r.by /\ q.n = r.n /\ q.fresh = r.fresh /\ q.twin = r.twin
      BY <3>1, <3>5, <3>6 DEF ReadType
    <3>8. reads' = (reads \ {r}) \cup {q}
      BY <2>2, <3>2, <3>4, <3>6 DEF ReadAroundTarget
    <3>. QED BY <3>7, <3>8, Values
  <2>. QED BY <2>1, <2>2
<1>4. Good(reads', rev', shown')
  BY <1>0, <1>1, <1>3, GoodReplace
<1>5. Current'
  BY <1>0, <1>1, <1>3, CurrentLater
<1>6. Flags' /\ Rest' /\ NotesOK'
  BY <1>0, <1>1 DEF Flags, Rest, NotesOK
<1>. QED BY <1>4, <1>5, <1>6, FoldIInv

-----------------------------------------------------------------------------
(* The server, and invalidations.                                          *)

LEMMA ChangeOK ==
    ASSUME IInv, NEW kind \in Kinds, NEW removes \in BOOLEAN, Change(kind, removes)
    PROVE  IInv'
<1>0. Flags /\ Rest /\ NotesOK /\ Good(reads, rev, shown) /\ Current
  BY UnfoldIInv
<1>1. /\ rev < MaxRev /\ rev' = rev + 1 /\ cut' \in {cut, rev + 1}
      /\ notes' \in {notes, Append(notes, kind)}
      /\ UNCHANGED <<connected, open, active, width, status, shown,
                     pending, reads, resuming, resumeAgain, events, excused>>
  BY DEF Change, resume
<1>2. rev \in Nat /\ rev' \in 0 .. MaxRev /\ cut' \in 0 .. rev'
  BY <1>0, <1>1, SyncAssumption DEF Rest
<1>3. notes' \in Seq(Kinds) /\ NotesOK'
  <2>1. /\ Append(notes, kind) \in Seq(Kinds)
        /\ Len(Append(notes, kind)) = Len(notes) + 1 /\ Len(notes) \in Nat
    BY <1>0, AppendProperties, LenProperties DEF Rest
  <2>. QED BY <1>0, <1>1, <1>2, <2>1 DEF Rest, NotesOK
<1>4. Rest'
  <2>1. shown \in Nothing .. rev + 1
    BY <1>0, <1>2, Values DEF Rest
  <2>. QED BY <1>0, <1>1, <1>2, <1>3, <2>1 DEF Rest
<1>5. Good(reads', rev', shown')
  BY <1>0, <1>1, <1>2, GoodLater
<1>6. Flags' /\ Current'
  BY <1>0, <1>1, CurrentLater DEF Flags
<1>. QED BY <1>3, <1>4, <1>5, <1>6, FoldIInv

LEMMA ScheduleType ==
    ASSUME pending \in PendingType, NEW policy \in Policies, NEW target \in BOOLEAN,
           ScheduleInvalidatedTranscriptRefresh(policy, target)
    PROVE  pending' \in PendingType
<1>1. CASE pending = NoRefresh
  <2>1. pending' = Pending(TRUE, policy, target)
    BY <1>1 DEF ScheduleInvalidatedTranscriptRefresh
  <2>2. Pending(TRUE, policy, target) \in PendingType
    BY DEF Pending, PendingType
  <2>. QED BY <2>1, <2>2
<1>2. CASE pending # NoRefresh
  <2>. DEFINE p == IF pending.policy = "tail" THEN pending.policy ELSE policy
              t == pending.target \/ target
              first == [pending EXCEPT !.policy = p]
  <2>1. pending \in [timer : BOOLEAN, policy : Policies, target : BOOLEAN, paged : BOOLEAN]
    BY <1>2 DEF PendingType
  <2>2. p \in Policies /\ t \in BOOLEAN
    BY <2>1 DEF Policies
  <2>3. pending' = [first EXCEPT !.target = first.target \/ target]
    BY <1>2 DEF ScheduleInvalidatedTranscriptRefresh
  <2>4. first \in [timer : BOOLEAN, policy : Policies, target : BOOLEAN, paged : BOOLEAN]
    <3>. HIDE DEF p
    <3>. QED BY <2>1, <2>2
  <2>5. first.target \/ target \in BOOLEAN
    OBVIOUS
  <2>6. pending' \in [timer : BOOLEAN, policy : Policies, target : BOOLEAN, paged : BOOLEAN]
    <3>. HIDE DEF first
    <3>1. PICK u \in BOOLEAN : u = (first.target \/ target)
      OBVIOUS
    <3>2. pending' = [first EXCEPT !.target = u]
      BY <2>3, <3>1
    <3>. QED BY <2>4, <3>2
  <2>. QED BY <2>6 DEF PendingType
<1>. QED BY <1>1, <1>2

LEMMA InvalidateOK ==
    ASSUME IInv, NEW n \in 1 .. Len(notes), NEW target \in BOOLEAN,
           InvalidateTranscriptResources(n, target)
    PROVE  IInv'
<1>0. Flags /\ Rest /\ NotesOK /\ Good(reads, rev, shown) /\ Current
  BY UnfoldIInv
<1>1. /\ notes' = SubSeq(notes, n + 1, Len(notes))
      /\ \/ UNCHANGED pending
         \/ open /\ \E policy \in Policies : ScheduleInvalidatedTranscriptRefresh(policy, target)
      /\ UNCHANGED <<rev, cut, connected, open, active, width, status, shown, reads,
                     resuming, resumeAgain, events, excused>>
  BY DEF InvalidateTranscriptResources, Policies, server, resume
<1>2. notes' \in Seq(Kinds) /\ NotesOK'
  <2>1. Len(notes) \in Nat /\ \A i \in 1 .. Len(notes) : notes[i] \in Kinds
    BY <1>0, LenProperties DEF Rest
  <2>2. n + 1 \in Int /\ Len(notes) \in Int /\ \A i \in n + 1 .. Len(notes) : notes[i] \in Kinds
    BY <2>1
  <2>3. /\ SubSeq(notes, n + 1, Len(notes)) \in Seq(Kinds)
        /\ Len(SubSeq(notes, n + 1, Len(notes))) =
             IF n + 1 <= Len(notes) THEN Len(notes) - (n + 1) + 1 ELSE 0
    BY <2>2, SubSeqProperties
  <2>4. Len(notes') <= Len(notes)
    BY <1>1, <2>1, <2>3
  <2>5. Len(notes') \in Nat /\ rev \in Nat /\ Len(notes) <= rev
    BY <1>0, <1>1, <2>1, <2>3, SyncAssumption DEF Rest, NotesOK
  <2>. QED BY <1>1, <2>1, <2>3, <2>4, <2>5 DEF NotesOK
<1>3. pending' \in PendingType
  BY <1>0, <1>1, ScheduleType DEF Rest
<1>4. Flags' /\ Rest'
  BY <1>0, <1>1, <1>2, <1>3 DEF Flags, Rest
<1>5. Current'
  <2>1. ClosedOK'
    BY <1>0, <1>1 DEF Current, ClosedOK
  <2>. QED BY <1>0, <1>1, <2>1 DEF Current, ResumeOK, WidthsOK
<1>. QED BY <1>0, <1>1, <1>2, <1>4, <1>5, FoldIInv

LEMMA TimerOK == ASSUME IInv, TimerFindsSync PROVE IInv'
<1>0. Flags /\ Rest /\ NotesOK /\ Good(reads, rev, shown) /\ Current
  BY UnfoldIInv
<1>1. UNCHANGED <<rev, cut, notes, connected, open, active, width, status, shown,
                  reads, resuming, resumeAgain, events, excused>>
  BY DEF TimerFindsSync, server, resume
<1>2. pending # NoRefresh
  BY DEF TimerFindsSync, NoRefresh, Pending
<1>3. pending' \in PendingType
  <2>1. pending \in [timer : BOOLEAN, policy : Policies, target : BOOLEAN, paged : BOOLEAN]
    BY <1>0, <1>2 DEF Rest, PendingType
  <2>2. PICK u \in BOOLEAN : u = \E r \in reads : r.by = "page"
    OBVIOUS
  <2>3. PICK q : q = [pending EXCEPT !.timer = FALSE]
    OBVIOUS
  <2>4. q \in [timer : BOOLEAN, policy : Policies, target : BOOLEAN, paged : BOOLEAN]
    BY <2>1, <2>3
  <2>5. pending' = [q EXCEPT !.paged = u]
    BY <2>2, <2>3 DEF TimerFindsSync
  <2>. QED BY <2>4, <2>5 DEF PendingType
<1>4. Current'
  BY <1>0, <1>1, <1>2 DEF Current, ClosedOK, ResumeOK, WidthsOK
<1>5. Flags' /\ Rest' /\ NotesOK' /\ Good(reads', rev', shown')
  BY <1>0, <1>1, <1>3 DEF Flags, Rest, NotesOK
<1>. QED BY <1>4, <1>5, FoldIInv

-----------------------------------------------------------------------------
(* Reads that are issued.                                                  *)

\* Who has a read on its way.
Issuers(R) == {r.by : r \in R}

\* A load in a new generation, of somebody who has no read on its way.
LEMMA LoadOK ==
    ASSUME Rest, Good(reads, rev, shown), Current,
           NEW by \in Awaited,
           NEW new \in ReadType(rev), new.answer = Nothing, new.by = by,
           \A r \in reads : r.by # by,
           by \in {"pending", "page"} => ~InFlight,
           NEW R, R = Outdated(reads) \/ R = Outdated(reads) \cup {new}
    PROVE  /\ Good(R, rev, shown)
           /\ Issuers(R) \subseteq (Issuers(reads) \cap Awaited) \cup {by}
<1>1. /\ Good(Outdated(reads), rev, shown)
      /\ \A r \in Outdated(reads) : /\ ~r.fresh /\ r.by \in Awaited
                                    /\ \E q \in reads : q.by = r.by /\ q.n = r.n
  BY OutdatedGood, SyncAssumption DEF Rest
<1>2. \A r \in Outdated(reads) : r.by # by
  BY <1>1
<1>3. by \in {"pending", "page"} =>
        \A r \in Outdated(reads) : r.by \notin {"pending", "page"}
  BY <1>1 DEF InFlight
<1>4. Good(Outdated(reads) \cup {new}, rev, shown)
  BY <1>1, <1>2, <1>3, GoodAdd
<1>5. Issuers(R) \subseteq (Issuers(reads) \cap Awaited) \cup {by}
  BY <1>1 DEF Issuers
<1>. QED BY <1>1, <1>4, <1>5

LEMMA LoadStatus ==
    ASSUME NEW R, NEW r, NEW w, LoadTranscript(R, r, w), status \in Statuses
    PROVE  status' \in Statuses /\ (reads' = R \/ reads' = R \cup {r})
  BY DEF LoadTranscript, Statuses

LEMMA RunPendingOK == ASSUME IInv, RunPendingTranscriptRefresh PROVE IInv'
<1>0. Flags /\ Rest /\ NotesOK /\ Good(reads, rev, shown) /\ Current
  BY UnfoldIInv
<1>1. /\ ~InFlight /\ pending' = NoRefresh
      /\ LoadTranscript(Outdated(reads),
                        Read("pending", 0, Base(pending.policy), pending.target), width)
      /\ UNCHANGED <<rev, cut, notes, connected, open, active, width, shown,
                     resuming, resumeAgain, events, excused>>
  BY DEF RunPendingTranscriptRefresh, server, resume
<1>2. pending # NoRefresh
  BY DEF RunPendingTranscriptRefresh, NoRefresh, Pending
<1>3. PICK base \in Nothing .. rev, target \in BOOLEAN :
        base = Base(pending.policy) /\ target = pending.target
  <2>1. pending.target \in BOOLEAN
    BY <1>0, <1>2 DEF Rest, PendingType
  <2>2. Nothing \in Nothing .. rev /\ shown \in Nothing .. rev
    BY <1>0, SyncAssumption, Values DEF Rest
  <2>. QED BY <2>1, <2>2 DEF Base
<1>4. /\ status' \in Statuses
      /\ reads' = Outdated(reads) \/ reads' = Outdated(reads) \cup {Read("pending", 0, base, target)}
  BY <1>0, <1>1, <1>3, LoadStatus DEF Rest
<1>5. \A r \in reads : r.by # "pending"
  BY <1>1 DEF InFlight
<1>6. /\ Good(reads', rev, shown)
      /\ Issuers(reads') \subseteq (Issuers(reads) \cap Awaited) \cup {"pending"}
  <2>1. Nothing \in Missing .. rev /\ 0 \in 0 .. MaxWidth
    BY <1>0, SyncAssumption, Values DEF Rest
  <2>2. PICK new : new = Read("pending", 0, base, target)
    OBVIOUS
  <2>3. new \in ReadType(rev) /\ new.by = "pending" /\ new.answer = Nothing
    BY <2>1, <2>2 DEF Read, ReadType, Awaited
  <2>4. reads' = Outdated(reads) \/ reads' = Outdated(reads) \cup {new}
    BY <1>4, <2>2
  <2>5. "pending" \in Awaited
    BY DEF Awaited
  <2>. QED BY <1>0, <1>1, <1>5, <2>3, <2>4, <2>5, LoadOK
<1>7. open
  BY <1>0, <1>2 DEF Current, ClosedOK
<1>8. Current'
  BY <1>0, <1>1, <1>6, <1>7 DEF Current, ClosedOK, ResumeOK, WidthsOK, Awaited, Issuers
<1>9. Flags' /\ Rest' /\ NotesOK'
  BY <1>0, <1>1, <1>4 DEF Flags, Rest, NotesOK, PendingType
<1>. QED BY <1>1, <1>6, <1>8, <1>9, FoldIInv

\* The resume hook issues a read only when no resume has one on its way.
LEMMA ResumeSyncOK ==
    ASSUME IInv, NEW busy \in BOOLEAN, NEW again \in BOOLEAN,
           "resume" \in Issuers(reads) => busy,
           RunResumeSync(busy, again), connected' \in BOOLEAN, active' \in BOOLEAN,
           UNCHANGED <<server, notes, open, width, shown, events, excused>>
    PROVE  IInv'
<1>0. Flags /\ Rest /\ NotesOK /\ Good(reads, rev, shown) /\ Current
  BY UnfoldIInv
<1>1. UNCHANGED <<rev, cut, notes, open, width, shown, events, excused>>
  BY DEF server
<1>2. Flags'
  <2>1. CASE connected' /\ active' /\ ~busy
    BY <1>0, <1>1, <2>1 DEF RunResumeSync, Flags
  <2>2. CASE ~(connected' /\ active' /\ ~busy)
    <3>1. resuming' = busy /\ resumeAgain' = (again \/ (connected' /\ active'))
      BY <2>2 DEF RunResumeSync
    <3>. QED BY <1>0, <1>1, <3>1 DEF Flags
  <2>. QED BY <2>1, <2>2
<1>3. CASE /\ open /\ ~busy /\ resuming' /\ pending' = NoRefresh
           /\ LoadTranscript(Outdated(reads), Read("resume", 0, Nothing, FALSE), width)
  <2>1. Nothing \in Missing .. rev /\ Nothing \in Nothing .. rev /\ 0 \in 0 .. MaxWidth
    BY <1>0, SyncAssumption, Values DEF Rest
  <2>2. PICK new : new = Read("resume", 0, Nothing, FALSE)
    OBVIOUS
  <2>3. new \in ReadType(rev) /\ new.by = "resume" /\ new.answer = Nothing
    BY <2>1, <2>2 DEF Read, ReadType, Awaited
  <2>4. /\ status' \in Statuses
        /\ reads' = Outdated(reads) \/ reads' = Outdated(reads) \cup {new}
    BY <1>0, <1>3, <2>2, LoadStatus DEF Rest
  <2>5. "resume" \in Awaited /\ \A r \in reads : r.by # "resume"
    BY <1>3 DEF Awaited, Issuers
  <2>6. /\ Good(reads', rev, shown)
        /\ Issuers(reads') \subseteq (Issuers(reads) \cap Awaited) \cup {"resume"}
    BY <1>0, <2>3, <2>4, <2>5, LoadOK
  <2>7. Current'
    BY <1>0, <1>1, <1>3, <2>6 DEF Current, ClosedOK, ResumeOK, WidthsOK, Awaited, Issuers
  <2>8. Rest' /\ NotesOK'
    BY <1>0, <1>1, <1>3, <2>4 DEF Rest, NotesOK, PendingType
  <2>. QED BY <1>1, <1>2, <2>6, <2>7, <2>8, FoldIInv
<1>4. CASE UNCHANGED <<pending, reads, status>> /\ ("resume" \in Issuers(reads) => resuming')
  <2>1. Current'
    BY <1>0, <1>1, <1>4 DEF Current, ClosedOK, ResumeOK, WidthsOK, Issuers
  <2>2. Rest' /\ NotesOK' /\ Good(reads', rev', shown')
    BY <1>0, <1>1, <1>4 DEF Rest, NotesOK
  <2>. QED BY <1>2, <2>1, <2>2, FoldIInv
<1>. QED BY <1>3, <1>4 DEF RunResumeSync, RefreshActiveTranscript

LEMMA ResumeOnceOK == ASSUME Current, "resume" \in Issuers(reads) PROVE resuming
  BY DEF Current, ResumeOK, Issuers

LEMMA ResumeEndsOK == ASSUME IInv, ResumeEnds PROVE IInv'
<1>0. Flags /\ Rest /\ NotesOK /\ Good(reads, rev, shown) /\ Current
  BY UnfoldIInv
<1>1. "resume" \notin Issuers(reads)
  BY DEF ResumeEnds, Issuers
<1>2. connected' \in BOOLEAN /\ active' \in BOOLEAN
  BY <1>0 DEF Flags, ResumeEnds
<1>3. CASE resumeAgain
  <2>1. /\ RunResumeSync(FALSE, FALSE)
        /\ UNCHANGED <<server, notes, open, width, shown, events, excused>>
    BY <1>3 DEF ResumeEnds
  <2>. QED BY <1>1, <1>2, <2>1, ResumeSyncOK
<1>4. CASE ~resumeAgain
  <2>1. /\ resuming' = FALSE
        /\ UNCHANGED <<rev, cut, notes, connected, open, active, width, status, shown,
                       pending, reads, resumeAgain, events, excused>>
    BY <1>4 DEF ResumeEnds, server
  <2>2. Current'
    BY <1>0, <1>1, <2>1 DEF Current, ClosedOK, ResumeOK, WidthsOK, Issuers
  <2>3. Flags' /\ Rest' /\ NotesOK' /\ Good(reads', rev', shown')
    BY <1>0, <2>1 DEF Flags, Rest, NotesOK
  <2>. QED BY <2>2, <2>3, FoldIInv
<1>. QED BY <1>3, <1>4

LEMMA ReturnOK == ASSUME IInv, Activate \/ Connect PROVE IInv'
<1>0. Flags /\ Current
  BY UnfoldIInv
<1>1. /\ RunResumeSync(resuming, resumeAgain)
      /\ UNCHANGED <<server, notes, open, width, shown, events, excused>>
  BY DEF Activate, Connect
<1>2. connected' \in BOOLEAN /\ active' \in BOOLEAN
  BY <1>0 DEF Flags, Activate, Connect
<1>3. resuming \in BOOLEAN /\ resumeAgain \in BOOLEAN
  BY <1>0 DEF Flags
<1>4. "resume" \in Issuers(reads) => resuming
  BY <1>0, ResumeOnceOK
<1>. QED BY <1>1, <1>2, <1>3, <1>4, ResumeSyncOK

-----------------------------------------------------------------------------
(* The user and the connection.                                            *)

LEMMA AllOutdatedOK ==
    ASSUME IInv, LeaveThread \/ Deactivate
    PROVE  IInv'
<1>0. Flags /\ Rest /\ NotesOK /\ Good(reads, rev, shown) /\ Current
  BY UnfoldIInv
<1>1. /\ reads' = Outdated(reads) /\ pending' = NoRefresh
      /\ UNCHANGED <<rev, cut, notes, connected, width, resuming, resumeAgain>>
      /\ shown' \in {shown, Nothing} /\ status' \in {status, "idle"}
      /\ events < MaxEvents /\ events' = events + 1
  BY DEF LeaveThread, Deactivate, Event, server, resume
<1>2. /\ Good(Outdated(reads), rev, shown')
      /\ \A r \in Outdated(reads) : /\ ~r.fresh /\ r.by \in Awaited
                                    /\ \E q \in reads : q.by = r.by /\ q.n = r.n
  BY <1>0, OutdatedGood, SyncAssumption DEF Rest
<1>3. Flags'
  BY <1>0 DEF Flags, LeaveThread, Deactivate, resume
<1>4. Rest' /\ NotesOK'
  <2>1. Nothing \in Nothing .. rev /\ events' \in 0 .. MaxEvents
    BY <1>0, <1>1, SyncAssumption, Values DEF Rest
  <2>. QED BY <1>0, <1>1, <2>1 DEF Rest, NotesOK, PendingType, Statuses
<1>5. Current'
  BY <1>0, <1>1, <1>2 DEF Current, ClosedOK, ResumeOK, WidthsOK
<1>. QED BY <1>1, <1>2, <1>3, <1>4, <1>5, FoldIInv

LEMMA DisconnectOK == ASSUME IInv, Disconnect PROVE IInv'
<1>0. Flags /\ Rest /\ NotesOK /\ Good(reads, rev, shown) /\ Current
  BY UnfoldIInv
<1>1. /\ reads' = {} /\ notes' = <<>>
      /\ UNCHANGED <<rev, cut, open, width, shown, resuming, resumeAgain>>
      /\ events < MaxEvents /\ events' = events + 1
      /\ status' = StatusAfterFailure(reads)
      /\ pending' \in {pending, PendingAfter("pending")}
  BY DEF Disconnect, Event, server, resume
<1>2. pending' \in PendingType /\ (pending = NoRefresh => pending' = NoRefresh)
  BY <1>0, <1>1, PendingAfterType DEF Rest
<1>3. Flags'
  BY <1>0 DEF Flags, Disconnect, resume
<1>4. Rest' /\ NotesOK'
  <2>1. notes' \in Seq(Kinds) /\ Len(notes') = 0
    BY <1>1
  <2>2. events' \in 0 .. MaxEvents /\ rev \in Nat
    BY <1>0, <1>1, SyncAssumption DEF Rest
  <2>. QED BY <1>0, <1>1, <1>2, <2>1, <2>2, FailureStatus DEF Rest, NotesOK
<1>5. Current'
  BY <1>0, <1>1, <1>2 DEF Current, ClosedOK, ResumeOK, WidthsOK
<1>6. Good(reads', rev', shown')
  BY <1>1 DEF Good, Apart, Twins, Ahead
<1>. QED BY <1>3, <1>4, <1>5, <1>6, FoldIInv

LEMMA SetActiveThreadOK == ASSUME IInv, SetActiveThread PROVE IInv'
<1>0. Flags /\ Rest /\ NotesOK /\ Good(reads, rev, shown) /\ Current
  BY UnfoldIInv
<1>1. PICK new : new = Read("open", 0, Nothing, FALSE)
  OBVIOUS
<1>2. /\ ~open /\ open' /\ shown' = Nothing /\ status' \in {"idle", "loading"}
      /\ reads' = reads \/ reads' = reads \cup {new}
      /\ UNCHANGED <<rev, cut, notes, connected, active, width, pending,
                     resuming, resumeAgain, events, excused>>
  BY <1>1 DEF SetActiveThread, server, resume
<1>3. \A r \in reads : ~r.fresh /\ r.by \in Awaited
  BY <1>0, <1>2 DEF Current, ClosedOK
<1>4. Nothing \in Missing .. rev /\ Nothing \in Nothing .. rev /\ 0 \in 0 .. MaxWidth
  BY <1>0, SyncAssumption, Values DEF Rest
<1>5. new \in ReadType(rev) /\ new.by = "open" /\ new.answer = Nothing
  BY <1>1, <1>4 DEF Read, ReadType
<1>6. Good(reads, rev, Nothing)
  BY <1>0, <1>3 DEF Good, Ahead
<1>7. Good(reads \cup {new}, rev, Nothing)
  BY <1>3, <1>5, <1>6, GoodAdd DEF Awaited
<1>8. Current'
  BY <1>0, <1>2, <1>5 DEF Current, ClosedOK, ResumeOK, WidthsOK
<1>9. Flags'
  BY <1>0, <1>2 DEF Flags, SetActiveThread
<1>10. Rest' /\ NotesOK'
  BY <1>0, <1>2, <1>4 DEF Rest, NotesOK, Statuses
<1>. QED BY <1>2, <1>6, <1>7, <1>8, <1>9, <1>10, FoldIInv

LEMMA LoadPageOK == ASSUME IInv, LoadPage PROVE IInv'
<1>0. Flags /\ Rest /\ NotesOK /\ Good(reads, rev, shown) /\ Current
  BY UnfoldIInv
<1>1. PICK new : new = Read("page", 0, shown, FALSE)
  OBVIOUS
<1>2. /\ open /\ ~InFlight /\ reads' = Outdated(reads) \cup {new}
      /\ events < MaxEvents /\ events' = events + 1
      /\ UNCHANGED <<rev, cut, notes, connected, open, active, width, status, shown,
                     pending, resuming, resumeAgain, excused>>
  BY <1>1 DEF LoadPage, Event, server, resume
<1>3. Nothing \in Missing .. rev /\ shown \in Nothing .. rev /\ 0 \in 0 .. MaxWidth
  BY <1>0, SyncAssumption, Values DEF Rest
<1>4. new \in ReadType(rev) /\ new.by = "page" /\ new.answer = Nothing
  BY <1>1, <1>3 DEF Read, ReadType, Awaited
<1>5. "page" \in Awaited /\ \A r \in reads : r.by # "page"
  BY <1>2 DEF Awaited, InFlight
<1>6. /\ Good(reads', rev, shown)
      /\ Issuers(reads') \subseteq (Issuers(reads) \cap Awaited) \cup {"page"}
  BY <1>0, <1>2, <1>4, <1>5, LoadOK
<1>7. Current'
  BY <1>0, <1>2, <1>6 DEF Current, ClosedOK, ResumeOK, WidthsOK, Awaited, Issuers
<1>8. Flags'
  BY <1>0, <1>2 DEF Flags
<1>9. Rest' /\ NotesOK'
  <2>1. events' \in 0 .. MaxEvents
    BY <1>0, <1>2, SyncAssumption DEF Rest
  <2>. QED BY <1>0, <1>2, <2>1 DEF Rest, NotesOK
<1>. QED BY <1>2, <1>6, <1>7, <1>8, <1>9, FoldIInv

\* The load of a new width shares the generation of the read it overtakes, and
\* both know it.
LEMMA WidthGood ==
    ASSUME Rest, Good(reads, rev, shown), WidthsOK,
           NEW R, R = {[r EXCEPT !.twin = r.fresh] : r \in reads},
           NEW new \in ReadType(rev), new.by = "width", new.n = width + 1,
           new.answer = Nothing, (\E r \in reads : r.fresh) => new.twin
    PROVE  /\ Good(R \cup {new}, rev, shown)
           /\ \A q \in R : \E r \in reads : q.by = r.by /\ q.n = r.n /\ q.fresh = r.fresh
<1>1. ASSUME NEW q \in R
      PROVE  \E r \in reads :
               /\ q = [r EXCEPT !.twin = r.fresh] /\ q \in ReadType(rev)
               /\ q.by = r.by /\ q.n = r.n /\ q.fresh = r.fresh /\ q.twin = r.fresh
               /\ q.answer = r.answer
  <2>1. PICK r \in reads : q = [r EXCEPT !.twin = r.fresh]
    OBVIOUS
  <2>2. r \in ReadType(rev)
    BY DEF Good
  <2>3. r.fresh \in BOOLEAN
    BY <2>2 DEF ReadType
  <2>4. /\ q \in ReadType(rev) /\ q.by = r.by /\ q.n = r.n
        /\ q.fresh = r.fresh /\ q.twin = r.fresh /\ q.answer = r.answer
    BY <2>1, <2>2, <2>3 DEF ReadType
  <2>. QED BY <2>1, <2>4
<1>2. \A q \in R : q.by # "width" \/ q.n # width + 1
  <2>1. \A r \in reads : r.by = "width" => r.n # width + 1
    <3>1. SUFFICES ASSUME NEW r \in reads, r.by = "width" PROVE r.n # width + 1
      OBVIOUS
    <3>2. r.n <= width /\ r.n \in Nat /\ width \in Nat
      BY <3>1, SyncAssumption DEF WidthsOK, Good, ReadType, Rest
    <3>. QED BY <3>2
  <2>. QED BY <1>1, <2>1
<1>3. ASSUME NEW q \in R, NEW p \in R,
             \/ q.by = p.by /\ q.n = p.n
             \/ {q.by, p.by} \subseteq {"pending", "page"}
      PROVE  q = p
  <2>1. PICK r \in reads : q = [r EXCEPT !.twin = r.fresh] /\ q.by = r.by /\ q.n = r.n
    BY <1>1
  <2>2. PICK t \in reads : p = [t EXCEPT !.twin = t.fresh] /\ p.by = t.by /\ p.n = t.n
    BY <1>1
  <2>3. r = t
    BY <1>3, <2>1, <2>2 DEF Good, Apart
  <2>. QED BY <2>1, <2>2, <2>3
<1>4. Apart(R \cup {new})
  <2>1. \A q, p \in R \cup {new} : q.by = p.by /\ q.n = p.n => q = p
    BY <1>2, <1>3
  <2>2. \A q, p \in R \cup {new} : {q.by, p.by} \subseteq {"pending", "page"} => q = p
    BY <1>3
  <2>. QED BY <2>1, <2>2 DEF Apart
<1>5. Twins(R \cup {new}) /\ Ahead(R \cup {new}, shown)
  <2>1. \A q \in R : q.fresh => q.twin /\ new.twin
    BY <1>1
  <2>2. ~(new.answer >= 0)
    BY Values
  <2>. QED BY <2>1, <2>2 DEF Twins, Ahead
<1>. QED BY <1>1, <1>4, <1>5 DEF Good

LEMMA SetWidthOK == ASSUME IInv, SetWidth PROVE IInv'
<1>0. Flags /\ Rest /\ NotesOK /\ Good(reads, rev, shown) /\ Current
  BY UnfoldIInv
<1>1. /\ width < MaxWidth /\ width' = width + 1
      /\ UNCHANGED <<rev, cut, notes, connected, open, active, shown, pending,
                     resuming, resumeAgain, events, excused>>
  BY DEF SetWidth, server, resume
<1>2. width \in Nat /\ width' \in 0 .. MaxWidth /\ shown \in Nothing .. rev
  BY <1>0, <1>1, SyncAssumption DEF Rest
<1>3. Flags' /\ NotesOK'
  BY <1>0, <1>1 DEF Flags, NotesOK
<1>4. CASE open /\ status \in {"idle", "loading"}
  <2>1. PICK R : R = {[r EXCEPT !.twin = r.fresh] : r \in reads}
    OBVIOUS
  <2>2. PICK read : read = Read("width", width + 1, shown, FALSE)
    OBVIOUS
  <2>3. PICK twin \in BOOLEAN : twin = \E r \in reads : r.fresh
    OBVIOUS
  <2>4. PICK new : new = [read EXCEPT !.twin = twin]
    OBVIOUS
  <2>5. reads' = R \cup {new} /\ status' \in {status, "loading"}
    <3>1. LoadTranscript(R, new, width + 1)
      BY <1>4, <2>1, <2>2, <2>3, <2>4 DEF SetWidth
    <3>2. width + 1 # 0
      BY <1>2
    <3>. QED BY <3>1, <3>2 DEF LoadTranscript
  <2>6. read \in ReadType(rev) /\ read.by = "width" /\ read.n = width + 1 /\ read.answer = Nothing
    <3>1. Nothing \in Missing .. rev /\ width + 1 \in 0 .. MaxWidth
      BY <1>0, <1>1, <1>2, SyncAssumption, Values DEF Rest
    <3>. QED BY <1>2, <2>2, <3>1 DEF Read, ReadType
  <2>7. /\ new \in ReadType(rev) /\ new.by = "width" /\ new.n = width + 1
        /\ new.answer = Nothing /\ new.twin = twin
    BY <2>4, <2>6 DEF ReadType
  <2>8. (\E r \in reads : r.fresh) => new.twin
    BY <2>3, <2>7
  <2>9. /\ Good(reads', rev, shown)
        /\ \A q \in R : \E r \in reads : q.by = r.by /\ q.n = r.n /\ q.fresh = r.fresh
    BY <1>0, <2>1, <2>5, <2>7, <2>8, WidthGood DEF Current
  <2>10. Current'
    <3>1. ClosedOK' /\ ResumeOK'
      BY <1>0, <1>1, <1>4, <2>5, <2>7, <2>9 DEF Current, ClosedOK, ResumeOK
    <3>2. ASSUME NEW q \in reads', q.by = "width" PROVE q.n <= width'
      <4>1. CASE q = new
        BY <1>1, <1>2, <2>7, <4>1
      <4>2. CASE q \in R
        <5>1. PICK r \in reads : q.by = r.by /\ q.n = r.n
          BY <2>9, <4>2
        <5>2. r.n <= width /\ r.n \in Nat
          BY <1>0, <3>2, <5>1, SyncAssumption DEF Current, WidthsOK, Good, ReadType
        <5>. QED BY <1>1, <1>2, <5>1, <5>2
      <4>. QED BY <2>5, <4>1, <4>2
    <3>. QED BY <3>1, <3>2 DEF Current, WidthsOK
  <2>11. Rest'
    BY <1>0, <1>1, <1>2, <2>5 DEF Rest, Statuses
  <2>. QED BY <1>1, <1>3, <2>9, <2>10, <2>11, FoldIInv
<1>5. CASE ~(open /\ status \in {"idle", "loading"})
  <2>1. UNCHANGED <<reads, status>>
    BY <1>5 DEF SetWidth
  <2>2. \A r \in reads : r.by = "width" => r.n <= width'
    <3>1. \A r \in reads : r.n \in Nat
      BY <1>0, SyncAssumption DEF Good, ReadType
    <3>. QED BY <1>0, <1>1, <1>2, <3>1 DEF Current, WidthsOK
  <2>3. Current'
    BY <1>0, <1>1, <2>1, <2>2 DEF Current, ClosedOK, ResumeOK, WidthsOK
  <2>4. Rest' /\ Good(reads', rev', shown')
    BY <1>0, <1>1, <1>2, <2>1 DEF Rest
  <2>. QED BY <1>3, <2>3, <2>4, FoldIInv
<1>. QED BY <1>4, <1>5

-----------------------------------------------------------------------------
(* The theorems.                                                           *)

LEMMA Inductive == IInv /\ [Next]_vars => IInv'
<1>. SUFFICES ASSUME IInv, [Next]_vars PROVE IInv'
  OBVIOUS
<1>1. CASE Next
  <2>1. CASE Progress
    BY <2>1, InvalidateOK, TimerOK, RunPendingOK, GoesOnOK, SettleOK, ResumeEndsOK DEF Progress
  <2>2. CASE \E kind \in Kinds, removes \in BOOLEAN : Change(kind, removes)
    BY <2>2, ChangeOK
  <2>3. CASE ~Progress /\ ~ \E kind \in Kinds, removes \in BOOLEAN : Change(kind, removes)
    BY <1>1, <2>3, SettleOK, SetActiveThreadOK, AllOutdatedOK, LoadPageOK, SetWidthOK,
       ReturnOK, DisconnectOK DEF Next, Kinds
  <2>. QED BY <2>1, <2>2, <2>3
<1>2. CASE UNCHANGED vars
  <2>0. Flags /\ Rest /\ NotesOK /\ Good(reads, rev, shown) /\ Current
    BY UnfoldIInv
  <2>1. UNCHANGED <<rev, cut, notes, connected, open, active, width, status, shown, pending,
                    reads, resuming, resumeAgain, events, excused>>
    BY <1>2 DEF vars, server, resume
  <2>2. Flags' /\ Rest' /\ NotesOK' /\ Good(reads', rev', shown')
    BY <2>0, <2>1 DEF Flags, Rest, NotesOK
  <2>3. Current'
    BY <2>0, <2>1, CurrentLater
  <2>. QED BY <2>2, <2>3, FoldIInv
<1>. QED BY <1>1, <1>2

LEMMA Invariance == Spec => []IInv
  BY InitOK, Inductive, PTL DEF Spec

\* Whoever waits for a read that only it could have issued has at most one on
\* its way (invalidatedTranscriptRefreshInFlight and the resume hook's
\* inFlightRef), and every read shows a revision the transcript has had.
THEOREM TypeCorrect == Spec => []TypeOK
<1>1. IInv => TypeOK
  BY DEF IInv
<1>. QED BY <1>1, Invariance, PTL

\* What is on screen never gives way to an older transcript, but for the load of
\* a new width that takes the generation of the read it overtakes: isStaleLoad
\* lets through the reads of the current generation only, and a generation of a
\* single read began after what is on screen was answered.
THEOREM ScreenNeverBackwards == Spec => NeverBackwards
<1>1. IInv /\ [Next]_vars =>
        [shown' \in {Nothing} \cup shown .. rev
           \/ \E r \in reads : r.twin /\ shown' = r.answer]_vars
  <2>1. SUFFICES ASSUME IInv, Next
                 PROVE  \/ shown' \in {Nothing} \cup shown .. rev
                        \/ \E r \in reads : r.twin /\ shown' = r.answer
    OBVIOUS
  <2>2. Rest /\ Good(reads, rev, shown)
    BY <2>1, UnfoldIInv
  <2>3. shown \in shown .. rev
    BY <2>2, SyncAssumption, Values DEF Rest
  <2>4. CASE \E r \in reads : Accept(r)
    <3>1. PICK r \in reads : Accept(r)
      BY <2>4
    <3>2. r.fresh /\ r.answer >= 0 /\ shown' = r.answer
      BY <3>1 DEF Accept
    <3>3. r.answer \in Missing .. rev
      BY <2>2 DEF Good, ReadType
    <3>4. r.twin \/ shown <= r.answer
      BY <2>2, <3>2 DEF Good, Ahead
    <3>5. CASE r.twin
      BY <3>2, <3>5
    <3>6. CASE shown <= r.answer
      <4>1. shown \in Int /\ rev \in Int
        BY <2>2, SyncAssumption, Values DEF Rest
      <4>. QED BY <3>2, <3>3, <3>6, <4>1, Values
    <3>. QED BY <3>4, <3>5, <3>6
  <2>5. CASE ~ \E r \in reads : Accept(r)
    <3>1. shown' = shown \/ shown' = Nothing
      BY <2>1, <2>5
         DEF Next, Progress, Change, InvalidateTranscriptResources, TimerFindsSync,
             RunPendingTranscriptRefresh, Serve, ReadAroundTarget, AnswerMissing, RefuseRead,
             DropStale, ResumeEnds, FailRead, Reject, SetActiveThread, LeaveThread, LoadPage,
             SetWidth, Deactivate, Activate, Disconnect, Connect
    <3>. QED BY <2>3, <3>1
  <2>. QED BY <2>4, <2>5
<1>. QED BY <1>1, Invariance, PTL DEF Spec, NeverBackwards
=============================================================================
