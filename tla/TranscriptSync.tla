---------------------------- MODULE TranscriptSync ----------------------------
(***************************************************************************)
(* How the Codex viewer keeps one thread's transcript up to date           *)
(* (extensions/codex/viewer/transcript/resourceStore.ts), with what drives *)
(* it: the resume hook (viewer/resumeSync.ts), the width of the layout     *)
(* (transcript/layoutStore.ts), the batches of invalidations               *)
(* (viewer/ipc/resourceInvalidations.ts) and the connection                *)
(* (packages/viewer-kit/src/ipc.ts).                                       *)
(*                                                                         *)
(* The viewer is one thread of JavaScript: an action runs to its next      *)
(* await.  What is concurrent are the reads on their way: the extension    *)
(* answers them on four threads and in any order, and the code makes an    *)
(* answer stale by advancing transcriptReadGeneration.                     *)
(*                                                                         *)
(* The server's transcript is its revision.  A window of turns matters in  *)
(* one respect only: a read that asks for turns of the window on screen    *)
(* comes back missing when an edit has removed one of them, a read of the  *)
(* tail never does.  The reads of protocol version 1, for servers without  *)
(* transcriptSync, are not modelled.                                       *)
(***************************************************************************)
EXTENDS Integers, Sequences

CONSTANTS
  MaxRev,    \* bound on changes of the transcript
  MaxWidth,  \* bound on widths the layout reports
  MaxEvents  \* bound on what the user and faults do: paging, leaving the
             \* thread or the viewer, lost connections, failed reads

ASSUME SyncAssumption == MaxRev \in Nat /\ MaxWidth \in Nat /\ MaxEvents \in Nat

VARIABLES
  rev, cut,    \* server: revision, revision at which turns were last removed
  notes,       \* invalidations on their way to the viewer
  connected,
  open,        \* the thread is the viewer's activeThreadId
  active,      \* transcriptLifecycleState
  width,       \* the layout's width, 0 until measured
  status,
  shown,       \* revision on screen, Nothing while nothing is loaded
  pending,     \* pendingTranscriptRefresh
  reads,       \* reads of the transcript that have not settled
  resuming, resumeAgain,  \* inFlightRef and pendingReasonRef of the resume hook
  events,      \* counter of the bound
  excused      \* history: the last current read failed, see CatchesUp

server == <<rev, cut>>
resume == <<resuming, resumeAgain>>
vars == <<server, notes, connected, open, active, width, status, shown,
          pending, reads, resume, events, excused>>

Nothing == -1
Missing == -2
Pending(timer, policy, target) ==
  [timer |-> timer, policy |-> policy, target |-> target, paged |-> FALSE]
NoRefresh == Pending(FALSE, "none", FALSE)
Policies == {"preserve", "tail"}

\* A read: who issued it (n tells the reads of two widths apart), whether its
\* generation is the current one, the revision whose turns it asks for, whether
\* it must show a certain turn, the answer on its way back, and whether it
\* shares its generation with another read (history, see NeverBackwards).
Read(by, n, base, target) ==
  [by |-> by, n |-> n, fresh |-> TRUE, base |-> base, target |-> target,
   answer |-> Nothing, twin |-> FALSE]

\* Reads somebody waits for even when their answer is stale.
Awaited == {"pending", "page", "resume"}

\* Mutant: the flag is never set.
NeverInFlight == FALSE

\* invalidatedTranscriptRefreshInFlight is set from the issue of a pending
\* refresh or of a page to its end.
InFlight == \E r \in reads : r.by \in {"pending", "page"}

\* Mutant: the generation is not advanced.
StillCurrent(R) == R

\* transcriptReadGeneration += 1
Outdated(R) ==
  {[r EXCEPT !.fresh = FALSE, !.answer = Nothing, !.twin = FALSE] :
     r \in {q \in R : q.by \in Awaited}}

Preserving(r) == r.by \in {"pending", "resume"}

Base(policy) == IF policy = "tail" THEN Nothing ELSE shown

-----------------------------------------------------------------------------
Init ==
  /\ rev = 0 /\ cut = 0 /\ notes = <<>> /\ connected = TRUE
  /\ open = FALSE /\ active = TRUE /\ width = 0
  /\ status = "idle" /\ shown = Nothing /\ pending = NoRefresh /\ reads = {}
  /\ resuming = FALSE /\ resumeAgain = FALSE
  /\ events = 0 /\ excused = FALSE

Event == events < MaxEvents /\ events' = events + 1

\* loadTranscript, up to its first await.
LoadTranscript(R, r, w) ==
  IF w = 0
  THEN reads' = R /\ UNCHANGED status
  ELSE /\ reads' = R \cup {r}
       /\ status' = IF Preserving(r) /\ status = "ready" THEN status ELSE "loading"

-----------------------------------------------------------------------------
(* The server, and invalidations.                                          *)

\* A delta of a turn, a new turn, or an edit that removes turns.  What is sent
\* without a connection is lost.
Change(kind, removes) ==
  /\ rev < MaxRev /\ (removes => kind = "order")
  /\ rev' = rev + 1
  /\ cut' = IF removes THEN rev + 1 ELSE cut
  /\ notes' = IF connected THEN Append(notes, kind) ELSE notes
  /\ UNCHANGED <<connected, open, active, width, status, shown, pending, reads,
                 resume, events, excused>>

ScheduleInvalidatedTranscriptRefresh(policy, target) ==
  pending' =
    IF pending = NoRefresh
    THEN Pending(TRUE, policy, target)
    ELSE [pending EXCEPT !.policy = IF @ = "tail" THEN @ ELSE policy,
                         !.target = @ \/ target]

\* A batch of invalidations: they have one key, so the first is kept.  An order
\* change asks for the tail, and for the turn if it names one.
InvalidateTranscriptResources(n, target) ==
  LET order == shown # Nothing /\ Head(notes) = "order" IN
  /\ n \in 1 .. Len(notes) /\ (target => order)
  /\ notes' = SubSeq(notes, n + 1, Len(notes))
  /\ IF open /\ active
     THEN ScheduleInvalidatedTranscriptRefresh(
            IF order THEN "tail" ELSE "preserve", target)
     ELSE UNCHANGED pending
  /\ UNCHANGED <<server, connected, open, active, width, status, shown, reads,
                 resume, events, excused>>

\* runPendingTranscriptRefresh: the timer fires while a sync is in flight
\* (paged is history: the sync was a page).
TimerFindsSync ==
  /\ pending.timer /\ InFlight
  /\ pending' = [pending EXCEPT !.timer = FALSE,
                                !.paged = \E r \in reads : r.by = "page"]
  /\ UNCHANGED <<server, notes, connected, open, active, width, status, shown,
                 reads, resume, events, excused>>

RunPendingTranscriptRefresh ==
  /\ pending.timer /\ ~InFlight
  /\ pending' = NoRefresh
  /\ LoadTranscript(Outdated(reads),
                    Read("pending", 0, Base(pending.policy), pending.target), width)
  /\ UNCHANGED <<server, notes, connected, open, active, width, shown, resume,
                 events, excused>>

-----------------------------------------------------------------------------
(* Answers.                                                                *)

\* A read thread of the extension resolves the window and reads the turns.
Serve(r) ==
  /\ connected /\ r.fresh /\ r.answer = Nothing
  /\ \E a \in {rev} \cup (IF r.base # Nothing /\ r.base < cut THEN {Missing} ELSE {}) :
       reads' = (reads \ {r}) \cup {[r EXCEPT !.answer = a]}
  /\ UNCHANGED <<server, notes, connected, open, active, width, status, shown,
                 pending, resume, events, excused>>

\* Mutant: no end of a read looks for the refresh that waits.
WaitsOn(by) == pending

\* The end of a pending refresh starts the timer of the one that waited for it.
\* The end of a page or of a resume does not.
PendingAfter(by) ==
  IF by = "pending" /\ pending # NoRefresh
  THEN [pending EXCEPT !.timer = TRUE]
  ELSE pending

Settle(r) == reads' = reads \ {r} /\ pending' = PendingAfter(r.by)

\* markTranscriptLoadFailed; a page is not inside the try of loadTranscript.
StatusAfterFailure(R) ==
  IF \E r \in R : r.fresh /\ r.by # "page" /\ ~(Preserving(r) /\ status = "ready")
  THEN "failed" ELSE status

\* The turn the refresh is for is outside the window of the answer: a second
\* read around it, in the same generation.
ReadAroundTarget(r) ==
  /\ r.fresh /\ r.answer >= 0 /\ r.target
  /\ reads' = (reads \ {r}) \cup
               {[r EXCEPT !.base = r.answer, !.target = FALSE, !.answer = Nothing]}
  /\ UNCHANGED <<server, notes, connected, open, active, width, status, shown,
                 pending, resume, events, excused>>

\* loadTranscriptV2 publishes the answer.
Accept(r) ==
  /\ r.fresh /\ r.answer >= 0
  /\ Settle(r)
  /\ shown' = r.answer /\ status' = "ready" /\ excused' = FALSE
  /\ UNCHANGED <<server, notes, connected, open, active, width, resume, events>>

Reject(r) ==
  /\ r.fresh
  /\ Settle(r) /\ status' = StatusAfterFailure({r})
  /\ UNCHANGED <<server, notes, connected, open, active, width, shown, resume>>

\* The window is gone, an error, a timeout, or no host to send the request.
AnswerMissing(r) == r.answer = Missing /\ Reject(r) /\ excused' = TRUE /\ UNCHANGED events
FailRead(r) == connected /\ Event /\ Reject(r) /\ excused' = TRUE
RefuseRead(r) == ~connected /\ Reject(r) /\ UNCHANGED <<events, excused>>

\* isStaleLoad
DropStale(r) ==
  /\ ~r.fresh
  /\ Settle(r)
  /\ UNCHANGED <<server, notes, connected, open, active, width, status, shown,
                 resume, events, excused>>

-----------------------------------------------------------------------------
(* The user: threads, pages, the width.                                    *)

SetActiveThread ==
  /\ ~open /\ open' = TRUE
  /\ shown' = Nothing
  /\ IF width = 0
     THEN status' = "idle" /\ UNCHANGED reads
     ELSE status' = "loading" /\ reads' = reads \cup {Read("open", 0, Nothing, FALSE)}
  /\ UNCHANGED <<server, notes, connected, active, width, pending, resume,
                 events, excused>>

\* setActiveThreadId with no thread, or with another one.
LeaveThread ==
  /\ open /\ Event /\ open' = FALSE
  /\ pending' = NoRefresh /\ reads' = Outdated(reads)
  /\ shown' = Nothing /\ status' = "idle" /\ excused' = FALSE
  /\ UNCHANGED <<server, notes, connected, active, width, resume>>

\* loadEarlier, loadLater, loadTranscriptAroundTurn: no loadTranscript around.
LoadPage ==
  /\ open /\ shown # Nothing /\ ~InFlight /\ Event
  /\ reads' = Outdated(reads) \cup {Read("page", 0, shown, FALSE)}
  /\ UNCHANGED <<server, notes, connected, open, active, width, status, shown,
                 pending, resume, excused>>

\* setWidth; its load takes the current generation as it is.
SetWidth ==
  /\ width < MaxWidth /\ width' = width + 1
  /\ IF open /\ status \in {"idle", "loading"}
     THEN LoadTranscript(
            {[r EXCEPT !.twin = r.fresh] : r \in reads},
            [Read("width", width + 1, shown, FALSE) EXCEPT
               !.twin = \E r \in reads : r.fresh],
            width + 1)
     ELSE UNCHANGED <<reads, status>>
  /\ UNCHANGED <<server, notes, connected, open, active, shown, pending,
                 resume, events, excused>>

-----------------------------------------------------------------------------
(* Lifecycle, connection and resume.                                       *)

\* refreshActiveTranscriptResources
RefreshActiveTranscript ==
  IF open
  THEN /\ pending' = NoRefresh
       /\ LoadTranscript(Outdated(reads), Read("resume", 0, Nothing, FALSE), width)
  ELSE UNCHANGED <<pending, reads, status>>

\* inFlightRef is busy and pendingReasonRef is again when the hook runs.
RunResumeSync(busy, again) ==
  IF connected' /\ active' /\ ~busy
  THEN /\ resuming' = TRUE /\ resumeAgain' = again
       /\ RefreshActiveTranscript
  ELSE /\ resuming' = busy
       /\ resumeAgain' = (again \/ (connected' /\ active'))
       /\ UNCHANGED <<pending, reads, status>>

\* All tasks of the resume have settled; only the transcript's is modelled.
ResumeEnds ==
  /\ resuming /\ \A r \in reads : r.by # "resume"
  /\ UNCHANGED <<connected, active>>
  /\ IF resumeAgain
     THEN RunResumeSync(FALSE, FALSE)
     ELSE resuming' = FALSE /\ UNCHANGED <<resumeAgain, pending, reads, status>>
  /\ UNCHANGED <<server, notes, open, width, shown, events, excused>>

\* setTranscriptLifecycleState
Deactivate ==
  /\ active /\ Event /\ active' = FALSE
  /\ pending' = NoRefresh /\ reads' = Outdated(reads)
  /\ UNCHANGED <<server, notes, connected, open, width, status, shown, resume, excused>>

Activate ==
  /\ ~active /\ active' = TRUE /\ UNCHANGED connected
  /\ RunResumeSync(resuming, resumeAgain)
  /\ UNCHANGED <<server, notes, open, width, shown, events, excused>>

\* The host closes: every request is rejected, and nothing is replayed.
Disconnect ==
  /\ connected /\ Event /\ connected' = FALSE
  /\ notes' = <<>> /\ reads' = {}
  /\ status' = StatusAfterFailure(reads)
  /\ pending' = IF \E r \in reads : r.by = "pending"
                THEN PendingAfter("pending") ELSE pending
  /\ UNCHANGED <<server, open, active, width, shown, resume, excused>>

Connect ==
  /\ ~connected /\ connected' = TRUE /\ UNCHANGED active
  /\ RunResumeSync(resuming, resumeAgain)
  /\ UNCHANGED <<server, notes, open, width, shown, events, excused>>

-----------------------------------------------------------------------------
Progress ==
  \/ \E n \in 1 .. Len(notes), target \in BOOLEAN : InvalidateTranscriptResources(n, target)
  \/ TimerFindsSync
  \/ RunPendingTranscriptRefresh
  \/ \E r \in reads :
       \/ Serve(r)
       \/ ReadAroundTarget(r)
       \/ Accept(r)
       \/ AnswerMissing(r)
       \/ RefuseRead(r)
       \/ DropStale(r)
  \/ ResumeEnds

Next ==
  \/ Progress
  \/ \E kind \in {"content", "order"}, removes \in BOOLEAN : Change(kind, removes)
  \/ \E r \in reads : FailRead(r)
  \/ SetActiveThread
  \/ LeaveThread
  \/ LoadPage
  \/ SetWidth
  \/ Deactivate
  \/ Activate
  \/ Disconnect
  \/ Connect

Spec == Init /\ [][Next]_vars

\* Invalidations arrive, timers fire, reads are answered or fail and a resume
\* ends.  Nothing makes the user, the connection or the transcript move.
FairSpec == Spec /\ WF_vars(Progress)

-----------------------------------------------------------------------------
\* Types; whoever waits for a read that only it could have issued has at most
\* one on its way, and a timer belongs to a refresh.
TypeOK ==
  /\ rev \in 0 .. MaxRev /\ cut \in 0 .. rev
  /\ notes \in Seq({"content", "order"}) /\ Len(notes) <= MaxRev
  /\ connected \in BOOLEAN /\ open \in BOOLEAN /\ active \in BOOLEAN
  /\ width \in 0 .. MaxWidth /\ events \in 0 .. MaxEvents /\ excused \in BOOLEAN
  /\ status \in {"idle", "loading", "ready", "failed"}
  /\ shown \in Nothing .. rev
  /\ pending \in {NoRefresh} \cup
       [timer : BOOLEAN, policy : Policies, target : BOOLEAN, paged : BOOLEAN]
  /\ reads \subseteq
       [by : Awaited \cup {"open", "width"}, n : 0 .. MaxWidth, fresh : BOOLEAN,
        base : Nothing .. rev, target : BOOLEAN, answer : Missing .. rev,
        twin : BOOLEAN]
  /\ \A r, q \in reads : r.by = q.by /\ r.n = q.n => r = q
  /\ \A r, q \in reads : {r.by, q.by} \subseteq {"pending", "page"} => r = q
  /\ resuming \in BOOLEAN /\ resumeAgain \in BOOLEAN

\* What is on screen never gives way to an older transcript, whatever order the
\* read threads answer in: an answer is shown only in the generation it was
\* asked in, and a generation begins after the last answer shown (isStaleLoad).
\* Only the load of a new width takes the generation of the read it overtakes,
\* and the two can end up in the wrong order.
NeverBackwards ==
  [][shown' \in {Nothing} \cup shown .. rev
     \/ \E r \in reads : r.twin /\ shown' = r.answer]_vars

\* A viewer that is open, measured, active and connected ends up showing the
\* server's transcript, whatever was lost while it was not.  Two ends are
\* excused: a failed read is not repeated until something else changes, and a
\* refresh whose timer fired while a page was being read is started by nobody,
\* since the end of a page does not look for it.
Stranded == pending.paged /\ ~pending.timer /\ ~InFlight
CatchesUp ==
  <>[](open /\ active /\ connected /\ width > 0 => shown = rev \/ Stranded \/ excused)
=============================================================================
