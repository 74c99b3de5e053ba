----------------------- MODULE ExtensionChannel_proofs -----------------------
(***************************************************************************)
(* Proofs about ExtensionChannel, for any requests, any queue sizes and    *)
(* any number of generations.                                              *)
(*                                                                         *)
(* The routing half of the invariant says why a readiness report of an     *)
(* older generation is harmless: reports only come from generations that   *)
(* have announced themselves (ReportsOK), and a prepared generation is     *)
(* always the current one (SlotOK).                                        *)
(***************************************************************************)
EXTENDS ExtensionChannel, FiniteSetTheorems, TLAPS

\* A child has a generation, and there is one left for its end.
ChildOK ==
  /\ child # "none" => life # "down"
  /\ life # "down" => gen \in Gens /\ gen + 1 \in Gens

\* Whoever says that the gateway of g is ready has it from the child of g.
ReportsOK ==
  \A g \in Gens :
    /\ reader[g] = GatewayReady => g \in announced
    /\ \A i \in 1 .. Len(out[g]) : out[g][i] = GatewayReady => g \in announced

\* A stopped extension has nothing prepared; a running one prepares itself.
SlotOK ==
  /\ slot.prepared # 0 => slot.prepared = gen /\ life = "running"
  /\ RoutedToAnnounced

IInv ==
  /\ TypeOK /\ IsFiniteSet(pending) /\ PendingIsServed
  /\ ChildOK /\ ReportsOK /\ SlotOK

-----------------------------------------------------------------------------
\* The callers that reject_pending or an answer reaches stay callers.
LEMMA EndedType ==
  ASSUME rpc \in [Rpcs -> {"new", "sending", "waiting", "answered", "refused", "dropped"}],
         NEW rs, NEW how \in {"answered", "refused"}
  PROVE  Ended(rs, how) \in
           [Rpcs -> {"new", "sending", "waiting", "answered", "refused", "dropped"}]
  BY DEF Ended

\* One request more in the pending map while there is room, or one less,
\* keeps it within its limit.
LEMMA OneMoreFits ==
  ASSUME NEW S, IsFiniteSet(S), NEW n \in Nat, Cardinality(S) < n, NEW x
  PROVE  IsFiniteSet(S \cup {x}) /\ Cardinality(S \cup {x}) <= n
<1>1. Cardinality(S) \in Nat
  BY FS_CardinalityType
<1>2. /\ IsFiniteSet(S \cup {x})
      /\ Cardinality(S \cup {x}) = Cardinality(S) \/ Cardinality(S \cup {x}) = Cardinality(S) + 1
  BY FS_AddElement
<1>. QED BY <1>1, <1>2

LEMMA OneLessFits ==
  ASSUME NEW S, IsFiniteSet(S), NEW n \in Nat, Cardinality(S) <= n, NEW x
  PROVE  IsFiniteSet(S \ {x}) /\ Cardinality(S \ {x}) <= n
<1>1. Cardinality(S) \in Nat
  BY FS_CardinalityType
<1>2. /\ IsFiniteSet(S \ {x})
      /\ Cardinality(S \ {x}) = Cardinality(S) \/ Cardinality(S \ {x}) = Cardinality(S) - 1
  BY FS_RemoveElement
<1>. QED BY <1>1, <1>2

\* The lines of stdout can be told apart.
LEMMA AnswerIsNoReport == \A r : Answer(r) # GatewayReady
  BY DEF Answer, GatewayReady

\* Accepting a request, refusing it or cancelling it keeps the pending map
\* finite, below its limit, and empty unless the server runs.
LEMMA PendingStep ==
  ASSUME IInv, NEW r \in Rpcs, Accept(r) \/ Refuse(r) \/ CancelRpc(r)
  PROVE  /\ rpc' \in [Rpcs -> {"new", "sending", "waiting", "answered", "refused", "dropped"}]
         /\ pending' \subseteq Rpcs /\ IsFiniteSet(pending')
         /\ Cardinality(pending') <= MaxPending
         /\ pending' # {} => life = "running"
         /\ stdin' \in Seq(Commands) /\ Len(stdin') <= StdinSize
<1>1. IsFiniteSet(pending) /\ Cardinality(pending) <= MaxPending /\ MaxPending \in Nat
  BY ChannelAssumption DEF IInv, TypeOK
<1>2. Request(r) \in Commands /\ Cancellation(r) \in Commands
  BY DEF Commands
<1>3. CASE Accept(r)
  <2>1. IsFiniteSet(pending \cup {r}) /\ Cardinality(pending \cup {r}) <= MaxPending
    <3>1. Cardinality(pending) < MaxPending
      BY <1>3 DEF Accept
    <3>. QED BY <1>1, <3>1, OneMoreFits
  <2>. QED BY <1>2, <1>3, <2>1, ChannelAssumption DEF Accept, IInv, TypeOK, PendingIsServed
<1>4. CASE Refuse(r)
  BY <1>1, <1>4, EndedType DEF Refuse, IInv, TypeOK, PendingIsServed
<1>5. CASE CancelRpc(r)
  <2>1. IsFiniteSet(pending \ {r}) /\ Cardinality(pending \ {r}) <= MaxPending
    BY <1>1, OneLessFits
  <2>. QED BY <1>2, <1>5, <2>1, ChannelAssumption DEF CancelRpc, IInv, TypeOK, PendingIsServed
<1>. QED BY <1>3, <1>4, <1>5

-----------------------------------------------------------------------------
\* The initial state.
LEMMA InitIInv == Init => IInv
  BY ChannelAssumption, FS_EmptySet
  DEF Init, IInv, TypeOK, PendingIsServed, ChildOK, ReportsOK, SlotOK, RoutedToAnnounced,
      Gens, Nothing, GatewayReady

\* The steps of the callers do not touch the actor or the readers.
LEMMA CallerSteps ==
  ASSUME IInv, NEW r \in Rpcs, Call(r) \/ Post(r) \/ Drop(r)
  PROVE  IInv'
<1>0. Request(r) \in Commands /\ Cancellation(r) \in Commands
  BY DEF Commands
<1>1. UNCHANGED <<actorVars, childVars, out, reader, slot, ready>>
  BY DEF Call, Post, Drop
<1>2. rpc' \in [Rpcs -> {"new", "sending", "waiting", "answered", "refused", "dropped"}]
  BY DEF Call, Post, Drop, IInv, TypeOK
<1>3. mailbox' \in Seq(Commands) /\ Len(mailbox') <= MailboxSize
  <2>1. \/ mailbox' = mailbox
        \/ Len(mailbox) < MailboxSize /\ mailbox' = Append(mailbox, Request(r))
        \/ Len(mailbox) < MailboxSize /\ mailbox' = Append(mailbox, Cancellation(r))
    BY DEF Call, Post, Drop
  <2>2. \A c \in Commands : Append(mailbox, c) \in Seq(Commands) /\ Len(Append(mailbox, c)) = Len(mailbox) + 1
    BY DEF IInv, TypeOK
  <2>3. mailbox \in Seq(Commands) /\ Len(mailbox) \in Nat /\ Len(mailbox) <= MailboxSize /\ MailboxSize \in Nat
    BY ChannelAssumption DEF IInv, TypeOK
  <2>. QED BY <1>0, <2>1, <2>2, <2>3
<1>. QED
  BY <1>1, <1>2, <1>3
  DEF IInv, TypeOK, PendingIsServed, ChildOK, ReportsOK, SlotOK, RoutedToAnnounced,
      actorVars, childVars

\* A command of the mailbox touches callers, pending map and stdin only.
LEMMA CommandStep ==
  ASSUME IInv, TakeCommand
  PROVE  IInv'
<1>1. /\ mailbox' \in Seq(Commands) /\ Len(mailbox') <= MailboxSize
      /\ Head(mailbox) \in Commands
  BY ChannelAssumption DEF TakeCommand, IInv, TypeOK
<1>2. PICK r \in Rpcs : Accept(r) \/ Refuse(r) \/ CancelRpc(r)
  BY <1>1 DEF TakeCommand, Commands, Request, Cancellation
<1>3. UNCHANGED <<life, gen, childVars, out, reader, slot, ready>>
  BY DEF TakeCommand
<1>. QED
  BY <1>1, <1>2, <1>3, PendingStep
  DEF IInv, TypeOK, PendingIsServed, ChildOK, ReportsOK, SlotOK, RoutedToAnnounced, childVars

\* The steps that begin or end a generation leave nothing in the slot but
\* the generation that is spawned, and nothing in the pending map.
LEMMA GenerationSteps ==
  ASSUME IInv, Spawn \/ BeginStop \/ FinishStop \/ StopWithoutChild \/ UnpromptedExit
  PROVE  IInv'
<1>1. UNCHANGED <<out, reader, announced>>
  BY DEF Spawn, BeginStop, FinishStop, StopWithoutChild, UnpromptedExit, childVars
<1>2. ReportsOK'
  BY <1>1 DEF IInv, ReportsOK
<1>3. MaxGen \in Nat /\ gen \in 0 .. MaxGen /\ (life # "down" => gen + 1 \in 1 .. MaxGen)
  BY ChannelAssumption DEF IInv, TypeOK, ChildOK, Gens
<1>. USE DEF IInv, PendingIsServed, SlotOK, RoutedToAnnounced
<1>4. CASE Spawn
  <2>1. life = "down" /\ gen' = gen + 1 /\ gen + 1 \in 1 .. MaxGen /\ gen + 2 \in 1 .. MaxGen
    BY <1>3, <1>4 DEF Spawn
  <2>2. \/ slot' = [slot EXCEPT !.prepared = gen + 1] /\ life' = "running" /\ child' = "alive"
        \/ slot' = [slot EXCEPT !.prepared = 0] /\ life' = "down" /\ child' = child
    BY <1>4 DEF Spawn
  <2>3. ChildOK'
    BY <2>1, <2>2, <1>3 DEF ChildOK, Gens
  <2>4. slot' \in [prepared : Gens \cup {0}, active : Gens \cup {0}] /\ SlotOK'
    BY <2>1, <2>2 DEF TypeOK, Gens
  <2>5. TypeOK'
    BY <1>4, <2>1, <2>2, <2>4 DEF Spawn, TypeOK, Gens
  <2>. QED BY <1>2, <1>4, <2>2, <2>3, <2>4, <2>5 DEF Spawn
<1>5. CASE BeginStop \/ UnpromptedExit
  <2>1. /\ pending' = {} /\ life = "running"
        /\ rpc' \in [Rpcs -> {"new", "sending", "waiting", "answered", "refused", "dropped"}]
    BY <1>5, EndedType DEF BeginStop, UnpromptedExit, RejectPending, TypeOK
  <2>2. IsFiniteSet(pending') /\ Cardinality(pending') = 0
    BY <2>1, FS_EmptySet
  <2>3. slot' = [prepared |-> 0, active |-> 0]
    BY <1>5, <2>1 DEF BeginStop, UnpromptedExit, Retired, TypeOK
  <2>4. \/ life' = "stopping" /\ gen' = gen /\ child' = child
        \/ life' = "down" /\ gen' = gen + 1 /\ child' = "none"
    BY <1>5 DEF BeginStop, UnpromptedExit, childVars
  <2>5. ChildOK'
    BY <1>3, <2>1, <2>4 DEF ChildOK, Gens
  <2>6. /\ (stdin' = stdin /\ working' = working) \/ (stdin' = <<>> /\ working' = {})
        /\ ready' = 0 /\ mailbox' = mailbox
    BY <1>5 DEF BeginStop, UnpromptedExit, childVars
  <2>7. stdin' \in Seq(Commands) /\ Len(stdin') <= StdinSize /\ working' \subseteq Rpcs
    <3>1. /\ stdin \in Seq(Commands) /\ Len(stdin) <= StdinSize /\ working \subseteq Rpcs
          /\ <<>> \in Seq(Commands) /\ Len(<<>>) = 0 /\ 0 <= StdinSize
      BY ChannelAssumption DEF TypeOK
    <3>. QED BY <2>6, <3>1
  <2>8. TypeOK'
    BY <1>1, <1>3, <2>1, <2>2, <2>3, <2>4, <2>6, <2>7, ChannelAssumption, SMTT(30) DEF TypeOK, Gens
  <2>. QED BY <1>2, <2>1, <2>2, <2>3, <2>5, <2>8
<1>6. CASE FinishStop
  <2>1. life = "stopping" /\ life' = "down" /\ gen' = gen + 1 /\ child' = "none" /\ slot' = slot
    BY <1>6 DEF FinishStop
  <2>2. ChildOK' /\ SlotOK'
    BY <2>1 DEF ChildOK
  <2>3. /\ stdin' \in Seq(Commands) /\ Len(stdin') <= StdinSize /\ working' \subseteq Rpcs
        /\ UNCHANGED <<rpc, mailbox, pending, ready>>
    BY <1>6, ChannelAssumption DEF FinishStop
  <2>4. TypeOK'
    BY <1>1, <1>3, <2>1, <2>3 DEF TypeOK
  <2>. QED BY <1>2, <2>1, <2>2, <2>3, <2>4
<1>7. CASE StopWithoutChild
  <2>1. slot' = [prepared |-> 0, active |-> 0] /\ ready' = 0 /\ life = "down"
    BY <1>7 DEF StopWithoutChild, Retired, TypeOK
  <2>2. UNCHANGED <<rpc, mailbox, pending, life, gen, stdin, child, working>>
    BY <1>7 DEF StopWithoutChild, actorVars, childVars
  <2>3. TypeOK'
    BY <1>1, <2>1, <2>2 DEF TypeOK
  <2>. QED BY <1>2, <2>1, <2>2, <2>3 DEF ChildOK
<1>. QED BY <1>4, <1>5, <1>6, <1>7

\* The child writes to the stdout of its own generation.
LEMMA ChildSteps ==
  ASSUME IInv, ChildReads \/ (\E r \in Rpcs : ChildAnswers(r)) \/ ChildAnnounces \/ ChildExits
  PROVE  IInv'
<1>. USE ChannelAssumption
     DEF IInv, TypeOK, PendingIsServed, ChildOK, SlotOK, RoutedToAnnounced
<1>1. CASE ChildReads
  <2>1. /\ stdin' \in Seq(Commands) /\ Len(stdin') <= StdinSize
        /\ Head(stdin) \in Commands
    BY <1>1 DEF ChildReads
  <2>2. working' \subseteq Rpcs
    BY <1>1, <2>1 DEF ChildReads, Commands, Request, Cancellation
  <2>. QED BY <1>1, <2>1, <2>2 DEF ChildReads, ReportsOK
<1>2. ASSUME NEW r \in Rpcs, ChildAnswers(r) PROVE IInv'
  <2>1. gen \in Gens /\ Answer(r) \in Lines
    BY <1>2 DEF ChildAnswers, Lines
  <2>2. out' \in [Gens -> Seq(Lines)]
    BY <1>2, <2>1 DEF ChildAnswers, Writes
  <2>3. ReportsOK'
    BY <1>2, <2>1, AnswerIsNoReport DEF ChildAnswers, Writes, ReportsOK
  <2>. QED BY <1>2, <2>2, <2>3 DEF ChildAnswers, actorVars
<1>3. CASE ChildAnnounces
  <2>1. gen \in Gens /\ GatewayReady \in Lines
    BY <1>3 DEF ChildAnnounces, Lines
  <2>2. out' \in [Gens -> Seq(Lines)]
    BY <1>3, <2>1 DEF ChildAnnounces, Writes
  <2>3. ReportsOK'
    BY <1>3, <2>1 DEF ChildAnnounces, Writes, ReportsOK
  <2>4. /\ UNCHANGED <<rpc, mailbox, pending, life, gen, stdin, child, working, reader, slot, ready>>
        /\ announced' = announced \cup {gen}
    BY <1>3 DEF ChildAnnounces, actorVars
  <2>5. TypeOK'
    BY <2>1, <2>2, <2>4
  <2>. QED BY <2>1, <2>3, <2>4, <2>5
<1>4. CASE ChildExits
  BY <1>4 DEF ChildExits, ReportsOK, actorVars
<1>. QED BY <1>1, <1>2, <1>3, <1>4

\* A reader holds what the child of its generation has said; it opens the
\* route only of the prepared generation, which is the current one.
LEMMA ReaderSteps ==
  ASSUME IInv, NEW g \in Gens, Reader(g)
  PROVE  IInv'
<1>0. IsFiniteSet(pending) /\ Cardinality(pending) <= MaxPending /\ MaxPending \in Nat
  BY ChannelAssumption DEF IInv, TypeOK
<1>. USE ChannelAssumption
     DEF IInv, TypeOK, PendingIsServed, ChildOK, SlotOK, RoutedToAnnounced
<1>1. CASE ReaderTakes(g)
  <2>1. /\ Head(out[g]) = out[g][1] /\ 1 \in 1 .. Len(out[g])
        /\ Head(out[g]) \in Lines /\ Tail(out[g]) \in Seq(Lines)
    BY <1>1 DEF ReaderTakes
  <2>2. \A i \in 1 .. Len(Tail(out[g])) :
          Tail(out[g])[i] = out[g][i + 1] /\ i + 1 \in 1 .. Len(out[g])
    BY <1>1 DEF ReaderTakes
  <2>3. /\ out' \in [Gens -> Seq(Lines)]
        /\ reader' \in [Gens -> Lines \cup {Nothing, Activated, Closed}]
    BY <1>1, <2>1 DEF ReaderTakes
  <2>4. Nothing # GatewayReady
    BY DEF Nothing, GatewayReady
  <2>5. announced' = announced /\ \A h \in Gens : h # g => out'[h] = out[h] /\ reader'[h] = reader[h]
    BY <1>1 DEF ReaderTakes, childVars
  <2>6. out'[g] = Tail(out[g]) /\ reader'[g] \in {out[g][1], Nothing}
    BY <1>1, <2>1 DEF ReaderTakes
  <2>7. \A h \in Gens : h # g =>
          /\ reader'[h] = GatewayReady => h \in announced'
          /\ \A i \in 1 .. Len(out'[h]) : out'[h][i] = GatewayReady => h \in announced'
    BY <2>5 DEF ReportsOK
  <2>8. /\ reader'[g] = GatewayReady => g \in announced'
        /\ \A i \in 1 .. Len(out'[g]) : out'[g][i] = GatewayReady => g \in announced'
    BY <2>1, <2>2, <2>4, <2>5, <2>6 DEF ReportsOK
  <2>9. ReportsOK'
    BY <2>7, <2>8 DEF ReportsOK
  <2>. QED BY <1>1, <2>3, <2>9 DEF ReaderTakes, actorVars, childVars
<1>2. CASE ReaderAnswers(g)
  <2>1. reader' \in [Gens -> Lines \cup {Nothing, Activated, Closed}]
    BY <1>2 DEF ReaderAnswers
  <2>2. rpc' \in [Rpcs -> {"new", "sending", "waiting", "answered", "refused", "dropped"}]
    BY <1>2, EndedType DEF ReaderAnswers
  <2>3. /\ pending' \subseteq pending /\ IsFiniteSet(pending')
        /\ Cardinality(pending') <= MaxPending
    <3>1. PICK r : pending' = pending \ {r}
      BY <1>2 DEF ReaderAnswers
    <3>2. IsFiniteSet(pending \ {r}) /\ Cardinality(pending \ {r}) <= MaxPending
      BY <1>0, OneLessFits
    <3>. QED BY <3>1, <3>2
  <2>4. Nothing # GatewayReady
    BY DEF Nothing, GatewayReady
  <2>5. ReportsOK'
    BY <1>2, <2>1, <2>4 DEF ReaderAnswers, ReportsOK, childVars
  <2>. QED BY <1>2, <2>1, <2>2, <2>3, <2>5 DEF ReaderAnswers, childVars
<1>3. CASE ReaderActivates(g)
  <2>1. reader' \in [Gens -> Lines \cup {Nothing, Activated, Closed}]
    BY <1>3 DEF ReaderActivates
  <2>2. Nothing # GatewayReady /\ Activated # GatewayReady
    BY DEF Nothing, Activated, GatewayReady
  <2>3. ReportsOK' /\ g \in announced
    BY <1>3, <2>2 DEF ReaderActivates, ReportsOK, childVars
  <2>4. slot' \in [prepared : Gens \cup {0}, active : Gens \cup {0}] /\ SlotOK'
    BY <1>3, <2>3 DEF ReaderActivates, Activates, actorVars, childVars, Gens
  <2>. QED BY <1>3, <2>1, <2>3, <2>4 DEF ReaderActivates, actorVars, childVars
<1>4. CASE ReaderPublishes(g)
  <2>1. Nothing # GatewayReady
    BY DEF Nothing, GatewayReady
  <2>2. ReportsOK'
    BY <1>4, <2>1 DEF ReaderPublishes, ReportsOK, childVars
  <2>. QED BY <1>4, <2>2 DEF ReaderPublishes, actorVars, childVars
<1>. QED BY <1>1, <1>2, <1>3, <1>4 DEF Reader

\* A reader that has returned opens no route.
LEMMA ReaderFailsStep ==
  ASSUME IInv, ReaderFails
  PROVE  IInv'
<1>1. gen \in Gens /\ <<>> \in Seq(Lines) /\ Len(<<>>) = 0
  BY DEF ReaderFails, IInv, ChildOK
<1>2. UNCHANGED <<rpc, mailbox, actorVars, childVars, slot, ready>>
  BY DEF ReaderFails
<1>3. /\ out' = [out EXCEPT ![gen] = <<>>] /\ out' \in [Gens -> Seq(Lines)]
      /\ reader' = [reader EXCEPT ![gen] = Closed]
      /\ reader' \in [Gens -> Lines \cup {Nothing, Activated, Closed}]
  BY <1>1 DEF ReaderFails, IInv, TypeOK
<1>4. ReportsOK'
  <2>1. Closed # GatewayReady
    BY DEF Closed, GatewayReady
  <2>. QED BY <1>1, <1>2, <1>3, <2>1 DEF IInv, TypeOK, ReportsOK, childVars
<1>. QED
  BY <1>2, <1>3, <1>4
  DEF IInv, TypeOK, PendingIsServed, ChildOK, SlotOK, RoutedToAnnounced, actorVars, childVars

LEMMA Stuttering == IInv /\ UNCHANGED vars => IInv'
  BY DEF vars, actorVars, childVars, IInv, TypeOK, PendingIsServed, ChildOK, ReportsOK,
         SlotOK, RoutedToAnnounced

LEMMA Invariance == Spec => []IInv
<1>1. IInv /\ Next => IInv'
  BY CallerSteps, CommandStep, GenerationSteps, ChildSteps, ReaderSteps, ReaderFailsStep DEF Next
<1>. QED BY <1>1, InitIInv, Stuttering, PTL DEF Spec

-----------------------------------------------------------------------------
\* The queues, the pending map and the generations stay within their limits
\* (handle_rpc's checks, and one generation number for the end of each child).
THEOREM TypeCorrect == Spec => []TypeOK
<1>1. IInv => TypeOK
  BY DEF IInv
<1>. QED BY <1>1, Invariance, PTL

\* Between the end of a child and the next one nobody is left waiting in the
\* pending map (reject_pending in stop_child and handle_unprompted_exit).
THEOREM PendingServed == Spec => []PendingIsServed
<1>1. IInv => PendingIsServed
  BY DEF IInv
<1>. QED BY <1>1, Invariance, PTL

\* Traffic goes to the current, announced generation only, whatever late
\* lines the readers of older generations hold (activate_generation).
THEOREM Routing == Spec => []RoutedToAnnounced
<1>1. IInv => RoutedToAnnounced
  BY DEF IInv, SlotOK
<1>. QED BY <1>1, Invariance, PTL
=============================================================================
