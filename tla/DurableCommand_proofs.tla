-------------------------- MODULE DurableCommand_proofs --------------------------
(***************************************************************************)
(* Theorems about DurableCommand, for every set of calls, operations and   *)
(* parameters, every limit of the registry and of the lane, and any number *)
(* of connections and restarts.                                            *)
(*                                                                         *)
(* The argument rests on what ties the four parts together: which          *)
(* connections have been opened, at which instance a call has been         *)
(* admitted, which execution a record stands for, and whose outcome a      *)
(* request carries.                                                        *)
(***************************************************************************)
EXTENDS DurableCommand, FiniteSetTheorems, SequenceTheorems,
        WellFoundedInduction, TLAPS

CallType == [state : Waiting \cup Over, admitted : Instances \cup {0},
             on : Conns \cup {0}, retrying : BOOLEAN, answer : Answers, exec : Nat]
ConnType == [app : {"none", "open", "closed"}, srv : {"none", "open", "zombie", "closed"},
             inst : Instances \cup {0}]
ReqStates == {"none", "wire", "queued", "running", "joined", "replied", "gone"}
ReqType == [state : ReqStates, exec : Nat, answer : Answers]
RecordType == [state : {"none", "pending", "done"}, exec : Nat]
ExecType == [call : Calls, inst : Instances, size : Nat, state : {"running", "done", "lost"}]

\* The types of the phone and the connections, of the requests, and of the
\* registry.  The limits and the byte count of TypeOK are LimitsOK below.
PhoneTypes ==
  /\ ask \in [Calls -> [operation : Operations, payload : Payloads]]
  /\ call \in [Calls -> CallType]
  /\ active \in Conns \cup {0} /\ known \in Instances \cup {0}
  /\ conn \in [Conns -> ConnType]
  /\ instance \in Instances
RequestTypes == req \in [Requests -> ReqType] /\ lane \in Seq(Requests)
RegistryTypes ==
  /\ record \in [Operations -> RecordType]
  /\ age \in Seq(Operations)
  /\ execs \in Seq(ExecType)
Types == PhoneTypes /\ RequestTypes /\ RegistryTypes

\* Connections are opened one after the other, a connection that has not been
\* opened carries no request, and the promoted one leads to the instance the
\* phone has last seen.
ConnsOK ==
  /\ \E n \in 0 .. MaxConns : \A k \in Conns : conn[k].app # "none" <=> k <= n
  /\ \A c \in Calls, k \in Conns : conn[k].app = "none" => req[<<c, k>>].state = "none"
  /\ active # 0 => conn[active].inst = known /\ known # 0

\* While a call waits, every request it has sent went to the instance it
\* remembers as the one of its first attempt.
AdmittedThere ==
  \A c \in Calls, k \in Conns :
    (call[c].state \in Waiting /\ req[<<c, k>>].state # "none")
      => (call[c].admitted # 0 /\ conn[k].inst = call[c].admitted)
LaneOK == \A i \in DOMAIN lane : req[lane[i]].state # "none"

\* What follows is said of a registry as it is between two calls of it: the
\* requests asked for, the running instance, the records, their age, the
\* executions and those forgotten.
OperationOf(asks, es, e) == asks[es[e].call].operation

\* A record stands for an execution of its operation at the running instance,
\* terminal when the execution is; the terminal ones are those its order lists,
\* each once.
RecordOK(asks, n, rs, es) ==
  \A o \in Operations : rs[o].state # "none" =>
    /\ rs[o].exec \in DOMAIN es
    /\ OperationOf(asks, es, rs[o].exec) = o
    /\ es[rs[o].exec].inst = n
    /\ rs[o].state = "done" => es[rs[o].exec].state = "done"
AgeOK(rs, order) ==
  /\ \A i, j \in DOMAIN order : order[i] = order[j] => i = j
  /\ \A o \in Operations : rs[o].state = "done" <=> \E i \in DOMAIN order : order[i] = o

\* Every execution of the running instance that has not been forgotten is the
\* one its operation's record stands for; one that is under way has a pending
\* record; only what is done is forgotten; no execution is of a later instance.
LiveOK(asks, n, rs, es, fg) ==
  /\ \A e \in DOMAIN es : es[e].inst <= n
  /\ \A e \in DOMAIN es : (es[e].inst = n /\ e \notin fg) =>
       rs[OperationOf(asks, es, e)].state # "none" /\ rs[OperationOf(asks, es, e)].exec = e
  /\ \A e \in DOMAIN es : (es[e].inst = n /\ es[e].state = "running") =>
       rs[OperationOf(asks, es, e)] = [state |-> "pending", exec |-> e]
  /\ \A e \in fg : e \in DOMAIN es /\ es[e].state = "done"
OnceOK(asks, es, fg) ==
  \A d, e \in DOMAIN es :
    (d < e /\ es[d].inst = es[e].inst /\ OperationOf(asks, es, d) = OperationOf(asks, es, e))
      => d \in fg /\ es[d].state = "done"

Registry(asks, n, rs, order, es, fg) ==
  /\ RecordOK(asks, n, rs, es) /\ AgeOK(rs, order)
  /\ LiveOK(asks, n, rs, es, fg) /\ OnceOK(asks, es, fg)
RegistryOK == Registry(ask, instance, record, age, execs, forgotten)

\* The execution e of es is of the operation and with the parameters c asks for.
Matches(asks, es, c, e) ==
  /\ e \in DOMAIN es
  /\ asks[es[e].call].operation = asks[c].operation
  /\ asks[es[e].call].payload = asks[c].payload

\* The outcome ans is that of such an execution.
Outcomes == {"result", "too_large"}
IsOutcome(asks, es, c, e, ans) ==
  /\ Matches(asks, es, c, e) /\ es[e].state = "done"
  /\ ans = IF es[e].size > MaxBytes THEN "too_large" ELSE "result"

\* A request that runs or has joined is tied to an execution of its own command;
\* one that carries an outcome carries that of such an execution, and so does a
\* call that has been answered.
Carries(asks, es, c, x) ==
  /\ x.state \in {"running", "joined"} => Matches(asks, es, c, x.exec)
  /\ (x.state = "replied" /\ x.answer \in Outcomes) => IsOutcome(asks, es, c, x.exec, x.answer)
ReqOK == \A c \in Calls, k \in Conns : Carries(ask, execs, c, req[<<c, k>>])
AnsweredOK ==
  \A c \in Calls : call[c].answer \in Outcomes =>
    IsOutcome(ask, execs, c, call[c].exec, call[c].answer)

ServerOK == AdmittedThere /\ OneServerPerCall /\ LaneOK
OutcomeOK == ReqOK /\ AnsweredOK
IInv == Types /\ ConnsOK /\ ServerOK /\ RegistryOK /\ OutcomeOK
-----------------------------------------------------------------------------
(* The operators of the registry.                                          *)

\* A set of numbers that is not empty has a least one.
LEMMA LeastIsThere ==
  ASSUME NEW S, S \subseteq Nat, S # {}
  PROVE  Min(S) \in S /\ \A y \in S : Min(S) <= y
<1> DEFINE R == OpToRel(<, Nat)
<1>1. PICK x \in S : \A y \in S : ~ (<<y, x>> \in R)
  <2>1. IsWellFoundedOn(R, Nat)
    BY NatLessThanWellFounded
  <2> HIDE DEF R
  <2> QED BY <2>1, WFMin
<1>2. \A y \in S : x <= y
  <2> SUFFICES ASSUME NEW y \in S, ~ (x <= y) PROVE FALSE
    OBVIOUS
  <2>1. y < x /\ y \in Nat /\ x \in Nat
    OBVIOUS
  <2>2. <<y, x>> \in R
    BY <2>1 DEF OpToRel
  <2> QED BY <1>1, <2>2
<1> QED BY <1>2 DEF Min

LEMMA EvictedIsACount ==
  ASSUME NEW rs, NEW order \in Seq(Operations), NEW incoming, NEW size
  PROVE  Evicted(rs, order, incoming, size) \in 0 .. Len(order)
<1> DEFINE terminal == {o \in Operations : rs[o].state = "done"}
           fits == {n \in 0 .. Len(order) :
                      /\ Held(rs) - n + incoming <= capacity
                      /\ SizeOf(rs, terminal \ Oldest(order, n), size) <= MaxBytes}
<1>1. Len(order) \in Nat /\ fits \subseteq 0 .. Len(order) /\ fits \subseteq Nat
  OBVIOUS
<1>2. Evicted(rs, order, incoming, size) = IF fits = {} THEN Len(order) ELSE Min(fits)
  BY DEF Evicted
<1> HIDE DEF fits
<1>3. CASE fits = {}
  BY <1>1, <1>2, <1>3
<1>4. CASE fits # {}
  BY <1>1, <1>2, <1>4, LeastIsThere
<1> QED BY <1>3, <1>4

LEMMA YoungerIsTheRest ==
  ASSUME NEW s \in Seq(Operations), NEW n \in 0 .. Len(s)
  PROVE  /\ Younger(s, n) \in Seq(Operations)
         /\ Len(Younger(s, n)) = Len(s) - n
         /\ DOMAIN Younger(s, n) = 1 .. Len(s) - n
         /\ \A i \in 1 .. Len(s) - n : Younger(s, n)[i] = s[n + i]
<1>1. Len(s) \in Nat /\ n \in Nat /\ n <= Len(s)
  OBVIOUS
<1>2. \A i \in n + 1 .. Len(s) : s[i] \in Operations
  BY <1>1, ElementOfSeq
<1> QED BY <1>1, <1>2, SubSeqProperties DEF Younger

\* A change of the elements of a sequence.
LEMMA SeqChanged ==
  ASSUME NEW S, NEW s \in Seq(S), NEW t, t = [i \in DOMAIN s |-> t[i]],
         \A i \in DOMAIN s : t[i] \in S
  PROVE  t \in Seq(S) /\ DOMAIN t = DOMAIN s /\ Len(t) = Len(s)
<1>1. Len(s) \in Nat /\ DOMAIN s = 1 .. Len(s)
  OBVIOUS
<1>2. t \in [1 .. Len(s) -> S]
  BY <1>1
<1> QED BY <1>1, <1>2

-----------------------------------------------------------------------------
(* Types.                                                                  *)

LEMMA Assumed ==
  /\ MaxConns \in Nat /\ MaxRestarts \in Nat /\ MaxBytes \in Nat
  /\ \A s \in Settings :
       s.asks \in [Calls -> [operation : Operations, payload : Payloads]]
BY CommandAssumption

LEMMA EndedType ==
  ASSUME NEW x \in CallType, NEW s \in Over
  PROVE  /\ Ended(x, s) \in CallType /\ Ended(x, s).state = s
         /\ Ended(x, s).answer = x.answer /\ Ended(x, s).exec = x.exec
BY DEF CallType, Ended

LEMMA ReplyType ==
  ASSUME NEW c \in Calls, NEW k \in Conns, NEW a \in Answers, NEW e \in Nat
  PROVE  /\ Reply(c, k, a, e) \in ReqType
         /\ Reply(c, k, a, e).state \in {"replied", "gone"}
         /\ Reply(c, k, a, e).state = "replied" =>
              Reply(c, k, a, e).answer = a /\ Reply(c, k, a, e).exec = e
BY DEF Reply, ReqType, ReqStates, Gone, NoRequest, Answers

LEMMA GoneType == Gone \in ReqType /\ Gone.state = "gone"
BY DEF Gone, NoRequest, ReqType, ReqStates, Answers

LEMMA InitTypes == Init => Types
<1> SUFFICES ASSUME Init PROVE Types
  OBVIOUS
<1> USE DEF Init
<1>1. PhoneTypes
  <2>1. ask \in [Calls -> [operation : Operations, payload : Payloads]]
    BY Assumed
  <2>2. NewCall \in CallType
    BY DEF NewCall, CallType, Waiting, Answers
  <2>3. instance \in Instances
    BY Assumed DEF Instances
  <2>4. conn \in [Conns -> ConnType]
    BY DEF ConnType
  <2> QED BY <2>1, <2>2, <2>3, <2>4 DEF PhoneTypes
<1>2. RequestTypes
  <2>1. NoRequest \in ReqType
    BY DEF NoRequest, ReqType, ReqStates, Answers
  <2>2. lane \in Seq(Requests)
    OBVIOUS
  <2> QED BY <2>1, <2>2 DEF RequestTypes
<1>3. RegistryTypes
  <2>1. NoRecord \in RecordType
    BY DEF NoRecord, RecordType
  <2>2. age \in Seq(Operations) /\ execs \in Seq(ExecType)
    OBVIOUS
  <2> QED BY <2>1, <2>2 DEF RegistryTypes
<1> QED BY <1>1, <1>2, <1>3 DEF Types

LEMMA Parts ==
  Types => /\ MaxConns \in Nat
           /\ Len(execs) \in Nat /\ DOMAIN execs = 1 .. Len(execs)
           /\ \A e \in DOMAIN execs : /\ execs[e] \in ExecType /\ execs[e].call \in Calls
                                      /\ OperationOf(ask, execs, e) \in Operations
           /\ Len(age) \in Nat /\ DOMAIN age = 1 .. Len(age)
           /\ \A i \in DOMAIN age : age[i] \in Operations
           /\ Len(lane) \in Nat /\ DOMAIN lane = 1 .. Len(lane)
           /\ \A i \in DOMAIN lane : lane[i] \in Requests
           /\ \A r \in Requests : r = <<r[1], r[2]>> /\ r[1] \in Calls /\ r[2] \in Conns
<1> SUFFICES ASSUME Types
             PROVE  /\ \A e \in DOMAIN execs : execs[e] \in ExecType
                    /\ \A e \in DOMAIN execs : execs[e].call \in Calls
                    /\ \A i \in DOMAIN age : age[i] \in Operations
                    /\ \A i \in DOMAIN lane : lane[i] \in Requests
                    /\ \A e \in DOMAIN execs : OperationOf(ask, execs, e) \in Operations
  BY Assumed DEF Types, RequestTypes, RegistryTypes, Requests
<1>1. \A e \in DOMAIN execs : execs[e] \in ExecType
  BY DEF Types, RegistryTypes
<1>2. \A e \in DOMAIN execs : execs[e].call \in Calls
  BY <1>1 DEF ExecType
<1>3. \A e \in DOMAIN execs : OperationOf(ask, execs, e) \in Operations
  BY <1>2 DEF Types, PhoneTypes, OperationOf
<1>4. \A i \in DOMAIN age : age[i] \in Operations
  BY DEF Types, RegistryTypes
<1>5. \A i \in DOMAIN lane : lane[i] \in Requests
  BY DEF Types, RequestTypes
<1> QED BY <1>1, <1>2, <1>3, <1>4, <1>5

-----------------------------------------------------------------------------
(* What most steps leave alone.                                            *)

\* A step that does not touch the registry.
LEMMA RegistryStays ==
  ASSUME RegistryOK, UNCHANGED <<ask, record, age, forgotten, execs, instance>>
  PROVE  RegistryOK'
BY DEF RegistryOK

\* A step that opens no connection, sends no request for the first time, and
\* lets no call wait again.
LEMMA ConnectionsStay ==
  ASSUME ConnsOK, ServerOK,
         \A k \in Conns : /\ conn'[k].inst = conn[k].inst
                          /\ conn'[k].app = "none" <=> conn[k].app = "none",
         \A c \in Calls, k \in Conns :
            req'[<<c, k>>].state = "none" <=> req[<<c, k>>].state = "none",
         active' \in {active, 0}, active \in Conns \cup {0}, known' = known,
         \A c \in Calls : call'[c].state \in Waiting =>
            call[c].state \in Waiting /\ call'[c].admitted = call[c].admitted,
         \A i \in DOMAIN lane' : req'[lane'[i]].state # "none"
  PROVE  ConnsOK' /\ ServerOK'
<1>1. ConnsOK'
  <2>1. \E n \in 0 .. MaxConns : \A k \in Conns : conn'[k].app # "none" <=> k <= n
    BY DEF ConnsOK
  <2>2. \A c \in Calls, k \in Conns : conn'[k].app = "none" => req'[<<c, k>>].state = "none"
    BY DEF ConnsOK
  <2>3. active' # 0 => conn'[active'].inst = known' /\ known' # 0
    BY DEF ConnsOK
  <2> QED BY <2>1, <2>2, <2>3 DEF ConnsOK
<1>2. AdmittedThere'
  BY DEF ServerOK, AdmittedThere
<1>3. OneServerPerCall'
  BY DEF ServerOK, OneServerPerCall
<1>4. LaneOK'
  BY DEF LaneOK
<1> QED BY <1>1, <1>2, <1>3, <1>4 DEF ServerOK

\* A step that ties no request to an execution and gives no call an outcome.
LEMMA OutcomesStay ==
  ASSUME OutcomeOK, UNCHANGED <<ask, execs>>,
         \A c \in Calls, k \in Conns :
            \/ req'[<<c, k>>] = req[<<c, k>>]
            \/ req'[<<c, k>>].state \notin {"running", "joined", "replied"}
            \/ req'[<<c, k>>].state = "replied" /\ req'[<<c, k>>].answer \notin Outcomes,
         \A c \in Calls :
            \/ call'[c].answer = call[c].answer /\ call'[c].exec = call[c].exec
            \/ call'[c].answer \notin Outcomes
  PROVE  OutcomeOK'
<1>1. ReqOK'
  <2> SUFFICES ASSUME NEW c \in Calls, NEW k \in Conns
               PROVE  Carries(ask, execs, c, req'[<<c, k>>])
    BY DEF ReqOK
  <2>1. CASE req'[<<c, k>>] = req[<<c, k>>]
    BY <2>1 DEF OutcomeOK, ReqOK
  <2>2. CASE req'[<<c, k>>] # req[<<c, k>>]
    BY <2>2 DEF Carries
  <2> QED BY <2>1, <2>2
<1>2. AnsweredOK'
  BY DEF OutcomeOK, AnsweredOK
<1> QED BY <1>1, <1>2 DEF OutcomeOK

LEMMA InvFrom ==
  IInv => /\ Types /\ ConnsOK /\ ServerOK /\ RegistryOK /\ OutcomeOK
          /\ LaneOK /\ PhoneTypes /\ RequestTypes /\ RegistryTypes
          /\ active \in Conns \cup {0}
          /\ \A c \in Calls : call[c] \in CallType
          /\ \A k \in Conns : conn[k] \in ConnType
          /\ \A c \in Calls, k \in Conns : <<c, k>> \in Requests /\ req[<<c, k>>] \in ReqType
BY DEF IInv, Types, ServerOK, PhoneTypes, RequestTypes, Requests

-----------------------------------------------------------------------------
(* The steps of the phone.                                                 *)

LEMMA RetryKeeps ==
  ASSUME IInv, NEW c \in Calls, Retry(c)
  PROVE  IInv'
<1> USE InvFrom DEF Retry, fixedVars, registryVars
<1>1. PICK p \in BOOLEAN :
        call' = [call EXCEPT ![c] = IF p THEN [@ EXCEPT !.state = "waiting", !.retrying = TRUE]
                                    ELSE Ended(@, "failed")]
  <2> DEFINE others == {d \in Calls : d # c /\ call[d].retrying}
             p == call[c].retrying \/ Cardinality(others) < RetryLimit
  <2>1. p \in BOOLEAN
    OBVIOUS
  <2> QED BY <2>1
<1>2. Ended(call[c], "failed") \in CallType /\ Ended(call[c], "failed").state = "failed"
      /\ Ended(call[c], "failed").answer = call[c].answer
      /\ Ended(call[c], "failed").exec = call[c].exec
  BY EndedType DEF Over
<1> DEFINE w == [call[c] EXCEPT !.state = "waiting", !.retrying = TRUE]
<1>3. w \in CallType /\ w.state = "waiting" /\ w.answer = call[c].answer
      /\ w.exec = call[c].exec /\ w.admitted = call[c].admitted
  BY DEF CallType, Waiting
<1> HIDE DEF w
<1>4. \A d \in Calls : d # c => call'[d] = call[d]
  BY <1>1 DEF PhoneTypes
<1>5. call'[c] \in {w, Ended(call[c], "failed")}
  BY <1>1 DEF PhoneTypes, w
<1>6. Types'
  <2>1. call' \in [Calls -> CallType]
    <3>1. DOMAIN call' = Calls /\ call' = [d \in Calls |-> call'[d]]
      BY <1>1 DEF PhoneTypes
    <3>2. \A d \in Calls : call'[d] \in CallType
      BY <1>4, <1>5, <1>2, <1>3
    <3> QED BY <3>1, <3>2
  <2>2. PhoneTypes'
    BY <2>1 DEF PhoneTypes
  <2>3. RequestTypes' /\ RegistryTypes'
    BY DEF RequestTypes, RegistryTypes
  <2> QED BY <2>2, <2>3 DEF Types
<1>7. \A d \in Calls : call'[d].state \in Waiting =>
         call[d].state \in Waiting /\ call'[d].admitted = call[d].admitted
  BY <1>2, <1>3, <1>4, <1>5 DEF Waiting
<1>8. \A i \in DOMAIN lane' : req'[lane'[i]].state # "none"
  BY DEF LaneOK
<1>9. ConnsOK' /\ ServerOK'
  BY <1>7, <1>8, ConnectionsStay
<1>10. \A d \in Calls : call'[d].answer = call[d].answer /\ call'[d].exec = call[d].exec
  BY <1>2, <1>3, <1>4, <1>5
<1>11. OutcomeOK'
  BY <1>10, OutcomesStay
<1>12. RegistryOK'
  BY RegistryStays
<1> QED BY <1>6, <1>9, <1>11, <1>12 DEF IInv

\* What a step does to the types when it leaves the registry alone.
LEMMA TypesFrom ==
  ASSUME Types, UNCHANGED <<ask, record, age, execs, instance>>,
         call' \in [Calls -> CallType], req' \in [Requests -> ReqType],
         active' \in Conns \cup {0}, known' \in Instances \cup {0},
         conn' \in [Conns -> ConnType], lane' \in Seq(Requests)
  PROVE  Types'
BY DEF Types, PhoneTypes, RequestTypes, RegistryTypes

LEMMA AbortKeeps ==
  ASSUME IInv, NEW c \in Calls, Abort(c)
  PROVE  IInv'
<1> USE InvFrom DEF Abort, fixedVars, registryVars
<1> DEFINE x == [Ended(call[c], "aborted") EXCEPT
                  !.on = IF call[c].state = "sent" THEN call[c].on ELSE 0]
<1>1. x \in CallType /\ x.state = "aborted" /\ x.answer = call[c].answer /\ x.exec = call[c].exec
  <2>1. Ended(call[c], "aborted") \in CallType /\ Ended(call[c], "aborted").state = "aborted"
        /\ Ended(call[c], "aborted").answer = call[c].answer
        /\ Ended(call[c], "aborted").exec = call[c].exec
    BY EndedType DEF Over
  <2>2. call[c].on \in Conns \cup {0}
    BY DEF CallType
  <2> QED BY <2>1, <2>2 DEF CallType
<1>2. call' = [call EXCEPT ![c] = x]
  OBVIOUS
<1> HIDE DEF x
<1>3. call' \in [Calls -> CallType] /\ call'[c] = x /\ \A d \in Calls : d # c => call'[d] = call[d]
  BY <1>1, <1>2 DEF PhoneTypes
<1>4. \A d \in Calls, k \in Conns :
         \/ req'[<<d, k>>] = req[<<d, k>>]
         \/ req'[<<d, k>>] = Gone /\ req[<<d, k>>].state = "replied"
  OBVIOUS
<1>5. req' \in [Requests -> ReqType]
  <2>1. \A r \in Requests : req'[r] \in {req[r], Gone}
    OBVIOUS
  <2>2. DOMAIN req' = Requests /\ req' = [r \in Requests |-> req'[r]]
    OBVIOUS
  <2> QED BY <2>1, <2>2, GoneType DEF RequestTypes
<1>6. Types'
  BY <1>3, <1>5, TypesFrom DEF PhoneTypes, RequestTypes
<1>7. \A d \in Calls, k \in Conns : req'[<<d, k>>].state = "none" <=> req[<<d, k>>].state = "none"
  BY <1>4, GoneType
<1>8. \A i \in DOMAIN lane' : req'[lane'[i]].state # "none"
  <2> TAKE i \in DOMAIN lane'
  <2>1. lane[i] \in Requests /\ req[lane[i]].state # "none"
    BY Parts DEF LaneOK
  <2> QED BY <2>1, GoneType
<1>9. \A d \in Calls : call'[d].state \in Waiting =>
         call[d].state \in Waiting /\ call'[d].admitted = call[d].admitted
  BY <1>1, <1>3 DEF Waiting
<1>10. ConnsOK' /\ ServerOK'
  BY <1>7, <1>8, <1>9, ConnectionsStay
<1>11. \A d \in Calls : call'[d].answer = call[d].answer /\ call'[d].exec = call[d].exec
  BY <1>1, <1>3
<1>12. OutcomeOK'
  BY <1>4, <1>11, GoneType, OutcomesStay
<1>13. RegistryOK'
  BY RegistryStays
<1> QED BY <1>6, <1>10, <1>12, <1>13 DEF IInv

LEMMA ReceiveKeeps ==
  ASSUME IInv, NEW c \in Calls, NEW k \in Conns, Receive(c, k)
  PROVE  IInv'
<1> USE InvFrom DEF Receive, fixedVars, registryVars
<1> DEFINE q == req[<<c, k>>]
           x == [Ended(call[c], "answered") EXCEPT !.answer = q.answer, !.exec = q.exec]
<1>1. x \in CallType /\ x.state = "answered" /\ x.answer = q.answer /\ x.exec = q.exec
  <2>1. Ended(call[c], "answered") \in CallType /\ Ended(call[c], "answered").state = "answered"
    BY EndedType DEF Over
  <2>2. q.answer \in Answers /\ q.exec \in Nat
    BY DEF ReqType
  <2> HIDE DEF q
  <2> QED BY <2>1, <2>2 DEF CallType
<1>2. call' = [call EXCEPT ![c] = x]
  OBVIOUS
<1> HIDE DEF x
<1>3. call' \in [Calls -> CallType] /\ call'[c] = x /\ \A d \in Calls : d # c => call'[d] = call[d]
  BY <1>1, <1>2 DEF PhoneTypes
<1>4. /\ req' \in [Requests -> ReqType] /\ req'[<<c, k>>] = Gone
      /\ \A r \in Requests : r # <<c, k>> => req'[r] = req[r]
  BY GoneType DEF RequestTypes
<1>5. Types'
  BY <1>3, <1>4, TypesFrom DEF PhoneTypes, RequestTypes
<1>6. \A d \in Calls, j \in Conns :
         req'[<<d, j>>] = req[<<d, j>>] \/ (<<d, j>> = <<c, k>> /\ req'[<<d, j>>] = Gone)
  BY <1>4
<1>7. \A d \in Calls, j \in Conns : req'[<<d, j>>].state = "none" <=> req[<<d, j>>].state = "none"
  BY <1>6, GoneType
<1>8. \A i \in DOMAIN lane' : req'[lane'[i]].state # "none"
  <2> TAKE i \in DOMAIN lane'
  <2>1. lane[i] \in Requests /\ req[lane[i]].state # "none"
    BY Parts DEF LaneOK
  <2> QED BY <2>1, <1>4, GoneType
<1>9. \A d \in Calls : call'[d].state \in Waiting =>
         call[d].state \in Waiting /\ call'[d].admitted = call[d].admitted
  BY <1>1, <1>3 DEF Waiting
<1>10. ConnsOK' /\ ServerOK'
  BY <1>7, <1>8, <1>9, ConnectionsStay
<1>11. ReqOK'
  <2> SUFFICES ASSUME NEW d \in Calls, NEW j \in Conns
               PROVE  Carries(ask, execs, d, req'[<<d, j>>])
    BY DEF ReqOK
  <2>1. Carries(ask, execs, d, req[<<d, j>>])
    BY DEF OutcomeOK, ReqOK
  <2>2. Carries(ask, execs, d, Gone)
    BY GoneType DEF Carries
  <2> QED BY <2>1, <2>2, <1>6
<1>12. AnsweredOK'
  <2> SUFFICES ASSUME NEW d \in Calls, call'[d].answer \in Outcomes
               PROVE  IsOutcome(ask, execs, d, call'[d].exec, call'[d].answer)
    BY DEF AnsweredOK
  <2>1. CASE d # c
    BY <2>1, <1>3 DEF OutcomeOK, AnsweredOK
  <2>2. CASE d = c
    <3>1. Carries(ask, execs, c, req[<<c, k>>])
      BY DEF OutcomeOK, ReqOK
    <3> QED BY <3>1, <2>2, <1>1, <1>3 DEF Carries
  <2> QED BY <2>1, <2>2
<1>13. RegistryOK'
  BY RegistryStays
<1> QED BY <1>5, <1>10, <1>11, <1>12, <1>13 DEF IInv, OutcomeOK

LEMMA PhoneLosesKeeps ==
  ASSUME IInv, NEW k \in Conns, PhoneLoses(k)
  PROVE  IInv'
<1> USE InvFrom DEF PhoneLoses, fixedVars, registryVars
<1> DEFINE x == [conn[k] EXCEPT !.app = "closed"]
<1>1. x \in ConnType /\ x.app = "closed" /\ x.inst = conn[k].inst
  BY DEF ConnType
<1>2. conn' = [conn EXCEPT ![k] = x]
  OBVIOUS
<1> HIDE DEF x
<1>3. conn' \in [Conns -> ConnType] /\ conn'[k] = x /\ \A j \in Conns : j # k => conn'[j] = conn[j]
  BY <1>1, <1>2 DEF PhoneTypes
<1>4. \A c \in Calls : /\ call'[c] \in CallType /\ call'[c].admitted = call[c].admitted
                       /\ call'[c].answer = call[c].answer /\ call'[c].exec = call[c].exec
                       /\ call'[c].state \in Waiting => call[c].state \in Waiting
  <2> TAKE c \in Calls
  <2>1. CASE WaitsOn(c, k)
    <3>1. call'[c] = [call[c] EXCEPT !.state = "closed"] /\ call[c].state = "sent"
      BY <2>1 DEF WaitsOn
    <3> QED BY <3>1 DEF CallType, Waiting
  <2>2. CASE ~ WaitsOn(c, k)
    BY <2>2
  <2> QED BY <2>1, <2>2
<1>5. call' \in [Calls -> CallType]
  <2>1. DOMAIN call' = Calls /\ call' = [c \in Calls |-> call'[c]]
    OBVIOUS
  <2> QED BY <2>1, <1>4
<1>6. \A d \in Calls, j \in Conns :
         \/ req'[<<d, j>>] = req[<<d, j>>]
         \/ req'[<<d, j>>] = Gone /\ req[<<d, j>>].state = "replied"
  OBVIOUS
<1>7. req' \in [Requests -> ReqType]
  <2>1. \A r \in Requests : req'[r] \in {req[r], Gone}
    OBVIOUS
  <2>2. DOMAIN req' = Requests /\ req' = [r \in Requests |-> req'[r]]
    OBVIOUS
  <2> QED BY <2>1, <2>2, GoneType DEF RequestTypes
<1>8. active' \in {active, 0}
  OBVIOUS
<1>9. Types'
  BY <1>3, <1>5, <1>7, <1>8, TypesFrom DEF PhoneTypes, RequestTypes
<1>10. \A d \in Calls, j \in Conns : req'[<<d, j>>].state = "none" <=> req[<<d, j>>].state = "none"
  BY <1>6, GoneType
<1>11. \A i \in DOMAIN lane' : req'[lane'[i]].state # "none"
  <2> TAKE i \in DOMAIN lane'
  <2>1. lane[i] \in Requests /\ req[lane[i]].state # "none"
    BY Parts DEF LaneOK
  <2> QED BY <2>1, GoneType
<1>12. \A j \in Conns : /\ conn'[j].inst = conn[j].inst
                        /\ conn'[j].app = "none" <=> conn[j].app = "none"
  BY <1>1, <1>3
<1>13. ConnsOK' /\ ServerOK'
  BY <1>4, <1>8, <1>10, <1>11, <1>12, ConnectionsStay
<1>14. OutcomeOK'
  BY <1>4, <1>6, GoneType, OutcomesStay
<1>15. RegistryOK'
  BY RegistryStays
<1> QED BY <1>9, <1>13, <1>14, <1>15 DEF IInv

\* The connection that comes up is one that has never been used.
LEMMA OpenedIs ==
  ASSUME NEW n \in 0 .. MaxConns, \A k \in Conns : conn[k].app # "none" <=> k <= n
  PROVE  Opened = n
<1>1. MaxConns \in Nat /\ n \in Nat /\ n <= MaxConns
  BY Assumed
<1>2. {k \in Conns : conn[k].app # "none"} = 1 .. n
  BY <1>1 DEF Conns
<1>3. Cardinality(1 .. n) = n
  BY <1>1, FS_Interval
<1> QED BY <1>2, <1>3 DEF Opened

LEMMA ConnectKeeps ==
  ASSUME IInv, Connect
  PROVE  IInv'
<1> USE InvFrom DEF Connect, fixedVars, registryVars
<1>1. PICK n \in 0 .. MaxConns : \A k \in Conns : conn[k].app # "none" <=> k <= n
  BY DEF ConnsOK
<1>2. Opened = n
  BY <1>1, OpenedIs
<1> DEFINE k == n + 1
           x == [app |-> "open", srv |-> "open", inst |-> instance]
<1>3. n < MaxConns /\ k \in Conns /\ k \in Nat \ {0}
  BY <1>2, Assumed DEF Conns
<1>4. conn' = [conn EXCEPT ![k] = x] /\ active' = k
  BY <1>2
<1>5. x \in ConnType /\ x.app = "open" /\ x.inst = instance
  BY DEF ConnType, PhoneTypes
<1> HIDE DEF x
<1>6. conn' \in [Conns -> ConnType] /\ conn'[k] = x /\ \A j \in Conns : j # k => conn'[j] = conn[j]
  BY <1>3, <1>4, <1>5 DEF PhoneTypes
<1>7. Types'
  <2>1. active' \in Conns \cup {0} /\ known' \in Instances \cup {0}
    BY <1>3, <1>4 DEF PhoneTypes
  <2> QED BY <1>6, <2>1, TypesFrom DEF PhoneTypes, RequestTypes
<1>8. \A c \in Calls : req[<<c, k>>].state = "none"
  <2>1. ~ (k <= n)
    BY <1>3
  <2>2. conn[k].app = "none"
    BY <1>1, <1>3, <2>1
  <2> QED BY <2>2, <1>3 DEF ConnsOK
<1>9. ConnsOK'
  <2>1. \A j \in Conns : conn'[j].app # "none" <=> j <= k
    <3> TAKE j \in Conns
    <3>1. j \in Nat /\ n \in Nat
      BY Assumed DEF Conns
    <3>2. CASE j = k
      BY <3>1, <3>2, <1>5, <1>6
    <3>3. CASE j # k
      <4>1. conn'[j] = conn[j] /\ (j <= n <=> j <= k)
        BY <3>1, <3>3, <1>6
      <4> QED BY <4>1, <1>1
    <3> QED BY <3>2, <3>3
  <2>2. \E m \in 0 .. MaxConns : \A j \in Conns : conn'[j].app # "none" <=> j <= m
    BY <2>1, <1>3, Assumed
  <2>3. \A c \in Calls, j \in Conns : conn'[j].app = "none" => req'[<<c, j>>].state = "none"
    BY <1>5, <1>6 DEF ConnsOK
  <2>4. active' # 0 => conn'[active'].inst = known' /\ known' # 0
    <3>1. instance # 0
      BY DEF PhoneTypes, Instances
    <3> QED BY <3>1, <1>4, <1>5, <1>6
  <2> QED BY <2>2, <2>3, <2>4 DEF ConnsOK
<1>10. ServerOK'
  <2>1. \A c \in Calls, j \in Conns : req[<<c, j>>].state # "none" => conn'[j] = conn[j]
    BY <1>6, <1>8
  <2>2. AdmittedThere'
    BY <2>1 DEF ServerOK, AdmittedThere
  <2>3. OneServerPerCall'
    BY <2>1 DEF ServerOK, OneServerPerCall
  <2>4. LaneOK'
    BY DEF LaneOK
  <2> QED BY <2>2, <2>3, <2>4 DEF ServerOK
<1>11. OutcomeOK'
  BY OutcomesStay
<1>12. RegistryOK'
  BY RegistryStays
<1> QED BY <1>7, <1>9, <1>10, <1>11, <1>12 DEF IInv

\* A call goes to the promoted connection only when that leads to the instance
\* that has admitted it.
LEMMA RouteKeeps ==
  ASSUME IInv, NEW c \in Calls, Route(c)
  PROVE  IInv'
<1> USE InvFrom DEF Route, fixedVars, registryVars
<1>1. CASE call[c].admitted \notin {0, known}
  <2>1. call' = [call EXCEPT ![c] = Ended(@, "failed")] /\ UNCHANGED req
    BY <1>1
  <2>2. Ended(call[c], "failed") \in CallType /\ Ended(call[c], "failed").state = "failed"
        /\ Ended(call[c], "failed").answer = call[c].answer
        /\ Ended(call[c], "failed").exec = call[c].exec
    BY EndedType DEF Over
  <2>3. /\ call' \in [Calls -> CallType] /\ call'[c] = Ended(call[c], "failed")
        /\ \A d \in Calls : d # c => call'[d] = call[d]
    BY <2>1, <2>2 DEF PhoneTypes
  <2>4. Types'
    BY <2>1, <2>3, TypesFrom DEF PhoneTypes, RequestTypes
  <2>5. \A d \in Calls : call'[d].state \in Waiting =>
           call[d].state \in Waiting /\ call'[d].admitted = call[d].admitted
    BY <2>2, <2>3 DEF Waiting
  <2>6. \A i \in DOMAIN lane' : req'[lane'[i]].state # "none"
    BY <2>1 DEF LaneOK
  <2>7. ConnsOK' /\ ServerOK'
    BY <2>1, <2>5, <2>6, ConnectionsStay
  <2>8. \A d \in Calls : call'[d].answer = call[d].answer /\ call'[d].exec = call[d].exec
    BY <2>2, <2>3
  <2>9. OutcomeOK'
    BY <2>1, <2>8, OutcomesStay
  <2>10. RegistryOK'
    BY RegistryStays
  <2> QED BY <2>4, <2>7, <2>9, <2>10 DEF IInv
<1>2. CASE call[c].admitted \in {0, known}
  <2> DEFINE x == [call[c] EXCEPT !.state = "sent", !.on = active, !.admitted = known]
             q == [req[<<c, active>>] EXCEPT !.state = "wire"]
  <2>1. active \in Conns /\ conn[active].app = "open" /\ conn[active].inst = known /\ known # 0
    BY DEF ConnsOK
  <2>2. /\ x \in CallType /\ x.state = "sent" /\ x.admitted = known
        /\ x.answer = call[c].answer /\ x.exec = call[c].exec
    <3>1. active \in Conns \cup {0} /\ known \in Instances \cup {0}
      BY DEF PhoneTypes
    <3> QED BY <3>1 DEF CallType, Waiting
  <2>3. q \in ReqType /\ q.state = "wire"
    BY <2>1 DEF ReqType, ReqStates
  <2>4. call' = [call EXCEPT ![c] = x] /\ req' = [req EXCEPT ![<<c, active>>] = q]
    BY <1>2 DEF Sent
  <2> HIDE DEF x, q
  <2>5. call' \in [Calls -> CallType] /\ call'[c] = x /\ \A d \in Calls : d # c => call'[d] = call[d]
    BY <2>2, <2>4 DEF PhoneTypes
  <2>6. /\ req' \in [Requests -> ReqType] /\ req'[<<c, active>>] = q
        /\ \A r \in Requests : r # <<c, active>> => req'[r] = req[r]
    BY <2>1, <2>3, <2>4 DEF RequestTypes
  <2>7. \A d \in Calls, k \in Conns :
           req'[<<d, k>>] = req[<<d, k>>] \/ (d = c /\ k = active /\ req'[<<d, k>>] = q)
    BY <2>6
  <2>8. Types'
    BY <2>5, <2>6, TypesFrom DEF PhoneTypes, RequestTypes
  <2>9. ConnsOK'
    <3>1. \E n \in 0 .. MaxConns : \A k \in Conns : conn'[k].app # "none" <=> k <= n
      BY DEF ConnsOK
    <3>2. \A d \in Calls, k \in Conns : conn'[k].app = "none" => req'[<<d, k>>].state = "none"
      BY <2>1, <2>7 DEF ConnsOK
    <3>3. active' # 0 => conn'[active'].inst = known' /\ known' # 0
      BY DEF ConnsOK
    <3> QED BY <3>1, <3>2, <3>3 DEF ConnsOK
  <2>10. AdmittedThere'
    <3> SUFFICES ASSUME NEW d \in Calls, NEW k \in Conns,
                        call'[d].state \in Waiting, req'[<<d, k>>].state # "none"
                 PROVE  call'[d].admitted # 0 /\ conn[k].inst = call'[d].admitted
      BY DEF AdmittedThere
    <3>1. CASE d # c
      BY <3>1, <2>5, <2>7 DEF ServerOK, AdmittedThere
    <3>2. CASE d = c /\ k = active
      BY <3>2, <2>1, <2>2, <2>5
    <3>3. CASE d = c /\ k # active
      <4>1. req[<<c, k>>].state # "none" /\ call[c].state \in Waiting
        BY <3>3, <2>7 DEF Waiting
      <4>2. call[c].admitted # 0 /\ conn[k].inst = call[c].admitted
        BY <4>1 DEF ServerOK, AdmittedThere
      <4> QED BY <4>2, <3>3, <1>2, <2>1, <2>2, <2>5
    <3> QED BY <3>1, <3>2, <3>3
  <2>11. OneServerPerCall'
    <3> SUFFICES ASSUME NEW d \in Calls, NEW j \in Conns, NEW k \in Conns,
                        req'[<<d, j>>].state # "none", req'[<<d, k>>].state # "none"
                 PROVE  conn[j].inst = conn[k].inst
      BY DEF OneServerPerCall
    <3>1. CASE d # c
      BY <3>1, <2>7 DEF ServerOK, OneServerPerCall
    <3>2. CASE d = c
      <4>1. call'[c].state \in Waiting
        BY <2>2, <2>5 DEF Waiting
      <4> QED BY <4>1, <3>2, <2>10 DEF AdmittedThere
    <3> QED BY <3>1, <3>2
  <2>12. LaneOK'
    <3> SUFFICES ASSUME NEW i \in DOMAIN lane PROVE req'[lane[i]].state # "none"
      BY DEF LaneOK
    <3>1. lane[i] \in Requests /\ req[lane[i]].state # "none"
      BY Parts DEF LaneOK
    <3> QED BY <3>1, <2>3, <2>6
  <2>13. \A d \in Calls : call'[d].answer = call[d].answer /\ call'[d].exec = call[d].exec
    BY <2>2, <2>5
  <2>14. OutcomeOK'
    BY <2>3, <2>7, <2>13, OutcomesStay
  <2>15. RegistryOK'
    BY RegistryStays
  <2> QED BY <2>8, <2>9, <2>10, <2>11, <2>12, <2>14, <2>15 DEF IInv, ServerOK
<1> QED BY <1>1, <1>2

-----------------------------------------------------------------------------
(* The steps of the server that leave the registry alone.                  *)

\* A step that only moves requests on or closes the server's end of a
\* connection.
LEMMA RequestsMove ==
  ASSUME IInv,
         UNCHANGED <<ask, call, active, known, instance, record, age, forgotten, execs>>,
         conn' \in [Conns -> ConnType], req' \in [Requests -> ReqType], lane' \in Seq(Requests),
         \A k \in Conns : conn'[k].inst = conn[k].inst /\ conn'[k].app = conn[k].app,
         \A c \in Calls, k \in Conns :
            req'[<<c, k>>].state = "none" <=> req[<<c, k>>].state = "none",
         \A c \in Calls, k \in Conns : Carries(ask, execs, c, req'[<<c, k>>]),
         \A i \in DOMAIN lane' : req'[lane'[i]].state # "none"
  PROVE  IInv'
<1> USE InvFrom
<1>1. Types'
  BY TypesFrom DEF PhoneTypes
<1>2. ConnsOK' /\ ServerOK'
  BY ConnectionsStay
<1>3. ReqOK'
  BY DEF ReqOK
<1>4. AnsweredOK'
  BY DEF OutcomeOK, AnsweredOK
<1>5. RegistryOK'
  BY RegistryStays
<1> QED BY <1>1, <1>2, <1>3, <1>4, <1>5 DEF IInv, OutcomeOK

\* A request that is there and gets another state.
LEMMA RequestMoves ==
  ASSUME IInv, NEW c \in Calls, NEW k \in Conns, NEW q \in ReqType, q.state # "none",
         req[<<c, k>>].state # "none", Carries(ask, execs, c, q),
         req' = [req EXCEPT ![<<c, k>>] = q],
         UNCHANGED <<ask, call, active, known, instance, record, age, forgotten, execs>>,
         conn' \in [Conns -> ConnType],
         \A j \in Conns : conn'[j].inst = conn[j].inst /\ conn'[j].app = conn[j].app,
         lane' \in Seq(Requests),
         \A i \in DOMAIN lane' : lane'[i] = <<c, k>> \/ \E j \in DOMAIN lane : lane'[i] = lane[j]
  PROVE  IInv'
<1> USE InvFrom
<1>1. /\ req' \in [Requests -> ReqType] /\ req'[<<c, k>>] = q
      /\ \A r \in Requests : r # <<c, k>> => req'[r] = req[r]
  BY DEF RequestTypes
<1>2. \A d \in Calls, j \in Conns :
         req'[<<d, j>>] = req[<<d, j>>] \/ (d = c /\ j = k /\ req'[<<d, j>>] = q)
  BY <1>1
<1>3. \A d \in Calls, j \in Conns : req'[<<d, j>>].state = "none" <=> req[<<d, j>>].state = "none"
  BY <1>2
<1>4. \A d \in Calls, j \in Conns : Carries(ask, execs, d, req'[<<d, j>>])
  BY <1>2 DEF OutcomeOK, ReqOK
<1>5. \A i \in DOMAIN lane' : req'[lane'[i]].state # "none"
  <2>1. \A j \in DOMAIN lane : lane[j] \in Requests /\ req[lane[j]].state # "none"
    BY Parts DEF LaneOK
  <2> QED BY <2>1, <1>1
<1> QED BY <1>1, <1>3, <1>4, <1>5, RequestsMove

\* The requests on the wire of a connection that ends.
LEMMA VanishedKeeps ==
  ASSUME IInv, NEW k \in Conns, NEW x \in ConnType,
         x.app = conn[k].app, x.inst = conn[k].inst,
         conn' = [conn EXCEPT ![k] = x], req' = Vanished(k),
         UNCHANGED <<ask, call, active, known, instance, lane, record, age, forgotten, execs>>
  PROVE  IInv'
<1> USE InvFrom DEF Vanished
<1>1. conn' \in [Conns -> ConnType] /\ conn'[k] = x /\ \A j \in Conns : j # k => conn'[j] = conn[j]
  BY DEF PhoneTypes
<1>2. \A r \in Requests : req'[r] = req[r] \/ (req'[r] = Gone /\ req[r].state = "wire")
  OBVIOUS
<1>3. req' \in [Requests -> ReqType]
  <2>1. DOMAIN req' = Requests /\ req' = [r \in Requests |-> req'[r]]
    OBVIOUS
  <2> QED BY <2>1, <1>2, GoneType DEF RequestTypes
<1>4. \A c \in Calls, j \in Conns : req'[<<c, j>>].state = "none" <=> req[<<c, j>>].state = "none"
  BY <1>2, GoneType
<1>5. \A c \in Calls, j \in Conns : Carries(ask, execs, c, req'[<<c, j>>])
  <2> TAKE c \in Calls, j \in Conns
  <2>1. Carries(ask, execs, c, Gone)
    BY GoneType DEF Carries
  <2>2. Carries(ask, execs, c, req[<<c, j>>])
    BY DEF OutcomeOK, ReqOK
  <2> QED BY <2>1, <2>2, <1>2
<1>6. \A i \in DOMAIN lane' : req'[lane'[i]].state # "none"
  <2>1. \A i \in DOMAIN lane : lane[i] \in Requests /\ req[lane[i]].state # "none"
    BY Parts DEF LaneOK
  <2> QED BY <2>1, <1>2, GoneType
<1> QED BY <1>1, <1>3, <1>4, <1>5, <1>6, RequestsMove DEF RequestTypes

LEMMA ServerDropsKeeps ==
  ASSUME IInv, NEW k \in Conns, ServerDrops(k)
  PROVE  IInv'
<1> USE InvFrom DEF ServerDrops, fixedVars, phoneVars, registryVars
<1>1. CASE conn' = [conn EXCEPT ![k].srv = "closed"] /\ req' = Vanished(k)
  <2> DEFINE x == [conn[k] EXCEPT !.srv = "closed"]
  <2>1. x \in ConnType /\ x.app = conn[k].app /\ x.inst = conn[k].inst
    BY DEF ConnType
  <2>2. conn' = [conn EXCEPT ![k] = x]
    BY <1>1
  <2> HIDE DEF x
  <2> QED BY <1>1, <2>1, <2>2, VanishedKeeps
<1>2. CASE conn' = [conn EXCEPT ![k].srv = "zombie"] /\ UNCHANGED req
  <2> DEFINE x == [conn[k] EXCEPT !.srv = "zombie"]
  <2>1. x \in ConnType /\ x.app = conn[k].app /\ x.inst = conn[k].inst
    BY DEF ConnType
  <2>2. conn' = [conn EXCEPT ![k] = x]
    BY <1>2
  <2> HIDE DEF x
  <2>3. /\ conn' \in [Conns -> ConnType]
        /\ \A j \in Conns : conn'[j].inst = conn[j].inst /\ conn'[j].app = conn[j].app
    BY <2>1, <2>2 DEF PhoneTypes
  <2>4. \A c \in Calls, j \in Conns : Carries(ask, execs, c, req'[<<c, j>>])
    BY <1>2 DEF OutcomeOK, ReqOK
  <2>5. \A i \in DOMAIN lane' : req'[lane'[i]].state # "none"
    BY <1>2 DEF LaneOK
  <2> QED BY <1>2, <2>3, <2>4, <2>5, RequestsMove DEF RequestTypes
<1> QED BY <1>1, <1>2

LEMMA ReaderEndsKeeps ==
  ASSUME IInv, NEW k \in Conns, ReaderEnds(k)
  PROVE  IInv'
<1> USE InvFrom DEF ReaderEnds, fixedVars, phoneVars, registryVars
<1> DEFINE x == [conn[k] EXCEPT !.srv = "closed"]
<1>1. x \in ConnType /\ x.app = conn[k].app /\ x.inst = conn[k].inst
  BY DEF ConnType
<1>2. conn' = [conn EXCEPT ![k] = x]
  OBVIOUS
<1> HIDE DEF x
<1> QED BY <1>1, <1>2, VanishedKeeps

\* An answer that is no outcome, or the outcome of an execution of its command.
LEMMA ReplyCarries ==
  ASSUME NEW c \in Calls, NEW k \in Conns, NEW a \in Answers, NEW e \in Nat, NEW asks, NEW es,
         a \in Outcomes => IsOutcome(asks, es, c, e, a)
  PROVE  Carries(asks, es, c, Reply(c, k, a, e))
BY ReplyType DEF Carries

LEMMA EnqueueKeeps ==
  ASSUME IInv, NEW c \in Calls, NEW k \in Conns, Enqueue(c, k)
  PROVE  IInv'
<1> USE InvFrom DEF Enqueue, fixedVars, phoneVars, registryVars
<1>1. CASE Len(lane) < LaneLimit
  <2> DEFINE q == [req[<<c, k>>] EXCEPT !.state = "queued"]
  <2>1. q \in ReqType /\ q.state = "queued"
    BY DEF ReqType, ReqStates
  <2>2. req' = [req EXCEPT ![<<c, k>>] = q]
    BY <1>1
  <2> HIDE DEF q
  <2>3. Carries(ask, execs, c, q)
    BY <2>1 DEF Carries
  <2>4. lane' = Append(lane, <<c, k>>) /\ lane \in Seq(Requests)
    BY <1>1 DEF RequestTypes
  <2>5. lane' \in Seq(Requests)
    BY <2>4
  <2>6. \A i \in DOMAIN lane' : lane'[i] = <<c, k>> \/ \E j \in DOMAIN lane : lane'[i] = lane[j]
    BY <2>4
  <2> QED BY <2>1, <2>2, <2>3, <2>5, <2>6, RequestMoves DEF PhoneTypes
<1>2. CASE ~ (Len(lane) < LaneLimit)
  <2> DEFINE q == Reply(c, k, "busy", 0)
  <2>1. req' = [req EXCEPT ![<<c, k>>] = q] /\ lane' = lane
    BY <1>2 DEF Answered
  <2>2. q \in ReqType /\ q.state # "none" /\ Carries(ask, execs, c, q)
    BY ReplyType, ReplyCarries DEF Answers, Outcomes
  <2> HIDE DEF q
  <2> QED BY <2>1, <2>2, RequestMoves DEF PhoneTypes, RequestTypes
<1> QED BY <1>1, <1>2

LEMMA CancelKeeps ==
  ASSUME IInv, NEW c \in Calls, NEW k \in Conns, Cancel(c, k)
  PROVE  IInv'
<1> USE InvFrom DEF Cancel, fixedVars, phoneVars, registryVars
<1>1. Gone \in ReqType /\ Gone.state # "none" /\ Carries(ask, execs, c, Gone)
  BY GoneType DEF Carries
<1> QED BY <1>1, RequestMoves DEF PhoneTypes, RequestTypes

LEMMA JoinedWakesKeeps ==
  ASSUME IInv, NEW c \in Calls, NEW k \in Conns, JoinedWakes(c, k)
  PROVE  IInv'
<1> USE InvFrom DEF JoinedWakes, fixedVars, phoneVars, registryVars
<1> DEFINE e == req[<<c, k>>].exec
           q == Reply(c, k, AnswerOf(e), e)
<1>1. req' = [req EXCEPT ![<<c, k>>] = q]
  BY DEF Answered
<1>2. e \in Nat /\ AnswerOf(e) \in Answers
  BY DEF ReqType, AnswerOf, Answers
<1>3. IsOutcome(ask, execs, c, e, AnswerOf(e))
  <2>1. Matches(ask, execs, c, e)
    BY DEF OutcomeOK, ReqOK, Carries
  <2> QED BY <2>1 DEF IsOutcome, AnswerOf
<1>4. q \in ReqType /\ q.state # "none" /\ Carries(ask, execs, c, q)
  <2> HIDE DEF e
  <2> QED BY <1>2, <1>3, ReplyType, ReplyCarries
<1> HIDE DEF q
<1> QED BY <1>1, <1>4, RequestMoves DEF PhoneTypes, RequestTypes

\* What is done stays as it is, and an execution stays that of its call.
Grows(es, fs) ==
  /\ DOMAIN es \subseteq DOMAIN fs
  /\ \A e \in DOMAIN es : /\ fs[e].call = es[e].call /\ fs[e].inst = es[e].inst
                          /\ es[e].state = "done" => fs[e] = es[e]

LEMMA OutcomesGrow ==
  ASSUME NEW asks, NEW es, NEW fs, Grows(es, fs), NEW c, NEW e
  PROVE  /\ Matches(asks, es, c, e) => Matches(asks, fs, c, e)
         /\ \A a : IsOutcome(asks, es, c, e, a) => IsOutcome(asks, fs, c, e, a)
BY DEF Grows, Matches, IsOutcome

LEMMA CarriesGrows ==
  ASSUME NEW asks, NEW es, NEW fs, Grows(es, fs), NEW c, NEW x, Carries(asks, es, c, x)
  PROVE  Carries(asks, fs, c, x)
<1>1. /\ Matches(asks, es, c, x.exec) => Matches(asks, fs, c, x.exec)
      /\ IsOutcome(asks, es, c, x.exec, x.answer) => IsOutcome(asks, fs, c, x.exec, x.answer)
  BY OutcomesGrow
<1> QED BY <1>1 DEF Carries

LEMMA AnsweredGrows ==
  ASSUME AnsweredOK, Grows(execs, execs'), UNCHANGED <<ask, call>>
  PROVE  AnsweredOK'
<1> SUFFICES ASSUME NEW c \in Calls, call[c].answer \in Outcomes
             PROVE  IsOutcome(ask, execs', c, call[c].exec, call[c].answer)
  BY DEF AnsweredOK
<1>1. IsOutcome(ask, execs, c, call[c].exec, call[c].answer)
  BY DEF AnsweredOK
<1> QED BY <1>1, OutcomesGrow

-----------------------------------------------------------------------------
(* The worker is replaced.                                                 *)

LEMMA RestartKeeps ==
  ASSUME IInv, Restart
  PROVE  IInv'
<1> USE InvFrom DEF Restart, fixedVars, phoneVars
<1> DEFINE Lost(x) == IF x.state = "running" THEN [x EXCEPT !.state = "lost"] ELSE x
<1>1. \A e \in DOMAIN execs : execs'[e] = Lost(execs[e])
  OBVIOUS
<1>2. \A x \in ExecType : /\ Lost(x) \in ExecType /\ Lost(x).call = x.call /\ Lost(x).inst = x.inst
                          /\ x.state = "done" => Lost(x) = x
  BY DEF ExecType
<1> HIDE DEF Lost
<1>3. execs' \in Seq(ExecType) /\ DOMAIN execs' = DOMAIN execs
  <2>1. execs' = [e \in DOMAIN execs |-> execs'[e]]
    OBVIOUS
  <2>2. \A e \in DOMAIN execs : execs'[e] \in ExecType
    BY <1>1, <1>2, Parts
  <2>3. execs \in Seq(ExecType)
    BY DEF RegistryTypes
  <2> QED BY <2>1, <2>2, <2>3, SeqChanged
<1>4. Grows(execs, execs')
  BY <1>1, <1>2, <1>3, Parts DEF Grows
<1>5. \A k \in Conns : /\ conn'[k] \in ConnType
                       /\ conn'[k].inst = conn[k].inst /\ conn'[k].app = conn[k].app
  <2> TAKE k \in Conns
  <2>1. conn'[k] = conn[k] \/ conn'[k] = [conn[k] EXCEPT !.srv = "closed"]
    OBVIOUS
  <2> QED BY <2>1 DEF ConnType
<1>6. \A r \in Requests : \/ req'[r] = req[r] /\ req[r].state \notin {"running", "joined"}
                          \/ req'[r] = Gone /\ req[r].state # "none"
  OBVIOUS
<1>7. Types'
  <2>1. instance' \in Instances
    BY Assumed DEF PhoneTypes, Instances
  <2>2. conn' \in [Conns -> ConnType]
    <3>1. DOMAIN conn' = Conns /\ conn' = [k \in Conns |-> conn'[k]]
      OBVIOUS
    <3> QED BY <3>1, <1>5
  <2>3. req' \in [Requests -> ReqType]
    <3>1. DOMAIN req' = Requests /\ req' = [r \in Requests |-> req'[r]]
      OBVIOUS
    <3> QED BY <3>1, <1>6, GoneType DEF RequestTypes
  <2>4. PhoneTypes'
    BY <2>1, <2>2 DEF PhoneTypes
  <2>5. RequestTypes'
    BY <2>3 DEF RequestTypes
  <2>6. RegistryTypes'
    <3>1. NoRecord \in RecordType
      BY DEF NoRecord, RecordType
    <3>2. record' \in [Operations -> RecordType] /\ age' \in Seq(Operations)
      BY <3>1
    <3> QED BY <3>2, <1>3 DEF RegistryTypes
  <2> QED BY <2>4, <2>5, <2>6 DEF Types
<1>8. \A c \in Calls, k \in Conns : req'[<<c, k>>].state = "none" <=> req[<<c, k>>].state = "none"
  BY <1>6, GoneType
<1>9. DOMAIN lane' = {} /\ DOMAIN age' = {}
  BY EmptySeq
<1>10. ConnsOK' /\ ServerOK'
  BY <1>5, <1>8, <1>9, ConnectionsStay
<1>11. RecordOK(ask, instance', record', execs')
  BY DEF RecordOK, NoRecord
<1>12. AgeOK(record', age')
  BY <1>9 DEF AgeOK, NoRecord
<1>13. \A e \in DOMAIN execs' : execs'[e].inst <= instance' /\ execs'[e].inst # instance'
  <2> TAKE e \in DOMAIN execs'
  <2>1. e \in DOMAIN execs /\ execs'[e].inst = execs[e].inst
    BY <1>3, <1>4 DEF Grows
  <2>2. execs[e].inst <= instance /\ execs[e].inst \in Instances
    BY <2>1, Parts DEF RegistryOK, Registry, LiveOK, ExecType
  <2> QED BY <2>1, <2>2, Assumed DEF PhoneTypes, Instances
<1>14. LiveOK(ask, instance', record', execs', forgotten)
  <2>1. \A e \in forgotten : e \in DOMAIN execs /\ execs'[e].state = "done"
    BY <1>4 DEF RegistryOK, Registry, LiveOK, Grows
  <2> QED BY <2>1, <1>13, <1>3 DEF LiveOK
<1>15. OnceOK(ask, execs', forgotten)
  BY <1>3, <1>4 DEF RegistryOK, Registry, OnceOK, OperationOf, Grows
<1>16. ReqOK'
  <2> SUFFICES ASSUME NEW c \in Calls, NEW k \in Conns
               PROVE  Carries(ask, execs', c, req'[<<c, k>>])
    BY DEF ReqOK
  <2>1. CASE req'[<<c, k>>] = req[<<c, k>>]
    BY <2>1, <1>4, CarriesGrows DEF OutcomeOK, ReqOK
  <2>2. CASE req'[<<c, k>>] = Gone
    BY <2>2, GoneType DEF Carries
  <2> QED BY <2>1, <2>2, <1>6
<1>17. AnsweredOK'
  BY <1>4, AnsweredGrows DEF OutcomeOK
<1>18. RegistryOK'
  BY <1>11, <1>12, <1>14, <1>15 DEF RegistryOK, Registry
<1> QED BY <1>7, <1>10, <1>16, <1>17, <1>18 DEF IInv, OutcomeOK

-----------------------------------------------------------------------------
(* The registry: what its operations do to what it records.                *)

LEMMA RemovedType ==
  ASSUME NEW rs \in [Operations -> RecordType], NEW gone
  PROVE  /\ Removed(rs, gone) \in [Operations -> RecordType]
         /\ \A p \in Operations : Removed(rs, gone)[p] = IF p \in gone THEN NoRecord ELSE rs[p]
BY DEF Removed, NoRecord, RecordType

\* What the records of some operations stand for.
StoodFor(rs, gone) == {rs[p].exec : p \in gone}

\* The oldest terminal records go, and what they stood for is forgotten.
LEMMA EvictionKeeps ==
  ASSUME NEW asks, NEW n, NEW rs \in [Operations -> RecordType], NEW order \in Seq(Operations),
         NEW es, NEW fg, Registry(asks, n, rs, order, es, fg),
         \A e \in DOMAIN es : OperationOf(asks, es, e) \in Operations,
         NEW m \in 0 .. Len(order), NEW gone, gone = Oldest(order, m)
  PROVE  Registry(asks, n, Removed(rs, gone), Younger(order, m), es, fg \cup StoodFor(rs, gone))
<1> DEFINE left == Removed(rs, gone)
           young == Younger(order, m)
           lost == StoodFor(rs, gone)
<1>1. Len(order) \in Nat /\ DOMAIN order = 1 .. Len(order) /\ m \in Nat /\ m <= Len(order)
  OBVIOUS
<1>2. gone = {order[i] : i \in 1 .. m}
  BY DEF Oldest
<1>3. gone \subseteq Operations
  BY <1>1, <1>2
<1>4. /\ young \in Seq(Operations) /\ DOMAIN young = 1 .. Len(order) - m
      /\ \A i \in 1 .. Len(order) - m : young[i] = order[m + i]
  BY YoungerIsTheRest
<1>5. \A p \in Operations : left[p] = IF p \in gone THEN NoRecord ELSE rs[p]
  BY RemovedType
<1> HIDE DEF left, young
<1>6. AgeOK(rs, order) /\ RecordOK(asks, n, rs, es) /\ LiveOK(asks, n, rs, es, fg) /\ OnceOK(asks, es, fg)
  BY DEF Registry
<1>7. \A p \in gone : rs[p].state = "done"
  BY <1>1, <1>2, <1>3, <1>6 DEF AgeOK
<1>8. \A i \in DOMAIN young : young[i] \notin gone
  <2> SUFFICES ASSUME NEW i \in 1 .. Len(order) - m, young[i] \in gone PROVE FALSE
    BY <1>4
  <2>1. PICK j \in 1 .. m : young[i] = order[j]
    BY <1>2
  <2>2. order[m + i] = order[j] /\ m + i \in DOMAIN order /\ j \in DOMAIN order /\ m + i # j
    BY <1>1, <1>4, <2>1
  <2> QED BY <2>2, <1>6 DEF AgeOK
<1>9. AgeOK(left, young)
  <2>1. \A i, j \in DOMAIN young : young[i] = young[j] => i = j
    <3> TAKE i, j \in DOMAIN young
    <3>1. m + i \in DOMAIN order /\ m + j \in DOMAIN order
      BY <1>1, <1>4
    <3>2. young[i] = order[m + i] /\ young[j] = order[m + j]
      BY <1>4
    <3>3. order[m + i] = order[m + j] => m + i = m + j
      BY <3>1, <1>6 DEF AgeOK
    <3> QED BY <3>2, <3>3, <1>1, <1>4
  <2>2. ASSUME NEW p \in Operations, left[p].state = "done"
        PROVE  \E i \in DOMAIN young : young[i] = p
    <3>1. p \notin gone /\ rs[p].state = "done"
      BY <2>2, <1>5 DEF NoRecord
    <3>2. PICK j \in DOMAIN order : order[j] = p
      BY <3>1, <1>6 DEF AgeOK
    <3>3. ~ (j <= m)
      BY <3>1, <3>2, <1>1, <1>2
    <3>4. j - m \in 1 .. Len(order) - m /\ m + (j - m) = j
      BY <3>3, <1>1
    <3> QED BY <3>2, <3>4, <1>4
  <2>3. ASSUME NEW i \in DOMAIN young
        PROVE  left[young[i]].state = "done"
    <3>1. m + i \in DOMAIN order /\ young[i] = order[m + i] /\ young[i] \in Operations
      BY <1>1, <1>4
    <3>2. rs[young[i]].state = "done"
      BY <3>1, <1>6 DEF AgeOK
    <3> QED BY <3>1, <3>2, <1>5, <1>8
  <2> QED BY <2>1, <2>2, <2>3 DEF AgeOK
<1>10. RecordOK(asks, n, left, es)
  BY <1>5, <1>6 DEF RecordOK, NoRecord
<1>11. LiveOK(asks, n, left, es, fg \cup lost)
  <2>1. \A e \in DOMAIN es : es[e].inst <= n
    BY <1>6 DEF LiveOK
  <2>2. ASSUME NEW e \in DOMAIN es, es[e].inst = n, e \notin fg \cup lost
        PROVE  left[OperationOf(asks, es, e)].state # "none" /\ left[OperationOf(asks, es, e)].exec = e
    <3>1. rs[OperationOf(asks, es, e)].state # "none" /\ rs[OperationOf(asks, es, e)].exec = e
      BY <2>2, <1>6 DEF LiveOK
    <3>2. OperationOf(asks, es, e) \notin gone
      BY <3>1, <2>2 DEF StoodFor
    <3> QED BY <3>1, <3>2, <1>5
  <2>3. ASSUME NEW e \in DOMAIN es, es[e].inst = n, es[e].state = "running"
        PROVE  left[OperationOf(asks, es, e)] = [state |-> "pending", exec |-> e]
    <3>1. rs[OperationOf(asks, es, e)] = [state |-> "pending", exec |-> e]
      BY <2>3, <1>6 DEF LiveOK
    <3>2. OperationOf(asks, es, e) \notin gone
      BY <3>1, <1>7
    <3> QED BY <3>1, <3>2, <1>5
  <2>4. \A e \in fg \cup lost : e \in DOMAIN es /\ es[e].state = "done"
    BY <1>3, <1>6, <1>7 DEF LiveOK, RecordOK, StoodFor
  <2> QED BY <2>1, <2>2, <2>3, <2>4 DEF LiveOK
<1>12. OnceOK(asks, es, fg \cup lost)
  BY <1>6 DEF OnceOK
<1> QED BY <1>9, <1>10, <1>11, <1>12 DEF Registry, left, young

\* An operation without a record is started.
LEMMA StartKeeps ==
  ASSUME NEW asks, NEW n \in Int, NEW rs \in [Operations -> RecordType], NEW order \in Seq(Operations),
         NEW es \in Seq(ExecType), NEW fg, Registry(asks, n, rs, order, es, fg),
         NEW x, x.inst = n, x.state = "running",
         NEW o \in Operations, rs[o].state = "none", o = asks[x.call].operation
  PROVE  Registry(asks, n, [rs EXCEPT ![o] = [state |-> "pending", exec |-> Len(es) + 1]], order,
                  Append(es, x), fg)
<1> DEFINE z == Len(es) + 1
           r == [state |-> "pending", exec |-> z]
           ts == [rs EXCEPT ![o] = r]
           fs == Append(es, x)
<1>1. /\ DOMAIN es = 1 .. Len(es) /\ Len(es) \in Nat
      /\ DOMAIN fs = DOMAIN es \cup {z} /\ z \notin DOMAIN es
      /\ z \in Nat /\ \A e \in DOMAIN es : e \in Nat /\ e < z
      /\ fs[z] = x /\ \A e \in DOMAIN es : fs[e] = es[e]
  OBVIOUS
<1>2. ts[o] = r /\ \A p \in Operations : p # o => ts[p] = rs[p]
  OBVIOUS
<1> HIDE DEF z, fs, ts
<1>3. AgeOK(rs, order) /\ RecordOK(asks, n, rs, es) /\ LiveOK(asks, n, rs, es, fg) /\ OnceOK(asks, es, fg)
  BY DEF Registry
<1>4. OperationOf(asks, fs, z) = o
      /\ \A e \in DOMAIN es : OperationOf(asks, fs, e) = OperationOf(asks, es, e)
  BY <1>1 DEF OperationOf
<1>5. RecordOK(asks, n, ts, fs)
  <2> SUFFICES ASSUME NEW p \in Operations, ts[p].state # "none"
               PROVE  /\ ts[p].exec \in DOMAIN fs /\ OperationOf(asks, fs, ts[p].exec) = p
                      /\ fs[ts[p].exec].inst = n
                      /\ ts[p].state = "done" => fs[ts[p].exec].state = "done"
    BY DEF RecordOK
  <2>1. CASE p = o
    BY <2>1, <1>1, <1>2, <1>4
  <2>2. CASE p # o
    BY <2>2, <1>1, <1>2, <1>3, <1>4 DEF RecordOK
  <2> QED BY <2>1, <2>2
<1>6. AgeOK(ts, order)
  <2>1. \A p \in Operations : ts[p].state = "done" <=> rs[p].state = "done"
    BY <1>2
  <2> QED BY <2>1, <1>3 DEF AgeOK
<1>7. LiveOK(asks, n, ts, fs, fg)
  <2>1. \A e \in DOMAIN fs : fs[e].inst <= n
    BY <1>1, <1>3 DEF LiveOK
  <2>2. ASSUME NEW e \in DOMAIN fs, fs[e].inst = n, e \notin fg
        PROVE  ts[OperationOf(asks, fs, e)].state # "none" /\ ts[OperationOf(asks, fs, e)].exec = e
    <3>1. CASE e = z
      BY <3>1, <1>2, <1>4
    <3>2. CASE e \in DOMAIN es
      <4>1. /\ rs[OperationOf(asks, es, e)].state # "none" /\ rs[OperationOf(asks, es, e)].exec = e
        BY <2>2, <3>2, <1>1, <1>3 DEF LiveOK
      <4>2. OperationOf(asks, es, e) # o
        BY <4>1
      <4>3. ts[OperationOf(asks, es, e)] = rs[OperationOf(asks, es, e)]
        BY <4>2 DEF ts
      <4> QED BY <4>1, <4>3, <3>2, <1>4
    <3> QED BY <3>1, <3>2, <1>1
  <2>3. ASSUME NEW e \in DOMAIN fs, fs[e].inst = n, fs[e].state = "running"
        PROVE  ts[OperationOf(asks, fs, e)] = [state |-> "pending", exec |-> e]
    <3>1. CASE e = z
      BY <3>1, <1>2, <1>4
    <3>2. CASE e \in DOMAIN es
      <4>1. rs[OperationOf(asks, es, e)] = [state |-> "pending", exec |-> e]
        BY <2>3, <3>2, <1>1, <1>3 DEF LiveOK
      <4>2. OperationOf(asks, es, e) # o
        BY <4>1
      <4>3. ts[OperationOf(asks, es, e)] = rs[OperationOf(asks, es, e)]
        BY <4>2 DEF ts
      <4> QED BY <4>1, <4>3, <3>2, <1>4
    <3> QED BY <3>1, <3>2, <1>1
  <2>4. \A e \in fg : e \in DOMAIN fs /\ fs[e].state = "done"
    BY <1>1, <1>3 DEF LiveOK
  <2> QED BY <2>1, <2>2, <2>3, <2>4 DEF LiveOK
<1>8. OnceOK(asks, fs, fg)
  <2> SUFFICES ASSUME NEW d \in DOMAIN fs, NEW e \in DOMAIN fs, d < e, fs[d].inst = fs[e].inst,
                      OperationOf(asks, fs, d) = OperationOf(asks, fs, e)
               PROVE  d \in fg /\ fs[d].state = "done"
    BY DEF OnceOK
  <2>1. d \in DOMAIN es
    BY <1>1
  <2>2. CASE e \in DOMAIN es
    BY <2>1, <2>2, <1>1, <1>3, <1>4 DEF OnceOK
  <2>3. CASE e = z
    <3>1. OperationOf(asks, es, d) = o /\ es[d].inst = n
      BY <2>1, <2>3, <1>1, <1>4
    <3>2. d \in fg
      BY <3>1, <2>1, <1>3 DEF LiveOK
    <3> QED BY <3>2, <2>1, <1>1, <1>3 DEF LiveOK
  <2> QED BY <2>2, <2>3, <1>1
<1> QED BY <1>5, <1>6, <1>7, <1>8 DEF Registry, ts, fs, z

\* The outcome of an execution that is under way is recorded.
LEMMA OutcomeKeeps ==
  ASSUME NEW asks, NEW n, NEW rs \in [Operations -> RecordType], NEW order \in Seq(Operations),
         NEW es \in Seq(ExecType), NEW fg, Registry(asks, n, rs, order, es, fg),
         NEW e \in DOMAIN es, es[e].inst = n, es[e].state = "running", NEW size,
         NEW o \in Operations, o = OperationOf(asks, es, e)
  PROVE  Registry(asks, n, [rs EXCEPT ![o].state = "done"], Append(order, o),
                  [es EXCEPT ![e].state = "done", ![e].size = size], fg)
<1> DEFINE ts == [rs EXCEPT ![o].state = "done"]
           fs == [es EXCEPT ![e].state = "done", ![e].size = size]
           young == Append(order, o)
<1>1. /\ DOMAIN fs = DOMAIN es /\ \A d \in DOMAIN es : d # e => fs[d] = es[d]
  OBVIOUS
<1>2. fs[e].state = "done" /\ fs[e].call = es[e].call /\ fs[e].inst = es[e].inst
  <2>1. es[e] \in ExecType
    OBVIOUS
  <2> QED BY <2>1 DEF ExecType
<1>3. AgeOK(rs, order) /\ RecordOK(asks, n, rs, es) /\ LiveOK(asks, n, rs, es, fg) /\ OnceOK(asks, es, fg)
  BY DEF Registry
<1>4. rs[o] = [state |-> "pending", exec |-> e]
  BY <1>3 DEF LiveOK
<1>5. ts[o].state = "done" /\ ts[o].exec = e /\ \A p : p # o => ts[p] = rs[p]
  <2>1. ts[o] = [rs[o] EXCEPT !.state = "done"] /\ \A p : p # o => ts[p] = rs[p]
    OBVIOUS
  <2> QED BY <2>1, <1>4
<1>6. /\ DOMAIN order = 1 .. Len(order) /\ Len(order) \in Nat
      /\ DOMAIN young = DOMAIN order \cup {Len(order) + 1}
      /\ young[Len(order) + 1] = o /\ \A i \in DOMAIN order : young[i] = order[i]
  OBVIOUS
<1> HIDE DEF ts, fs, young
<1>7. \A d \in DOMAIN es : OperationOf(asks, fs, d) = OperationOf(asks, es, d) /\ fs[d].inst = es[d].inst
  BY <1>1, <1>2 DEF OperationOf
<1>8. RecordOK(asks, n, ts, fs)
  <2> SUFFICES ASSUME NEW p \in Operations, ts[p].state # "none"
               PROVE  /\ ts[p].exec \in DOMAIN fs /\ OperationOf(asks, fs, ts[p].exec) = p
                      /\ fs[ts[p].exec].inst = n
                      /\ ts[p].state = "done" => fs[ts[p].exec].state = "done"
    BY DEF RecordOK
  <2>1. CASE p = o
    BY <2>1, <1>1, <1>2, <1>5, <1>7
  <2>2. CASE p # o
    <3>1. /\ rs[p].exec \in DOMAIN es /\ OperationOf(asks, es, rs[p].exec) = p
          /\ es[rs[p].exec].inst = n
          /\ rs[p].state = "done" => es[rs[p].exec].state = "done"
      BY <2>2, <1>3, <1>5 DEF RecordOK
    <3>2. rs[p].exec # e
      BY <3>1, <2>2
    <3> QED BY <3>1, <3>2, <2>2, <1>1, <1>5, <1>7
  <2> QED BY <2>1, <2>2
<1>9. AgeOK(ts, young)
  <2>1. \A i \in DOMAIN order : order[i] # o
    BY <1>3, <1>4 DEF AgeOK
  <2>2. \A i, j \in DOMAIN young : young[i] = young[j] => i = j
    BY <2>1, <1>3, <1>6 DEF AgeOK
  <2>3. \A p \in Operations : ts[p].state = "done" <=> \E i \in DOMAIN young : young[i] = p
    BY <1>3, <1>5, <1>6 DEF AgeOK
  <2> QED BY <2>2, <2>3 DEF AgeOK
<1>10. LiveOK(asks, n, ts, fs, fg)
  <2>1. \A d \in DOMAIN fs : fs[d].inst <= n
    BY <1>1, <1>3, <1>7 DEF LiveOK
  <2>2. ASSUME NEW d \in DOMAIN fs, fs[d].inst = n, d \notin fg
        PROVE  ts[OperationOf(asks, fs, d)].state # "none" /\ ts[OperationOf(asks, fs, d)].exec = d
    <3>1. rs[OperationOf(asks, es, d)].state # "none" /\ rs[OperationOf(asks, es, d)].exec = d
      BY <2>2, <1>1, <1>3, <1>7 DEF LiveOK
    <3>2. CASE OperationOf(asks, es, d) = o
      BY <3>1, <3>2, <2>2, <1>1, <1>4, <1>5, <1>7
    <3>3. CASE OperationOf(asks, es, d) # o
      BY <3>1, <3>3, <2>2, <1>1, <1>5, <1>7
    <3> QED BY <3>2, <3>3
  <2>3. ASSUME NEW d \in DOMAIN fs, fs[d].inst = n, fs[d].state = "running"
        PROVE  ts[OperationOf(asks, fs, d)] = [state |-> "pending", exec |-> d]
    <3>1. d # e /\ d \in DOMAIN es /\ es[d].inst = n /\ es[d].state = "running"
      BY <2>3, <1>1, <1>2
    <3>2. rs[OperationOf(asks, es, d)] = [state |-> "pending", exec |-> d]
      BY <3>1, <1>3 DEF LiveOK
    <3>3. OperationOf(asks, es, d) # o
      BY <3>1, <3>2, <1>4
    <3> QED BY <3>1, <3>2, <3>3, <1>5, <1>7
  <2>4. \A d \in fg : d \in DOMAIN fs /\ fs[d].state = "done"
    BY <1>1, <1>2, <1>3 DEF LiveOK
  <2> QED BY <2>1, <2>2, <2>3, <2>4 DEF LiveOK
<1>11. OnceOK(asks, fs, fg)
  <2> SUFFICES ASSUME NEW d \in DOMAIN es, NEW f \in DOMAIN es, d < f, es[d].inst = es[f].inst,
                      OperationOf(asks, es, d) = OperationOf(asks, es, f)
               PROVE  d \in fg /\ fs[d].state = "done"
    BY <1>1, <1>7 DEF OnceOK
  <2>1. d \in fg /\ es[d].state = "done"
    BY <1>3 DEF OnceOK
  <2> QED BY <2>1, <1>1, <1>2
<1> QED BY <1>8, <1>9, <1>10, <1>11 DEF Registry, ts, fs, young

-----------------------------------------------------------------------------
(* The steps of the server that reach the registry.                        *)

LEMMA RegistryMoves ==
  ASSUME IInv, UNCHANGED <<ask, call, active, known, conn, instance>>,
         req' \in [Requests -> ReqType], lane' \in Seq(Requests),
         \A c \in Calls, k \in Conns :
            req'[<<c, k>>].state = "none" <=> req[<<c, k>>].state = "none",
         \A i \in DOMAIN lane' : \E j \in DOMAIN lane : lane'[i] = lane[j],
         RegistryTypes', RegistryOK', Grows(execs, execs'),
         \A c \in Calls, k \in Conns : Carries(ask, execs', c, req'[<<c, k>>])
  PROVE  IInv'
<1> USE InvFrom
<1>1. Types'
  BY DEF Types, PhoneTypes, RequestTypes
<1>2. \A i \in DOMAIN lane' : req'[lane'[i]].state # "none"
  <2> TAKE i \in DOMAIN lane'
  <2>1. lane'[i] \in Requests /\ req[lane'[i]].state # "none"
    BY Parts DEF LaneOK
  <2>2. PICK c \in Calls, k \in Conns : lane'[i] = <<c, k>>
    BY <2>1 DEF Requests
  <2> QED BY <2>1, <2>2
<1>3. ConnsOK' /\ ServerOK'
  BY <1>2, ConnectionsStay
<1>4. ReqOK'
  BY DEF ReqOK
<1>5. AnsweredOK'
  BY AnsweredGrows DEF OutcomeOK
<1> QED BY <1>1, <1>3, <1>4, <1>5 DEF IInv, OutcomeOK

LEMMA Fixed == IInv => /\ Registry(ask, instance, record, age, execs, forgotten)
                       /\ record \in [Operations -> RecordType] /\ age \in Seq(Operations)
                       /\ execs \in Seq(ExecType) /\ instance \in Int
BY Assumed DEF IInv, Types, RegistryTypes, RegistryOK, PhoneTypes, Instances

\* The answer to a request for an operation that has a record.
LEMMA ReplayMoves ==
  ASSUME IInv, NEW c \in Calls, NEW k \in Conns, NEW o, o = ask[c].operation, o \in Operations,
         record[o].state # "none", Replay(c, k, record[o])
  PROVE  \E q \in ReqType : /\ req' = [req EXCEPT ![<<c, k>>] = q]
                            /\ q.state # "none" /\ Carries(ask, execs, c, q)
<1> USE InvFrom
<1> DEFINE e == record[o].exec
           same == ask[execs[e].call].payload = ask[c].payload
<1>1. /\ e \in DOMAIN execs /\ ask[execs[e].call].operation = ask[c].operation
      /\ record[o].state = "done" => execs[e].state = "done"
  BY Fixed DEF Registry, RecordOK, OperationOf
<1>2. e \in Nat
  BY Fixed DEF RecordType
<1>3. same => Matches(ask, execs, c, e)
  BY <1>1 DEF Matches
<1>4. (same /\ record[o].state = "done") => IsOutcome(ask, execs, c, e, AnswerOf(e))
  BY <1>1, <1>3 DEF IsOutcome, AnswerOf
<1>5. AnswerOf(e) \in Answers
  BY DEF AnswerOf, Answers
<1>6. \/ ~ same /\ req' = Answered(c, k, "conflict", 0)
      \/ same /\ record[o].state = "done" /\ req' = Answered(c, k, AnswerOf(e), e)
      \/ same /\ req' = [req EXCEPT ![<<c, k>>].state = "joined", ![<<c, k>>].exec = e]
  BY DEF Replay
<1> HIDE DEF e, same
<1>7. CASE ~ same /\ req' = Answered(c, k, "conflict", 0)
  <2> DEFINE q == Reply(c, k, "conflict", 0)
  <2>1. q \in ReqType /\ q.state # "none" /\ Carries(ask, execs, c, q)
    BY ReplyType, ReplyCarries DEF Answers, Outcomes
  <2>2. req' = [req EXCEPT ![<<c, k>>] = q]
    BY <1>7 DEF Answered
  <2> HIDE DEF q
  <2> QED BY <2>1, <2>2
<1>8. CASE same /\ record[o].state = "done" /\ req' = Answered(c, k, AnswerOf(e), e)
  <2> DEFINE q == Reply(c, k, AnswerOf(e), e)
  <2>1. IsOutcome(ask, execs, c, e, AnswerOf(e))
    BY <1>4, <1>8
  <2>2. q \in ReqType /\ q.state # "none" /\ Carries(ask, execs, c, q)
    BY <2>1, <1>2, <1>5, ReplyType, ReplyCarries
  <2>3. req' = [req EXCEPT ![<<c, k>>] = q]
    BY <1>8 DEF Answered
  <2> HIDE DEF q
  <2> QED BY <2>2, <2>3
<1>9. CASE same /\ req' = [req EXCEPT ![<<c, k>>].state = "joined", ![<<c, k>>].exec = e]
  <2> DEFINE q == [req[<<c, k>>] EXCEPT !.state = "joined", !.exec = e]
  <2>1. q \in ReqType /\ q.state = "joined" /\ q.exec = e
    BY <1>2 DEF ReqType, ReqStates
  <2>2. req' = [req EXCEPT ![<<c, k>>] = q]
    BY <1>9
  <2> HIDE DEF q
  <2>3. Carries(ask, execs, c, q)
    BY <1>3, <1>9, <2>1 DEF Carries
  <2> QED BY <2>1, <2>2, <2>3
<1> QED BY <1>6, <1>7, <1>8, <1>9

\* A request is admitted: its operation has a record, or there is no room, or it
\* starts.
LEMMA AdmitKeeps ==
  ASSUME IInv, NEW c \in Calls, NEW k \in Conns, Admit(c, k), req[<<c, k>>].state = "queued",
         UNCHANGED <<ask, call, active, known, conn, instance>>,
         lane' \in Seq(Requests),
         \A i \in DOMAIN lane' : \E j \in DOMAIN lane : lane'[i] = lane[j]
  PROVE  IInv'
<1> USE InvFrom
<1> DEFINE o == ask[c].operation
<1>1. o \in Operations
  BY DEF PhoneTypes
<1>2. PICK n \in 0 .. Len(age) :
        LET rs == Removed(record, Oldest(age, n))
            m == n + IF rs[o].state # "none" THEN 0
                     ELSE Evicted(rs, Younger(age, n), 1, Retained)
            gone == Oldest(age, m)
            left == Removed(record, gone)
        IN /\ age' = Younger(age, m)
           /\ forgotten' = forgotten \cup {record[p].exec : p \in gone}
           /\ \/ /\ rs[o].state # "none" /\ Replay(c, k, rs[o])
                 /\ record' = left /\ UNCHANGED execs
              \/ /\ req' = Answered(c, k, "busy", 0)
                 /\ record' = left /\ UNCHANGED execs
              \/ /\ rs[o].state = "none"
                 /\ execs' = Append(execs, [call |-> c, inst |-> instance, size |-> 0,
                                            state |-> "running"])
                 /\ record' = [left EXCEPT ![o] = [state |-> "pending",
                                                   exec |-> Len(execs) + 1]]
                 /\ req' = [req EXCEPT ![<<c, k>>].state = "running",
                                       ![<<c, k>>].exec = Len(execs) + 1]
  BY DEF Admit
<1> DEFINE old == Oldest(age, n)
           rs == Removed(record, old)
           m == n + IF rs[o].state # "none" THEN 0
                    ELSE Evicted(rs, Younger(age, n), 1, Retained)
           gone == Oldest(age, m)
           left == Removed(record, gone)
           young == Younger(age, m)
           fg == forgotten \cup {record[p].exec : p \in gone}
<1>3. /\ age' = young /\ forgotten' = fg
      /\ \/ /\ rs[o].state # "none" /\ Replay(c, k, rs[o])
            /\ record' = left /\ UNCHANGED execs
         \/ /\ req' = Answered(c, k, "busy", 0)
            /\ record' = left /\ UNCHANGED execs
         \/ /\ rs[o].state = "none"
            /\ execs' = Append(execs, [call |-> c, inst |-> instance, size |-> 0,
                                       state |-> "running"])
            /\ record' = [left EXCEPT ![o] = [state |-> "pending", exec |-> Len(execs) + 1]]
            /\ req' = [req EXCEPT ![<<c, k>>].state = "running",
                                  ![<<c, k>>].exec = Len(execs) + 1]
  BY <1>2
<1>4. age \in Seq(Operations) /\ Len(age) \in Nat /\ n \in Nat /\ n <= Len(age)
  BY Fixed
<1>5. m \in 0 .. Len(age) /\ n <= m
  <2>1. Younger(age, n) \in Seq(Operations) /\ Len(Younger(age, n)) = Len(age) - n
    BY <1>4, YoungerIsTheRest
  <2>2. Evicted(rs, Younger(age, n), 1, Retained) \in 0 .. Len(age) - n
    BY <2>1, EvictedIsACount
  <2>3. m = n \/ m = n + Evicted(rs, Younger(age, n), 1, Retained)
    BY <1>4
  <2> HIDE DEF m, rs
  <2> QED BY <2>2, <2>3, <1>4
<1>6. old \subseteq gone /\ (rs[o].state # "none" => gone = old)
  <2>1. rs[o].state # "none" => m = n
    BY <1>4
  <2>2. \A i \in 1 .. n : i \in 1 .. m
    BY <1>4, <1>5
  <2> HIDE DEF m, rs
  <2>3. old \subseteq gone
    BY <2>2 DEF Oldest
  <2> QED BY <2>1, <2>3
<1> HIDE DEF rs, m, gone, old, left, young, fg
<1>7. \A p \in Operations : rs[p] = IF p \in old THEN NoRecord ELSE record[p]
  BY DEF rs, Removed
<1>8. /\ Registry(ask, instance, left, young, execs, fg)
      /\ left \in [Operations -> RecordType] /\ young \in Seq(Operations)
      /\ \A p \in Operations : left[p] = IF p \in gone THEN NoRecord ELSE record[p]
  <2>1. \A e \in DOMAIN execs : OperationOf(ask, execs, e) \in Operations
    BY Parts
  <2>2. gone = Oldest(age, m)
    BY DEF gone
  <2>3. /\ Registry(ask, instance, record, age, execs, forgotten) /\ m \in 0 .. Len(age)
        /\ record \in [Operations -> RecordType] /\ age \in Seq(Operations)
    BY <1>5, Fixed
  <2>4. Registry(ask, instance, Removed(record, gone), Younger(age, m), execs,
                 forgotten \cup StoodFor(record, gone))
    BY <2>1, <2>2, <2>3, EvictionKeeps
  <2>5. Younger(age, m) \in Seq(Operations)
    BY <2>3, YoungerIsTheRest
  <2> QED BY <2>3, <2>4, <2>5, RemovedType DEF left, young, fg, StoodFor
<1> DEFINE Moved == \E q \in ReqType : /\ req' = [req EXCEPT ![<<c, k>>] = q]
                                       /\ q.state # "none" /\ Carries(ask, execs', c, q)
<1>9. ASSUME Moved, RegistryTypes', RegistryOK', Grows(execs, execs')
      PROVE  IInv'
  <2>1. PICK q \in ReqType : /\ req' = [req EXCEPT ![<<c, k>>] = q]
                             /\ q.state # "none" /\ Carries(ask, execs', c, q)
    BY <1>9
  <2>2. /\ req' \in [Requests -> ReqType]
        /\ \A d \in Calls, j \in Conns :
              req'[<<d, j>>] = req[<<d, j>>] \/ (d = c /\ j = k /\ req'[<<d, j>>] = q)
    BY <2>1 DEF RequestTypes
  <2>3. \A d \in Calls, j \in Conns : req'[<<d, j>>].state = "none" <=> req[<<d, j>>].state = "none"
    BY <2>1, <2>2
  <2>4. \A d \in Calls, j \in Conns : Carries(ask, execs', d, req'[<<d, j>>])
    <3> TAKE d \in Calls, j \in Conns
    <3>1. CASE req'[<<d, j>>] = req[<<d, j>>]
      <4>1. Carries(ask, execs, d, req[<<d, j>>])
        BY DEF OutcomeOK, ReqOK
      <4> QED BY <4>1, <3>1, <1>9, CarriesGrows
    <3>2. CASE d = c /\ j = k /\ req'[<<d, j>>] = q
      BY <3>2, <2>1
    <3> QED BY <3>1, <3>2, <2>2
  <2> QED BY <2>2, <2>3, <2>4, <1>9, RegistryMoves
<1>10. ASSUME record' = left, UNCHANGED execs
       PROVE  RegistryTypes' /\ RegistryOK' /\ Grows(execs, execs')
  BY <1>3, <1>8, <1>10, Fixed DEF RegistryTypes, RegistryOK, Grows
<1>11. CASE rs[o].state # "none" /\ Replay(c, k, rs[o]) /\ record' = left /\ UNCHANGED execs
  <2>1. rs[o] = record[o] /\ record[o].state # "none"
    BY <1>1, <1>7, <1>11 DEF NoRecord
  <2>2. Replay(c, k, record[o])
    BY <2>1, <1>11
  <2>3. Moved
    BY <2>1, <2>2, <1>1, <1>11, ReplayMoves
  <2> QED BY <2>3, <1>9, <1>10, <1>11
<1>12. CASE req' = Answered(c, k, "busy", 0) /\ record' = left /\ UNCHANGED execs
  <2> DEFINE q == Reply(c, k, "busy", 0)
  <2>1. q \in ReqType /\ q.state # "none" /\ Carries(ask, execs, c, q)
    <3>1. "busy" \in Answers /\ "busy" \notin Outcomes /\ 0 \in Nat
      BY DEF Answers, Outcomes
    <3>2. q \in ReqType /\ q.state # "none"
      BY <3>1, ReplyType
    <3>3. Carries(ask, execs, c, q)
      BY <3>1, ReplyCarries
    <3> QED BY <3>2, <3>3
  <2>2. req' = [req EXCEPT ![<<c, k>>] = q]
    BY <1>12 DEF Answered
  <2> HIDE DEF q
  <2>3. Moved
    BY <2>1, <2>2, <1>12
  <2> QED BY <2>3, <1>9, <1>10, <1>12
<1>13. CASE /\ rs[o].state = "none"
            /\ execs' = Append(execs, [call |-> c, inst |-> instance, size |-> 0,
                                       state |-> "running"])
            /\ record' = [left EXCEPT ![o] = [state |-> "pending", exec |-> Len(execs) + 1]]
            /\ req' = [req EXCEPT ![<<c, k>>].state = "running",
                                  ![<<c, k>>].exec = Len(execs) + 1]
  <2> DEFINE x == [call |-> c, inst |-> instance, size |-> 0, state |-> "running"]
             z == Len(execs) + 1
             q == [req[<<c, k>>] EXCEPT !.state = "running", !.exec = z]
  <2>1. left[o].state = "none"
    BY <1>1, <1>6, <1>7, <1>8, <1>13 DEF NoRecord
  <2>2. x \in ExecType /\ x.inst = instance /\ x.state = "running" /\ x.call = c
    BY DEF ExecType, PhoneTypes
  <2>3. execs \in Seq(ExecType) /\ z \in Nat
    BY Fixed
  <2>4. q \in ReqType /\ q.state = "running" /\ q.exec = z
    BY <2>3 DEF ReqType, ReqStates
  <2>5. execs' = Append(execs, x) /\ record' = [left EXCEPT ![o] = [state |-> "pending", exec |-> z]]
        /\ req' = [req EXCEPT ![<<c, k>>] = q]
    BY <1>13
  <2> HIDE DEF x, q
  <2>6. /\ execs' \in Seq(ExecType) /\ DOMAIN execs' = DOMAIN execs \cup {z}
        /\ execs'[z] = x /\ \A e \in DOMAIN execs : execs'[e] = execs[e]
    BY <2>2, <2>3, <2>5
  <2>7. Grows(execs, execs')
    BY <2>6 DEF Grows
  <2>8. Matches(ask, execs', c, z)
    BY <2>2, <2>6 DEF Matches
  <2>9. Carries(ask, execs', c, q)
    BY <2>4, <2>8 DEF Carries
  <2>10. Moved
    BY <2>4, <2>5, <2>9
  <2>11. RegistryTypes'
    <3>1. [state |-> "pending", exec |-> z] \in RecordType
      BY <2>3 DEF RecordType
    <3>2. record' \in [Operations -> RecordType]
      BY <3>1, <1>8, <2>5
    <3> QED BY <3>2, <1>3, <1>8, <2>6 DEF RegistryTypes
  <2>12. RegistryOK'
    <3>1. o = ask[x.call].operation
      BY <2>2
    <3>2. Registry(ask, instance, record', young, execs', fg)
      BY <1>1, <1>8, <2>1, <2>2, <2>3, <2>5, <3>1, Fixed, StartKeeps
    <3> QED BY <3>2, <1>3 DEF RegistryOK
  <2> QED BY <2>7, <2>10, <2>11, <2>12, <1>9
<1> QED BY <1>3, <1>11, <1>12, <1>13

LEMMA StartNextKeeps ==
  ASSUME IInv, StartNext
  PROVE  IInv'
<1> USE InvFrom DEF StartNext, fixedVars, phoneVars, registryVars
<1> DEFINE c == Head(lane)[1]
           k == Head(lane)[2]
<1>1. lane \in Seq(Requests) /\ lane # <<>>
  BY DEF RequestTypes
<1>2. /\ Head(lane) \in Requests /\ Head(lane) = lane[1] /\ 1 \in DOMAIN lane
      /\ Tail(lane) \in Seq(Requests)
      /\ \A i \in DOMAIN Tail(lane) : i + 1 \in DOMAIN lane /\ Tail(lane)[i] = lane[i + 1]
  BY <1>1, HeadTailProperties
<1>3. c \in Calls /\ k \in Conns /\ Head(lane) = <<c, k>>
  BY <1>2 DEF Requests
<1>4. req[<<c, k>>].state # "none"
  BY <1>2, <1>3 DEF LaneOK
<1>5. /\ lane' \in Seq(Requests)
      /\ \A i \in DOMAIN lane' : \E j \in DOMAIN lane : lane'[i] = lane[j]
  BY <1>2
<1>6. CASE conn[k].srv = "open" /\ req[<<c, k>>].state = "queued"
  <2>1. Admit(c, k)
    BY <1>6
  <2> HIDE DEF c, k
  <2> QED BY <2>1, <1>3, <1>5, <1>6, AdmitKeeps
<1>7. CASE ~ (conn[k].srv = "open" /\ req[<<c, k>>].state = "queued")
  <2>1. req' = [req EXCEPT ![<<c, k>>] = Gone] /\ UNCHANGED <<record, age, forgotten, execs>>
    BY <1>7
  <2>2. Gone \in ReqType /\ Gone.state # "none" /\ Carries(ask, execs, c, Gone)
    BY GoneType DEF Carries
  <2> HIDE DEF c, k
  <2> QED BY <2>1, <2>2, <1>3, <1>4, <1>5, RequestMoves DEF PhoneTypes
<1> QED BY <1>6, <1>7

LEMMA ExecutionEndsKeeps ==
  ASSUME IInv, NEW e \in DOMAIN execs, ExecutionEnds(e)
  PROVE  IInv'
<1> USE InvFrom
<1>1. PICK size \in 1 .. MaxBytes + 1 :
         /\ Complete(e, size)
         /\ req' = [r \in Requests |->
              IF req[r].state = "running" /\ req[r].exec = e
                THEN Reply(r[1], r[2], IF size > MaxBytes THEN "too_large" ELSE "result", e)
                ELSE req[r]]
  BY DEF ExecutionEnds
<1>2. /\ execs[e].state = "running" /\ execs[e].inst = instance
      /\ UNCHANGED <<ask, call, active, known, conn, instance, lane>>
  BY DEF ExecutionEnds, fixedVars, phoneVars
<1> DEFINE o == ask[execs[e].call].operation
           kept == [Retained EXCEPT ![e] = Limited(size)]
           rs == [record EXCEPT ![o].state = "done"]
           order == Append(age, o)
           n == Evicted(rs, order, 0, kept)
           gone == Oldest(order, n)
           fs == [execs EXCEPT ![e].state = "done", ![e].size = size]
           a == IF size > MaxBytes THEN "too_large" ELSE "result"
<1>3. /\ execs' = fs /\ record' = Removed(rs, gone) /\ age' = Younger(order, n)
      /\ forgotten' = forgotten \cup {rs[p].exec : p \in gone}
  BY <1>1 DEF Complete
<1>4. o \in Operations /\ o = OperationOf(ask, execs, e)
  BY Parts DEF OperationOf
<1>5. execs[e] \in ExecType /\ size \in Nat /\ e \in Nat
  BY Parts, Assumed
<1>6. /\ fs \in Seq(ExecType) /\ DOMAIN fs = DOMAIN execs
      /\ \A d \in DOMAIN execs : d # e => fs[d] = execs[d]
      /\ fs[e].state = "done" /\ fs[e].size = size
      /\ fs[e].call = execs[e].call /\ fs[e].inst = execs[e].inst
  <2>1. fs[e] = [execs[e] EXCEPT !.state = "done", !.size = size]
    OBVIOUS
  <2>2. fs[e] \in ExecType /\ fs[e].state = "done" /\ fs[e].size = size
        /\ fs[e].call = execs[e].call /\ fs[e].inst = execs[e].inst
    BY <2>1, <1>5 DEF ExecType
  <2>3. execs \in Seq(ExecType) /\ fs = [d \in DOMAIN execs |-> fs[d]]
    BY Fixed
  <2>4. \A d \in DOMAIN execs : d # e => fs[d] = execs[d]
    OBVIOUS
  <2> HIDE DEF fs
  <2>5. \A d \in DOMAIN execs : fs[d] \in ExecType
    BY <2>2, <2>4, Parts
  <2> QED BY <2>2, <2>3, <2>4, <2>5, SeqChanged
<1>7. Registry(ask, instance, rs, order, fs, forgotten)
  BY <1>2, <1>4, Fixed, OutcomeKeeps
<1>8. rs \in [Operations -> RecordType] /\ order \in Seq(Operations)
  <2>1. record \in [Operations -> RecordType] /\ age \in Seq(Operations)
    BY Fixed
  <2>2. [record[o] EXCEPT !.state = "done"] \in RecordType
    BY <2>1, <1>4 DEF RecordType
  <2>3. rs = [record EXCEPT ![o] = [record[o] EXCEPT !.state = "done"]]
    OBVIOUS
  <2> QED BY <2>1, <2>2, <2>3, <1>4
<1> HIDE DEF fs, rs, order
<1>9. n \in 0 .. Len(order)
  BY <1>8, EvictedIsACount
<1> HIDE DEF n
<1>10. /\ Registry(ask, instance, record', age', execs', forgotten')
       /\ record' \in [Operations -> RecordType] /\ age' \in Seq(Operations)
  <2>1. \A d \in DOMAIN fs : OperationOf(ask, fs, d) \in Operations
    BY <1>6, Parts DEF OperationOf
  <2>2. gone = Oldest(order, n)
    OBVIOUS
  <2> HIDE DEF gone
  <2>3. Registry(ask, instance, Removed(rs, gone), Younger(order, n), fs,
                 forgotten \cup StoodFor(rs, gone))
    BY <2>1, <2>2, <1>7, <1>8, <1>9, EvictionKeeps
  <2>4. Removed(rs, gone) \in [Operations -> RecordType] /\ Younger(order, n) \in Seq(Operations)
    BY <1>8, <1>9, RemovedType, YoungerIsTheRest
  <2> QED BY <2>3, <2>4, <1>2, <1>3 DEF StoodFor
<1>11. RegistryOK' /\ RegistryTypes'
  BY <1>2, <1>3, <1>6, <1>10 DEF RegistryOK, RegistryTypes
<1>12. Grows(execs, execs')
  BY <1>2, <1>3, <1>6 DEF Grows
<1>13. \A c \in Calls, k \in Conns :
          \/ req'[<<c, k>>] = req[<<c, k>>]
          \/ /\ req[<<c, k>>].state = "running" /\ req[<<c, k>>].exec = e
             /\ req'[<<c, k>>] = Reply(c, k, a, e)
  BY <1>1
<1>14. a \in Answers /\ \A c \in Calls, k \in Conns : Reply(c, k, a, e) \in ReqType
                                              /\ Reply(c, k, a, e).state # "none"
  BY <1>5, ReplyType DEF Answers
<1> HIDE DEF a
<1>15. req' \in [Requests -> ReqType]
  <2>1. DOMAIN req' = Requests /\ req' = [r \in Requests |-> req'[r]]
    BY <1>1
  <2>2. ASSUME NEW r \in Requests PROVE req'[r] \in ReqType
    <3>1. r = <<r[1], r[2]>> /\ r[1] \in Calls /\ r[2] \in Conns
      BY Parts
    <3> QED BY <3>1, <1>13, <1>14 DEF RequestTypes
  <2> QED BY <2>1, <2>2
<1>16. \A c \in Calls, k \in Conns : req'[<<c, k>>].state = "none" <=> req[<<c, k>>].state = "none"
  BY <1>13, <1>14
<1>17. \A c \in Calls, k \in Conns : Carries(ask, execs', c, req'[<<c, k>>])
  <2> TAKE c \in Calls, k \in Conns
  <2>1. Carries(ask, execs, c, req[<<c, k>>])
    BY DEF OutcomeOK, ReqOK
  <2>2. CASE req'[<<c, k>>] = req[<<c, k>>]
    BY <2>1, <2>2, <1>12, CarriesGrows
  <2>3. CASE /\ req[<<c, k>>].state = "running" /\ req[<<c, k>>].exec = e
             /\ req'[<<c, k>>] = Reply(c, k, a, e)
    <3>1. Matches(ask, execs', c, e)
      BY <2>1, <2>3, <1>12, OutcomesGrow DEF Carries
    <3>2. IsOutcome(ask, execs', c, e, a)
      BY <3>1, <1>3, <1>6 DEF IsOutcome, a
    <3> QED BY <3>2, <2>3, <1>5, <1>14, ReplyCarries
  <2> QED BY <2>2, <2>3, <1>13
<1>18. lane' \in Seq(Requests) /\ \A i \in DOMAIN lane' : \E j \in DOMAIN lane : lane'[i] = lane[j]
  BY <1>2 DEF RequestTypes
<1> QED BY <1>2, <1>11, <1>12, <1>15, <1>16, <1>17, <1>18, RegistryMoves

-----------------------------------------------------------------------------
(* Theorems.                                                               *)

LEMMA InitInv == Init => IInv
<1> SUFFICES ASSUME Init PROVE IInv
  OBVIOUS
<1>1. Types
  BY InitTypes
<1> USE DEF Init
<1>2. ConnsOK
  <2>1. \A k \in Conns : conn[k].app # "none" <=> k <= 0
    BY Assumed DEF Conns
  <2>2. 0 \in 0 .. MaxConns
    BY Assumed
  <2> QED BY <2>1, <2>2 DEF ConnsOK, NoRequest, Requests
<1>3. ServerOK
  BY EmptySeq DEF ServerOK, AdmittedThere, OneServerPerCall, LaneOK, NoRequest, Requests
<1>4. RegistryOK
  <2>1. DOMAIN execs = {} /\ DOMAIN age = {}
    BY EmptySeq
  <2>2. RecordOK(ask, instance, record, execs) /\ AgeOK(record, age)
    BY <2>1 DEF RecordOK, AgeOK, NoRecord
  <2>3. LiveOK(ask, instance, record, execs, forgotten) /\ OnceOK(ask, execs, forgotten)
    BY <2>1 DEF LiveOK, OnceOK
  <2> QED BY <2>2, <2>3 DEF RegistryOK, Registry
<1>5. ReqOK
  BY DEF ReqOK, Carries, NoRequest, Requests
<1>6. AnsweredOK
  BY DEF AnsweredOK, NewCall, Outcomes
<1> QED BY <1>1, <1>2, <1>3, <1>4, <1>5, <1>6 DEF IInv, OutcomeOK

LEMMA StutterKeeps ==
  ASSUME IInv, UNCHANGED vars
  PROVE  IInv'
<1> USE InvFrom DEF vars, fixedVars, phoneVars, registryVars
<1>1. \A c \in Calls, k \in Conns : Carries(ask, execs, c, req'[<<c, k>>])
  BY DEF OutcomeOK, ReqOK
<1>2. \A i \in DOMAIN lane' : req'[lane'[i]].state # "none"
  BY DEF LaneOK
<1> QED BY <1>1, <1>2, RequestsMove DEF PhoneTypes, RequestTypes

LEMMA NextKeeps == IInv /\ [Next]_vars => IInv'
<1> SUFFICES ASSUME IInv, [Next]_vars PROVE IInv'
  OBVIOUS
<1>1. CASE Phone
  <2>1. CASE Connect
    BY <2>1, ConnectKeeps
  <2>2. ASSUME NEW c \in Calls, Route(c) \/ Retry(c) \/ Abort(c) PROVE IInv'
    BY <2>2, RouteKeeps, RetryKeeps, AbortKeeps
  <2>3. ASSUME NEW c \in Calls, NEW k \in Conns, Receive(c, k) PROVE IInv'
    BY <2>3, ReceiveKeeps
  <2>4. ASSUME NEW k \in Conns, PhoneLoses(k) PROVE IInv'
    BY <2>4, PhoneLosesKeeps
  <2> QED BY <1>1, <2>1, <2>2, <2>3, <2>4 DEF Phone
<1>2. CASE Server
  <2>1. CASE StartNext
    BY <2>1, StartNextKeeps
  <2>2. CASE Restart
    BY <2>2, RestartKeeps
  <2>3. ASSUME NEW k \in Conns, ServerDrops(k) \/ ReaderEnds(k) PROVE IInv'
    BY <2>3, ServerDropsKeeps, ReaderEndsKeeps
  <2>4. ASSUME NEW c \in Calls, NEW k \in Conns, Enqueue(c, k) \/ Cancel(c, k) \/ JoinedWakes(c, k)
        PROVE  IInv'
    BY <2>4, EnqueueKeeps, CancelKeeps, JoinedWakesKeeps
  <2>5. ASSUME NEW e \in DOMAIN execs, ExecutionEnds(e) PROVE IInv'
    BY <2>5, ExecutionEndsKeeps
  <2> QED BY <1>2, <2>1, <2>2, <2>3, <2>4, <2>5 DEF Server
<1>3. CASE UNCHANGED vars
  BY <1>3, StutterKeeps
<1> QED BY <1>1, <1>2, <1>3 DEF Next

\* Everything that ties the four parts together holds at all times: see the
\* comment of the module.
THEOREM Invariance == Spec => []IInv
<1>1. Init => IInv
  BY InitInv
<1>2. IInv /\ [Next]_vars => IInv'
  BY NextKeeps
<1> QED BY <1>1, <1>2, PTL DEF Spec

\* However many connections an operation is asked for over, a server does not
\* run it a second time while its execution is under way or its outcome is
\* remembered: what ran before has ended and the registry has dropped it.
THEOREM OperationsRunOnce == Spec => []RunsOnce
<1>1. IInv => RunsOnce
  BY DEF IInv, RegistryOK, Registry, OnceOK, OperationOf, RunsOnce
<1> QED BY <1>1, Invariance, PTL

\* The requests of a call all went to one instance of the server: routeRequest
\* gives a call up rather than retry it at another.
THEOREM NoBlindRetry == Spec => []OneServerPerCall
<1>1. IInv => OneServerPerCall
  BY DEF IInv, ServerOK
<1> QED BY <1>1, Invariance, PTL

\* What a call is answered with is the outcome of an execution of its operation
\* with its parameters, whether the request ran it, joined it or came later.
THEOREM AnswersAreOwn == Spec => []AnswerIsItsOwn
<1>1. IInv => AnswerIsItsOwn
  <2> SUFFICES ASSUME IInv, NEW c \in Calls, call[c].answer \in {"result", "too_large"}
               PROVE  LET e == execs[call[c].exec]
                      IN /\ e.state = "done" /\ ask[e.call].operation = ask[c].operation
                         /\ ask[e.call].payload = ask[c].payload
                         /\ call[c].answer = AnswerOf(call[c].exec)
    BY DEF AnswerIsItsOwn
  <2>1. IsOutcome(ask, execs, c, call[c].exec, call[c].answer)
    BY DEF IInv, OutcomeOK, AnsweredOK, Outcomes
  <2> QED BY <2>1 DEF IsOutcome, Matches, AnswerOf
<1> QED BY <1>1, Invariance, PTL

\* Nothing that was admitted is stopped while the worker lives: not by a
\* connection that is lost, a call that is withdrawn or a record that is evicted.
THEOREM AdmittedRuns == Spec => AdmittedRunsToItsEnd
<1> DEFINE Goes == \A e \in DOMAIN execs :
                     execs[e].state = "running" /\ instance' = instance => execs'[e].state # "lost"
<1>1. IInv /\ [Next]_vars => [Goes]_vars
  <2> SUFFICES ASSUME IInv, [Next]_vars, NEW e \in DOMAIN execs, execs[e].state = "running",
                      instance' = instance
               PROVE  execs'[e].state # "lost"
    OBVIOUS
  <2> USE InvFrom
  <2>1. CASE execs' = execs
    BY <2>1
  <2>2. ASSUME NEW c, NEW k, Admit(c, k) PROVE execs'[e].state # "lost"
    <3>1. execs' = execs \/ \E x : execs' = Append(execs, x)
      BY <2>2 DEF Admit
    <3>2. execs \in Seq(ExecType)
      BY Fixed
    <3> QED BY <3>1, <3>2
  <2>3. ASSUME NEW d \in DOMAIN execs, ExecutionEnds(d) PROVE execs'[e].state # "lost"
    <3>1. PICK size : execs' = [execs EXCEPT ![d].state = "done", ![d].size = size]
      BY <2>3 DEF ExecutionEnds, Complete
    <3>2. execs[d] \in ExecType
      BY Parts
    <3> QED BY <3>1, <3>2 DEF ExecType
  <2>4. CASE StartNext
    BY <2>1, <2>2, <2>4 DEF StartNext
  <2>5. CASE Restart
    BY <2>5, Fixed DEF Restart
  <2>6. CASE Phone
    <3>1. execs' = execs
      BY <2>6 DEF Phone, Connect, Route, Retry, Abort, Receive, PhoneLoses
    <3> QED BY <3>1, <2>1
  <2>7. ASSUME NEW c \in Calls, NEW k \in Conns,
               \/ ServerDrops(k) \/ ReaderEnds(k)
               \/ Enqueue(c, k) \/ Cancel(c, k) \/ JoinedWakes(c, k)
        PROVE  execs' = execs
    BY <2>7 DEF ServerDrops, ReaderEnds, Enqueue, Cancel, JoinedWakes
  <2>8. ASSUME NEW k \in Conns, ServerDrops(k) \/ ReaderEnds(k)
        PROVE  execs' = execs
    BY <2>8 DEF ServerDrops, ReaderEnds
  <2>9. CASE UNCHANGED vars
    BY <2>9, <2>1 DEF vars
  <2> QED BY <2>1, <2>3, <2>4, <2>5, <2>6, <2>7, <2>8, <2>9 DEF Next, Server
<1> QED BY <1>1, Invariance, PTL DEF Spec, AdmittedRunsToItsEnd
-----------------------------------------------------------------------------
(* The limits of the lane and the registry, and the count of the bytes.     *)

Terminal(rs) == {o \in Operations : rs[o].state = "done"}
Recorded(rs) == {o \in Operations : rs[o].state # "none"}

\* The records are few and the count b of the bytes they retain is exact.
Counted(rs, size, b) ==
  /\ IsFiniteSet(Recorded(rs)) /\ Cardinality(Recorded(rs)) <= capacity
  /\ IsFiniteSet(BytesOf(rs, Terminal(rs), size))
  /\ b = SizeOf(rs, Terminal(rs), size) /\ b <= MaxBytes

HandledOK == IsFiniteSet(Handled) /\ Cardinality(Handled) <= Width
LimitsOK ==
  /\ [asks |-> ask, capacity |-> capacity] \in Settings
  /\ Len(lane) <= LaneLimit /\ HandledOK
  /\ Counted(record, Retained, bytes)

LEMMA SettingsType ==
  ASSUME [asks |-> ask, capacity |-> capacity] \in Settings
  PROVE  capacity \in Nat \ {0}
<1> DEFINE s == [asks |-> ask, capacity |-> capacity]
<1>1. s.capacity = capacity
  OBVIOUS
<1> HIDE DEF s
<1>2. s.capacity \in Nat \ {0}
  BY CommandAssumption DEF s
<1> QED BY <1>1, <1>2

LEMMA BytesNamed ==
  ASSUME NEW rs, NEW ops, NEW size, NEW b
  PROVE  b \in BytesOf(rs, ops, size)
           <=> \E o \in ops : \E i \in 1 .. size[rs[o].exec] : b = <<o, i>>
BY DEF BytesOf

\* Records that retain the same retain as many bytes.
LEMMA BytesSame ==
  ASSUME NEW rs, NEW rt, NEW ops, NEW size, NEW kept,
         \A o \in ops : size[rs[o].exec] = kept[rt[o].exec]
  PROVE  BytesOf(rs, ops, size) = BytesOf(rt, ops, kept)
BY DEF BytesOf

\* A part of the records retains a part of the bytes.
LEMMA BytesFewer ==
  ASSUME NEW rs, NEW ops, NEW few, few \subseteq ops, NEW size,
         IsFiniteSet(BytesOf(rs, ops, size))
  PROVE  /\ IsFiniteSet(BytesOf(rs, few, size))
         /\ SizeOf(rs, few, size) <= SizeOf(rs, ops, size)
         /\ SizeOf(rs, few, size) \in Nat /\ SizeOf(rs, ops, size) \in Nat
         /\ SizeOf(rs, ops \ few, size) = SizeOf(rs, ops, size) - SizeOf(rs, few, size)
<1> DEFINE B == BytesOf(rs, ops, size)
           F == BytesOf(rs, few, size)
           R == BytesOf(rs, ops \ few, size)
<1>1. F \in SUBSET B
  BY BytesNamed
<1>2. R = B \ F
  <2>1. ASSUME NEW b \in R PROVE b \in B /\ b \notin F
    <3>1. PICK o \in ops \ few : \E i \in 1 .. size[rs[o].exec] : b = <<o, i>>
      BY <2>1, BytesNamed
    <3>2. PICK i \in 1 .. size[rs[o].exec] : b = <<o, i>>
      BY <3>1
    <3> QED BY <3>1, <3>2, BytesNamed
  <2>2. ASSUME NEW b \in B, b \notin F PROVE b \in R
    BY <2>2, BytesNamed
  <2> QED BY <2>1, <2>2
<1> HIDE DEF B, F, R
<1>3. /\ IsFiniteSet(F) /\ Cardinality(F) <= Cardinality(B)
  BY <1>1, FS_Subset DEF B
<1>4. /\ Cardinality(B \ F) = Cardinality(B) - Cardinality(B \cap F)
  BY FS_Difference DEF B
<1>5. B \cap F = F
  BY <1>1
<1>6. Cardinality(B) \in Nat /\ Cardinality(F) \in Nat
  BY <1>3, FS_CardinalityType DEF B
<1> QED BY <1>2, <1>3, <1>4, <1>5, <1>6 DEF SizeOf, B, F, R

\* One more record adds what it retains.
LEMMA BytesMore ==
  ASSUME NEW rs, NEW ops, NEW o, o \notin ops, NEW size, size[rs[o].exec] \in Nat,
         IsFiniteSet(BytesOf(rs, ops, size))
  PROVE  /\ IsFiniteSet(BytesOf(rs, ops \cup {o}, size))
         /\ SizeOf(rs, ops \cup {o}, size) = SizeOf(rs, ops, size) + size[rs[o].exec]
<1> DEFINE n == size[rs[o].exec]
           B == BytesOf(rs, ops, size)
           N == {o} \X (1 .. n)
<1>1. IsFiniteSet(N) /\ Cardinality(N) = n
  <2>1. n \in Nat /\ 1 \in Int /\ n \in Int
    OBVIOUS
  <2> HIDE DEF n
  <2>2. IsFiniteSet(1 .. n) /\ Cardinality(1 .. n) = n
    BY <2>1, FS_Interval
  <2> DEFINE f == [i \in 1 .. n |-> <<o, i>>]
  <2>3. f \in [1 .. n -> N] /\ \A i \in 1 .. n : f[i] = <<o, i>>
    OBVIOUS
  <2>4. \A b \in N : \E i \in 1 .. n : b = <<o, i>>
    OBVIOUS
  <2> HIDE DEF f, N
  <2>5. \A i, j \in 1 .. n : f[i] = f[j] => i = j
    BY <2>3
  <2>6. \A b \in N : \E i \in 1 .. n : f[i] = b
    BY <2>3, <2>4
  <2>7. f \in Bijection(1 .. n, N)
    BY <2>3, <2>5, <2>6 DEF Bijection, Injection, IsInjective, Surjection
  <2>8. ExistsBijection(1 .. n, N)
    BY <2>7 DEF ExistsBijection
  <2> QED BY <2>2, <2>8, FS_Bijection
<1>2. B \cap N = {}
  <2> SUFFICES ASSUME NEW b \in B, b \in N PROVE FALSE
    OBVIOUS
  <2>1. PICK p \in ops : \E i \in 1 .. size[rs[p].exec] : b = <<p, i>>
    BY BytesNamed
  <2> QED BY <2>1
<1>3. BytesOf(rs, ops \cup {o}, size) = B \cup N
  BY DEF BytesOf
<1> HIDE DEF n, B, N
<1>4. IsFiniteSet(B)
  BY DEF B
<1>5. /\ IsFiniteSet(B \cup N)
      /\ Cardinality(B \cup N) = Cardinality(B) + Cardinality(N) - Cardinality(B \cap N)
  BY <1>1, <1>4, FS_Union
<1>6. Cardinality(B \cap N) = 0
  BY <1>2, FS_EmptySet
<1>7. Cardinality(B) \in Nat /\ n \in Nat
  BY <1>4, FS_CardinalityType DEF n
<1>8. IsFiniteSet(B \cup N) /\ Cardinality(B \cup N) = Cardinality(B) + n
  BY <1>1, <1>5, <1>6, <1>7
<1> QED BY <1>3, <1>8 DEF SizeOf, n, B

\* What is not there retains nothing.
LEMMA BytesNone ==
  ASSUME NEW rs, NEW size
  PROVE  IsFiniteSet(BytesOf(rs, {}, size)) /\ SizeOf(rs, {}, size) = 0
BY FS_EmptySet DEF SizeOf, BytesOf

\* Some terminal records go, and with them what they retain.
LEMMA EvictionCounts ==
  ASSUME NEW rs \in [Operations -> RecordType], NEW size, NEW b,
         IsFiniteSet(Recorded(rs)), IsFiniteSet(BytesOf(rs, Terminal(rs), size)),
         b = SizeOf(rs, Terminal(rs), size), NEW gone, gone \subseteq Terminal(rs)
  PROVE  /\ IsFiniteSet(Recorded(Removed(rs, gone)))
         /\ Cardinality(Recorded(Removed(rs, gone))) <= Cardinality(Recorded(rs))
         /\ Terminal(Removed(rs, gone)) = Terminal(rs) \ gone
         /\ IsFiniteSet(BytesOf(Removed(rs, gone), Terminal(rs) \ gone, size))
         /\ SizeOf(Removed(rs, gone), Terminal(rs) \ gone, size) = b - SizeOf(rs, gone, size)
         /\ SizeOf(Removed(rs, gone), Terminal(rs) \ gone, size) = SizeOf(rs, Terminal(rs) \ gone, size)
         /\ b - SizeOf(rs, gone, size) <= b /\ b - SizeOf(rs, gone, size) \in Nat
<1> DEFINE left == Removed(rs, gone)
           rest == Terminal(rs) \ gone
<1>1. \A p \in Operations : left[p] = IF p \in gone THEN NoRecord ELSE rs[p]
  BY RemovedType
<1> HIDE DEF left
<1>2. Recorded(left) \in SUBSET Recorded(rs)
  BY <1>1 DEF Recorded, NoRecord
<1>3. Terminal(left) = rest
  BY <1>1 DEF Terminal, NoRecord
<1>4. IsFiniteSet(Recorded(left)) /\ Cardinality(Recorded(left)) <= Cardinality(Recorded(rs))
  BY <1>2, FS_Subset
<1>5. BytesOf(left, rest, size) = BytesOf(rs, rest, size)
  <2>1. \A o \in rest : left[o] = rs[o]
    BY <1>1 DEF Terminal
  <2> QED BY <2>1, BytesSame
<1>6. /\ SizeOf(rs, rest, size) = b - SizeOf(rs, gone, size)
      /\ SizeOf(rs, gone, size) \in Nat /\ b \in Nat /\ SizeOf(rs, gone, size) <= b
  <2> DEFINE all == Terminal(rs)
  <2>1. gone \subseteq all /\ IsFiniteSet(BytesOf(rs, all, size)) /\ b = SizeOf(rs, all, size)
    OBVIOUS
  <2> HIDE DEF all
  <2>2. /\ SizeOf(rs, all \ gone, size) = SizeOf(rs, all, size) - SizeOf(rs, gone, size)
        /\ SizeOf(rs, gone, size) \in Nat /\ SizeOf(rs, all, size) \in Nat
        /\ SizeOf(rs, gone, size) <= SizeOf(rs, all, size)
    BY <2>1, BytesFewer
  <2> QED BY <2>1, <2>2 DEF all
<1>7. IsFiniteSet(BytesOf(rs, rest, size)) /\ SizeOf(rs, rest, size) \in Nat
  BY BytesFewer
<1> QED BY <1>3, <1>4, <1>5, <1>6, <1>7 DEF left, SizeOf

\* The oldest of the completion order are terminal.
LEMMA OldestAreTerminal ==
  ASSUME NEW rs, NEW order \in Seq(Operations), AgeOK(rs, order), NEW m \in 0 .. Len(order)
  PROVE  Oldest(order, m) \subseteq Terminal(rs) /\ Oldest(order, Len(order)) = Terminal(rs)
<1>1. DOMAIN order = 1 .. Len(order) /\ Len(order) \in Nat /\ \A i \in DOMAIN order : order[i] \in Operations
  OBVIOUS
<1>2. \A i \in 1 .. m : i \in DOMAIN order
  BY <1>1
<1> QED BY <1>1, <1>2 DEF Oldest, Terminal, AgeOK

\* What evict_to_fit leaves retains no more than MAX_OUTCOME_BYTES.
LEMMA EvictedFits ==
  ASSUME NEW rs, NEW order \in Seq(Operations), AgeOK(rs, order), NEW incoming, NEW size
  PROVE  SizeOf(rs, Terminal(rs) \ Oldest(order, Evicted(rs, order, incoming, size)), size)
           <= MaxBytes
<1> DEFINE fits == {n \in 0 .. Len(order) :
                      /\ Held(rs) - n + incoming <= capacity
                      /\ SizeOf(rs, Terminal(rs) \ Oldest(order, n), size) <= MaxBytes}
<1>1. Len(order) \in Nat /\ fits \subseteq Nat
  OBVIOUS
<1>2. Evicted(rs, order, incoming, size) = IF fits = {} THEN Len(order) ELSE Min(fits)
  BY DEF Evicted, Terminal
<1>3. CASE fits = {}
  <2>1. Len(order) \in 0 .. Len(order)
    BY <1>1
  <2>2. Terminal(rs) \ Oldest(order, Len(order)) = {}
    BY <2>1, OldestAreTerminal
  <2>3. SizeOf(rs, {}, size) = 0
    BY BytesNone
  <2> HIDE DEF fits
  <2>4. Evicted(rs, order, incoming, size) = Len(order)
    BY <1>2, <1>3
  <2>5. Terminal(rs) \ Oldest(order, Evicted(rs, order, incoming, size)) = {}
    BY <2>2, <2>4
  <2>6. 0 <= MaxBytes
    BY Assumed
  <2> QED BY <2>3, <2>5, <2>6
<1>4. CASE fits # {}
  <2>1. Min(fits) \in fits
    <3> HIDE DEF fits
    <3> QED BY <1>1, <1>4, LeastIsThere
  <2>2. SizeOf(rs, Terminal(rs) \ Oldest(order, Min(fits)), size) <= MaxBytes
    BY <2>1
  <2> HIDE DEF fits
  <2> QED BY <1>2, <1>4, <2>2
<1> QED BY <1>3, <1>4
\* A step that moves requests, adds nothing to the lane beyond its limit and to
\* what is being handled, and leaves the registry alone.
LEMMA LimitsStay ==
  ASSUME LimitsOK, UNCHANGED <<ask, capacity, record, bytes, execs>>,
         Len(lane') <= LaneLimit,
         \A r \in Requests : req'[r].state \in {"running", "joined"} =>
                               req[r].state \in {"running", "joined"}
  PROVE  LimitsOK'
<1>1. Handled' \in SUBSET Handled
  BY DEF Handled
<1>2. HandledOK'
  <2>1. IsFiniteSet(Handled') /\ Cardinality(Handled') <= Cardinality(Handled)
    BY <1>1, FS_Subset DEF LimitsOK, HandledOK
  <2>2. Cardinality(Handled) <= Width /\ Cardinality(Handled) \in Nat /\ Cardinality(Handled') \in Nat
    BY <2>1, FS_CardinalityType DEF LimitsOK, HandledOK
  <2> QED BY <2>1, <2>2, CommandAssumption DEF HandledOK
<1>3. Counted(record, Retained, bytes)'
  <2>1. Retained' = Retained
    BY DEF Retained
  <2> QED BY <2>1 DEF LimitsOK, Counted, Recorded, Terminal, BytesOf, SizeOf
<1> QED BY <1>2, <1>3 DEF LimitsOK

\* One request more is handled only when there is a permit.
LEMMA HandledMore ==
  ASSUME HandledOK, NEW r \in Requests,
         \/ Cardinality(Handled) < Width
         \/ req'[r].state \notin {"running", "joined"},
         \A q \in Requests : q # r => (req'[q].state \in {"running", "joined"} =>
                               req[q].state \in {"running", "joined"})
  PROVE  HandledOK'
<1>1. IsFiniteSet(Handled) /\ Cardinality(Handled) \in Nat /\ Cardinality(Handled) <= Width /\ Width \in Nat
  BY FS_CardinalityType, CommandAssumption DEF HandledOK
<1>2. CASE Handled' \subseteq Handled
  <2>1. Handled' \in SUBSET Handled
    BY <1>2
  <2>2. IsFiniteSet(Handled') /\ Cardinality(Handled') <= Cardinality(Handled) /\ Cardinality(Handled') \in Nat
    BY <2>1, <1>1, FS_Subset, FS_CardinalityType
  <2> QED BY <2>2, <1>1 DEF HandledOK
<1>3. CASE ~ (Handled' \subseteq Handled)
  <2>1. Handled' \in SUBSET (Handled \cup {r}) /\ Cardinality(Handled) < Width
    BY <1>3 DEF Handled
  <2>2. IsFiniteSet(Handled \cup {r}) /\ Cardinality(Handled \cup {r}) <= Cardinality(Handled) + 1
    BY <1>1, FS_AddElement, SMTT(30)
  <2>3. IsFiniteSet(Handled') /\ Cardinality(Handled') <= Cardinality(Handled \cup {r})
    BY <2>1, <2>2, FS_Subset
  <2>4. Cardinality(Handled \cup {r}) \in Nat /\ Cardinality(Handled') \in Nat
    BY <2>2, <2>3, FS_CardinalityType
  <2> QED BY <2>1, <2>2, <2>3, <2>4, <1>1 DEF HandledOK
<1> QED BY <1>2, <1>3

\* The phone and the connections never reach the registry.
LEMMA PhoneLimits ==
  ASSUME IInv, LimitsOK, Phone
  PROVE  LimitsOK'
<1> USE InvFrom
<1>1. Len(lane) <= LaneLimit
  BY DEF LimitsOK
<1>2. req \in [Requests -> ReqType]
  BY DEF RequestTypes
<1> DEFINE Fewer == \A r \in Requests : req'[r].state \in {"running", "joined"} =>
                                          req[r].state \in {"running", "joined"}
           Still == UNCHANGED <<ask, capacity, record, bytes, execs, lane>>
<1>3. CASE Connect
  BY <1>1, <1>3, LimitsStay DEF Connect, fixedVars, registryVars
<1>4. ASSUME NEW c \in Calls, Sent(c) PROVE Fewer
  <2>1. req' = [req EXCEPT ![<<c, active>>].state = "wire"]
    BY <1>4 DEF Sent
  <2> TAKE r \in Requests
  <2>2. req[r] \in ReqType
    BY <1>2
  <2> QED BY <1>2, <2>1, <2>2 DEF ReqType
<1>5. ASSUME NEW c \in Calls, Route(c) PROVE LimitsOK'
  <2>1. Still
    BY <1>5 DEF Route, fixedVars, registryVars
  <2>2. Fewer
    BY <1>4, <1>5 DEF Route
  <2> QED BY <2>1, <2>2, <1>1, LimitsStay
<1>6. ASSUME NEW c \in Calls, Retry(c) PROVE LimitsOK'
  BY <1>6, <1>1, LimitsStay DEF Retry, fixedVars, registryVars
<1>7. ASSUME NEW c \in Calls, Abort(c) PROVE LimitsOK'
  <2>1. Still
    BY <1>7 DEF Abort, fixedVars, registryVars
  <2>2. Fewer
    BY <1>7, GoneType DEF Abort
  <2> QED BY <2>1, <2>2, <1>1, LimitsStay
<1>8. ASSUME NEW c \in Calls, NEW k \in Conns, Receive(c, k) PROVE LimitsOK'
  <2>1. Still
    BY <1>8 DEF Receive, fixedVars, registryVars
  <2>2. Fewer
    BY <1>8, <1>2, GoneType DEF Receive
  <2> QED BY <2>1, <2>2, <1>1, LimitsStay
<1>9. ASSUME NEW k \in Conns, PhoneLoses(k) PROVE LimitsOK'
  <2>1. Still
    BY <1>9 DEF PhoneLoses, fixedVars, registryVars
  <2>2. Fewer
    BY <1>9, GoneType DEF PhoneLoses
  <2> QED BY <2>1, <2>2, <1>1, LimitsStay
<1> QED BY <1>3, <1>5, <1>6, <1>7, <1>8, <1>9 DEF Phone

\* Nor do the readers, the lane's receiver and those who wait for an outcome.
LEMMA ServerLimits ==
  ASSUME IInv, LimitsOK, NEW c \in Calls, NEW k \in Conns,
         ServerDrops(k) \/ ReaderEnds(k) \/ Enqueue(c, k) \/ Cancel(c, k) \/ JoinedWakes(c, k)
  PROVE  LimitsOK'
<1> USE InvFrom
<1>1. Len(lane) <= LaneLimit /\ lane \in Seq(Requests) /\ req \in [Requests -> ReqType]
      /\ <<c, k>> \in Requests
  BY DEF LimitsOK, RequestTypes, Requests
<1> DEFINE Fewer == \A r \in Requests : req'[r].state \in {"running", "joined"} =>
                                          req[r].state \in {"running", "joined"}
           Still == UNCHANGED <<ask, capacity, record, bytes, execs>>
<1>2. ASSUME Still, Fewer, lane' = lane PROVE LimitsOK'
  BY <1>1, <1>2, LimitsStay
<1>3. ASSUME req' = Vanished(k) PROVE Fewer
  BY <1>3, GoneType DEF Vanished
<1>4. ASSUME NEW a, NEW e, req' = Answered(c, k, a, e) PROVE Fewer
  <2>1. Reply(c, k, a, e).state \in {"replied", "gone"}
    BY DEF Reply, Gone, NoRequest
  <2> QED BY <1>1, <1>4, <2>1 DEF Answered
<1>5. CASE ServerDrops(k)
  <2>1. Still /\ lane' = lane /\ (UNCHANGED req \/ req' = Vanished(k))
    BY <1>5 DEF ServerDrops, fixedVars, registryVars
  <2> QED BY <2>1, <1>2, <1>3
<1>6. CASE ReaderEnds(k)
  <2>1. Still /\ lane' = lane /\ req' = Vanished(k)
    BY <1>6 DEF ReaderEnds, fixedVars, registryVars
  <2> QED BY <2>1, <1>2, <1>3
<1>7. CASE Enqueue(c, k)
  <2>1. Still
    BY <1>7 DEF Enqueue, fixedVars, registryVars
  <2>2. CASE Len(lane) < LaneLimit
    <3>1. lane' = Append(lane, <<c, k>>) /\ req' = [req EXCEPT ![<<c, k>>].state = "queued"]
      BY <1>7, <2>2 DEF Enqueue
    <3>2. Len(lane') <= LaneLimit
      BY <3>1, <2>2, <1>1, CommandAssumption
    <3>3. ASSUME NEW r \in Requests, req'[r].state \in {"running", "joined"}
          PROVE  req[r].state \in {"running", "joined"}
      <4>1. req[r] \in ReqType
        BY <1>1
      <4> QED BY <1>1, <3>1, <3>3, <4>1 DEF ReqType
    <3> QED BY <2>1, <3>2, <3>3, LimitsStay
  <2>3. CASE ~ (Len(lane) < LaneLimit)
    BY <1>7, <2>1, <2>3, <1>2, <1>4 DEF Enqueue
  <2> QED BY <2>2, <2>3
<1>8. CASE Cancel(c, k)
  <2>1. Still /\ lane' = lane /\ req' = [req EXCEPT ![<<c, k>>] = Gone]
    BY <1>8 DEF Cancel, fixedVars, registryVars
  <2>2. Fewer
    BY <2>1, <1>1, GoneType
  <2> QED BY <2>1, <2>2, <1>2
<1>9. CASE JoinedWakes(c, k)
  <2>1. Still /\ lane' = lane
        /\ req' = Answered(c, k, AnswerOf(req[<<c, k>>].exec), req[<<c, k>>].exec)
    BY <1>9 DEF JoinedWakes, fixedVars, registryVars
  <2> QED BY <2>1, <1>2, <1>4
<1> QED BY <1>5, <1>6, <1>7, <1>8, <1>9

LEMMA RestartLimits ==
  ASSUME IInv, LimitsOK, Restart
  PROVE  LimitsOK'
<1> USE DEF Restart, fixedVars
<1>1. Handled' = {}
  BY GoneType DEF Handled
<1>2. HandledOK'
  BY <1>1, FS_EmptySet, CommandAssumption DEF HandledOK
<1>3. Recorded(record') = {} /\ Terminal(record') = {}
  BY DEF Recorded, Terminal, NoRecord
<1>4. Counted(record', Retained', 0)
  <2>1. capacity \in Nat /\ MaxBytes \in Nat
    BY SettingsType, Assumed DEF LimitsOK
  <2>2. IsFiniteSet({}) /\ Cardinality({}) = 0
    BY FS_EmptySet
  <2>3. IsFiniteSet(BytesOf(record', {}, Retained')) /\ SizeOf(record', {}, Retained') = 0
    BY BytesNone
  <2>4. /\ IsFiniteSet(BytesOf(record', Terminal(record'), Retained'))
        /\ SizeOf(record', Terminal(record'), Retained') = 0
    BY <2>3, <1>3
  <2>5. IsFiniteSet(Recorded(record')) /\ Cardinality(Recorded(record')) = 0
    BY <2>2, <1>3
  <2>6. Cardinality(Recorded(record')) <= capacity /\ 0 <= MaxBytes
    BY <2>1, <2>5
  <2> QED BY <2>4, <2>5, <2>6 DEF Counted
<1>5. Len(lane') <= LaneLimit
  BY EmptySeq, CommandAssumption
<1> QED BY <1>2, <1>4, <1>5 DEF LimitsOK, Counted, Recorded, Terminal, SizeOf, BytesOf

\* An admission drops the oldest records, and starts its operation only when
\* that has no record then and there is room for one.
LEMMA AdmitForms ==
  ASSUME IInv, NEW c \in Calls, NEW k \in Conns, Admit(c, k)
  PROVE  \E m \in 0 .. Len(age) :
           LET o == ask[c].operation
               gone == Oldest(age, m)
               left == Removed(record, gone)
           IN /\ bytes' = bytes - SizeOf(record, gone, Retained)
              /\ \/ record' = left /\ UNCHANGED execs
                 \/ /\ ~ (Held(left) >= capacity) /\ left[o].state = "none"
                    /\ execs' = Append(execs, [call |-> c, inst |-> instance, size |-> 0,
                                               state |-> "running"])
                    /\ record' = [left EXCEPT ![o] = [state |-> "pending",
                                                      exec |-> Len(execs) + 1]]
                    /\ req' = [req EXCEPT ![<<c, k>>].state = "running",
                                          ![<<c, k>>].exec = Len(execs) + 1]
<1> USE InvFrom
<1> DEFINE o == ask[c].operation
<1>0. o \in Operations
  BY DEF PhoneTypes
<1>1. PICK n \in 0 .. Len(age) :
        LET rs == Removed(record, Oldest(age, n))
            m == n + IF rs[o].state # "none" THEN 0
                     ELSE Evicted(rs, Younger(age, n), 1, Retained)
            gone == Oldest(age, m)
            left == Removed(record, gone)
        IN /\ bytes' = bytes - SizeOf(record, gone, Retained)
           /\ \/ record' = left /\ UNCHANGED execs
              \/ /\ ~ (Held(left) >= capacity) /\ rs[o].state = "none"
                 /\ execs' = Append(execs, [call |-> c, inst |-> instance, size |-> 0,
                                            state |-> "running"])
                 /\ record' = [left EXCEPT ![o] = [state |-> "pending",
                                                   exec |-> Len(execs) + 1]]
                 /\ req' = [req EXCEPT ![<<c, k>>].state = "running",
                                       ![<<c, k>>].exec = Len(execs) + 1]
  BY DEF Admit
<1> DEFINE rs == Removed(record, Oldest(age, n))
           m == n + IF rs[o].state # "none" THEN 0
                    ELSE Evicted(rs, Younger(age, n), 1, Retained)
<1>2. age \in Seq(Operations) /\ Len(age) \in Nat
  BY Fixed
<1>3. Evicted(rs, Younger(age, n), 1, Retained) \in 0 .. Len(age) - n
  BY <1>2, YoungerIsTheRest, EvictedIsACount
<1>4. m \in 0 .. Len(age)
  <2>1. m = n \/ m = n + Evicted(rs, Younger(age, n), 1, Retained)
    BY <1>2
  <2> HIDE DEF m, rs
  <2> QED BY <2>1, <1>2, <1>3
<1> DEFINE gone == Oldest(age, m)
           left == Removed(record, gone)
<1>5. rs[o].state = "none" => left[o].state = "none"
  <2>1. n <= m
    <3>1. m = n \/ m = n + Evicted(rs, Younger(age, n), 1, Retained)
      BY <1>2
    <3> HIDE DEF m, rs
    <3> QED BY <3>1, <1>2, <1>3
  <2>2. \A i \in 1 .. n : i \in 1 .. m
    BY <2>1, <1>2, <1>4
  <2> HIDE DEF m
  <2>3. Oldest(age, n) \subseteq gone
    BY <2>2 DEF Oldest
  <2>4. /\ rs[o] = IF o \in Oldest(age, n) THEN NoRecord ELSE record[o]
        /\ left[o] = IF o \in gone THEN NoRecord ELSE record[o]
    BY <1>0 DEF Removed
  <2> QED BY <2>3, <2>4 DEF NoRecord
<1>6. /\ bytes' = bytes - SizeOf(record, gone, Retained)
      /\ \/ record' = left /\ UNCHANGED execs
         \/ /\ ~ (Held(left) >= capacity) /\ rs[o].state = "none"
            /\ execs' = Append(execs, [call |-> c, inst |-> instance, size |-> 0,
                                       state |-> "running"])
            /\ record' = [left EXCEPT ![o] = [state |-> "pending", exec |-> Len(execs) + 1]]
            /\ req' = [req EXCEPT ![<<c, k>>].state = "running",
                                  ![<<c, k>>].exec = Len(execs) + 1]
  BY <1>1
<1> HIDE DEF m, rs
<1> QED BY <1>4, <1>5, <1>6

\* An admission drops records, and adds one when there is room for it; what it
\* adds is pending and retains nothing.
LEMMA AdmitCounts ==
  ASSUME IInv, LimitsOK, NEW c \in Calls, NEW k \in Conns, Admit(c, k), UNCHANGED capacity
  PROVE  Counted(record', Retained', bytes')
<1> USE InvFrom
<1> DEFINE o == ask[c].operation
<1>1. o \in Operations
  BY DEF PhoneTypes
<1>2. PICK m :
        LET gone == Oldest(age, m)
            left == Removed(record, gone)
        IN /\ m \in 0 .. Len(age)
           /\ bytes' = bytes - SizeOf(record, gone, Retained)
           /\ \/ record' = left /\ UNCHANGED execs
              \/ /\ ~ (Held(left) >= capacity) /\ left[o].state = "none"
                 /\ execs' = Append(execs, [call |-> c, inst |-> instance, size |-> 0,
                                            state |-> "running"])
                 /\ record' = [left EXCEPT ![o] = [state |-> "pending",
                                                   exec |-> Len(execs) + 1]]
  BY AdmitForms
<1> DEFINE gone == Oldest(age, m)
           left == Removed(record, gone)
           rest == Terminal(record) \ gone
<1>3. gone \subseteq Terminal(record)
  BY <1>2, Fixed, OldestAreTerminal DEF Registry
<1>4. record \in [Operations -> RecordType] /\ execs \in Seq(ExecType)
  BY Fixed
<1>5. /\ bytes' = bytes - SizeOf(record, gone, Retained)
      /\ \/ record' = left /\ UNCHANGED execs
         \/ /\ ~ (Held(left) >= capacity) /\ left[o].state = "none"
            /\ execs' = Append(execs, [call |-> c, inst |-> instance, size |-> 0, state |-> "running"])
            /\ record' = [left EXCEPT ![o] = [state |-> "pending", exec |-> Len(execs) + 1]]
  BY <1>2
<1> HIDE DEF gone
<1>6. /\ IsFiniteSet(Recorded(record)) /\ Cardinality(Recorded(record)) <= capacity
      /\ IsFiniteSet(BytesOf(record, Terminal(record), Retained))
      /\ bytes = SizeOf(record, Terminal(record), Retained) /\ bytes <= MaxBytes
  BY DEF LimitsOK, Counted
<1>7. /\ IsFiniteSet(Recorded(left)) /\ Cardinality(Recorded(left)) <= Cardinality(Recorded(record))
      /\ Terminal(left) = rest /\ IsFiniteSet(BytesOf(left, rest, Retained))
      /\ SizeOf(left, rest, Retained) = bytes'
      /\ bytes' <= bytes /\ bytes' \in Nat
  <2> DEFINE size == Retained
             b == bytes
             all == Terminal(record)
  <2>1. /\ IsFiniteSet(Recorded(record)) /\ gone \subseteq all
        /\ IsFiniteSet(BytesOf(record, all, size)) /\ b = SizeOf(record, all, size)
    BY <1>3, <1>6
  <2>2. all = Terminal(record)
    OBVIOUS
  <2> HIDE DEF size, b, all
  <2>3. /\ IsFiniteSet(Recorded(Removed(record, gone)))
        /\ Cardinality(Recorded(Removed(record, gone))) <= Cardinality(Recorded(record))
        /\ Terminal(Removed(record, gone)) = all \ gone
        /\ IsFiniteSet(BytesOf(Removed(record, gone), all \ gone, size))
        /\ SizeOf(Removed(record, gone), all \ gone, size) = b - SizeOf(record, gone, size)
        /\ b - SizeOf(record, gone, size) <= b /\ b - SizeOf(record, gone, size) \in Nat
    BY <1>4, <2>1, <2>2, EvictionCounts, SMTT(30)
  <2> QED BY <1>5, <2>3 DEF size, b, all
<1>8. /\ Cardinality(Recorded(record)) \in Nat /\ Cardinality(Recorded(left)) \in Nat
      /\ bytes \in Nat /\ MaxBytes \in Nat /\ capacity \in Nat
  BY <1>6, <1>7, FS_CardinalityType, SettingsType, Assumed DEF LimitsOK, SizeOf
<1>9. /\ left \in [Operations -> RecordType]
      /\ \A p \in Operations : left[p] = IF p \in gone THEN NoRecord ELSE record[p]
  BY <1>4, RemovedType
<1>10. Held(left) = Cardinality(Recorded(left))
  BY DEF Held, Recorded
<1> HIDE DEF left
<1>11. CASE record' = left /\ UNCHANGED execs
  <2>1. Retained' = Retained
    BY <1>11 DEF Retained
  <2>2. Cardinality(Recorded(left)) <= capacity /\ bytes' <= MaxBytes
    BY <1>6, <1>7, <1>8
  <2> QED BY <1>7, <1>11, <2>1, <2>2 DEF Counted
<1>12. CASE /\ ~ (Held(left) >= capacity) /\ left[o].state = "none"
            /\ execs' = Append(execs, [call |-> c, inst |-> instance, size |-> 0, state |-> "running"])
            /\ record' = [left EXCEPT ![o] = [state |-> "pending", exec |-> Len(execs) + 1]]
  <2>1. record'[o].state = "pending" /\ \A p \in Operations : p # o => record'[p] = left[p]
    BY <1>1, <1>9, <1>12
  <2>2. Recorded(record') \in SUBSET (Recorded(left) \cup {o})
    BY <2>1 DEF Recorded
  <2>3. IsFiniteSet(Recorded(record')) /\ Cardinality(Recorded(record')) <= capacity
    <3>1. Cardinality(Recorded(left)) + 1 <= capacity
      BY <1>8, <1>10, <1>12
    <3>2. /\ IsFiniteSet(Recorded(left) \cup {o})
          /\ Cardinality(Recorded(left) \cup {o}) <= Cardinality(Recorded(left)) + 1
      <4>1. /\ IsFiniteSet(Recorded(left) \cup {o})
            /\ Cardinality(Recorded(left) \cup {o})
                 = IF o \in Recorded(left) THEN Cardinality(Recorded(left))
                   ELSE Cardinality(Recorded(left)) + 1
        BY <1>7, FS_AddElement
      <4> QED BY <1>8, <4>1
    <3>3. /\ IsFiniteSet(Recorded(record'))
          /\ Cardinality(Recorded(record')) <= Cardinality(Recorded(left) \cup {o})
      BY <2>2, <3>2, FS_Subset
    <3>4. Cardinality(Recorded(record')) \in Nat /\ Cardinality(Recorded(left) \cup {o}) \in Nat
      BY <3>2, <3>3, FS_CardinalityType
    <3> QED BY <1>8, <3>1, <3>2, <3>3, <3>4
  <2>4. Terminal(record') = rest
    BY <1>7, <1>12, <2>1 DEF Terminal
  <2>5. BytesOf(record', rest, Retained') = BytesOf(left, rest, Retained)
    <3> SUFFICES ASSUME NEW p \in rest
                 PROVE  Retained'[record'[p].exec] = Retained[left[p].exec]
      BY BytesSame
    <3>1. p # o /\ p \in Operations /\ p \notin gone /\ record[p].state = "done"
      BY <2>1, <2>4 DEF Terminal
    <3>2. record'[p] = left[p] /\ left[p] = record[p]
      BY <2>1, <3>1, <1>9
    <3>3. record[p].exec \in DOMAIN execs
      BY <3>1, Fixed DEF Registry, RecordOK
    <3>4. /\ record[p].exec \in DOMAIN execs'
          /\ execs'[record[p].exec] = execs[record[p].exec]
      BY <3>3, <1>4, <1>12
    <3> QED BY <3>2, <3>3, <3>4 DEF Retained
  <2>6. bytes' <= MaxBytes
    BY <1>6, <1>7, <1>8
  <2> QED BY <2>3, <2>4, <2>5, <2>6, <1>7 DEF Counted, SizeOf
<1> QED BY <1>5, <1>11, <1>12

LEMMA StartNextLimits ==
  ASSUME IInv, LimitsOK, StartNext
  PROVE  LimitsOK'
<1> USE InvFrom DEF StartNext, fixedVars
<1> DEFINE c == Head(lane)[1]
           k == Head(lane)[2]
<1>1. lane \in Seq(Requests) /\ lane # <<>> /\ req \in [Requests -> ReqType]
  BY DEF RequestTypes
<1>2. /\ Head(lane) \in Requests /\ Len(Tail(lane)) = Len(lane) - 1 /\ Len(lane) \in Nat
  BY <1>1, HeadTailProperties
<1>3. c \in Calls /\ k \in Conns /\ Head(lane) = <<c, k>>
  BY <1>2 DEF Requests
<1>4. Len(lane') <= LaneLimit
  BY <1>2, CommandAssumption DEF LimitsOK
<1>5. Cardinality(Handled) < Width /\ UNCHANGED <<ask, capacity>>
  OBVIOUS
<1>6. CASE conn[k].srv = "open" /\ req[<<c, k>>].state = "queued"
  <2>1. Admit(c, k)
    BY <1>6
  <2> HIDE DEF c, k
  <2>2. Counted(record', Retained', bytes')
    BY <2>1, <1>3, <1>5, AdmitCounts
  <2>3. ASSUME NEW q \in Requests, q # <<c, k>>
        PROVE  req'[q] = req[q]
    <3>1. ASSUME NEW rec, Replay(c, k, rec) PROVE req'[q] = req[q]
      BY <1>1, <2>3, <3>1 DEF Replay, Answered
    <3> QED BY <1>1, <2>1, <2>3, <3>1 DEF Admit, Answered
  <2>4. HandledOK'
    BY <1>3, <1>5, <2>3, HandledMore, SMTT(30) DEF LimitsOK, Requests
  <2> QED BY <1>4, <1>5, <2>2, <2>4 DEF LimitsOK, Counted
<1>7. CASE ~ (conn[k].srv = "open" /\ req[<<c, k>>].state = "queued")
  <2>1. req' = [req EXCEPT ![<<c, k>>] = Gone] /\ UNCHANGED <<record, bytes, execs>>
    BY <1>7 DEF registryVars
  <2> HIDE DEF c, k
  <2>2. \A r \in Requests : req'[r].state \in {"running", "joined"} =>
                              req[r].state \in {"running", "joined"}
    BY <1>1, <2>1, GoneType
  <2> QED BY <1>4, <1>5, <2>1, <2>2, LimitsStay
<1> QED BY <1>6, <1>7

\* A completion adds what the outcome retains and then makes room for it.
LEMMA ExecutionEndsLimits ==
  ASSUME IInv, LimitsOK, NEW e \in DOMAIN execs, ExecutionEnds(e)
  PROVE  LimitsOK'
<1> USE InvFrom
<1>1. PICK size \in 1 .. MaxBytes + 1 :
         /\ Complete(e, size)
         /\ req' = [r \in Requests |->
              IF req[r].state = "running" /\ req[r].exec = e
                THEN Reply(r[1], r[2], IF size > MaxBytes THEN "too_large" ELSE "result", e)
                ELSE req[r]]
  BY DEF ExecutionEnds
<1>2. /\ execs[e].state = "running" /\ execs[e].inst = instance
      /\ UNCHANGED <<ask, capacity, lane>>
  BY DEF ExecutionEnds, fixedVars
<1> DEFINE o == ask[execs[e].call].operation
           kept == [Retained EXCEPT ![e] = Limited(size)]
           rs == [record EXCEPT ![o].state = "done"]
           order == Append(age, o)
           n == Evicted(rs, order, 0, kept)
           gone == Oldest(order, n)
           done == Terminal(record)
<1>3. /\ execs' = [execs EXCEPT ![e].state = "done", ![e].size = size]
      /\ record' = Removed(rs, gone)
      /\ bytes' = bytes + Limited(size) - SizeOf(rs, gone, kept)
  BY <1>1 DEF Complete
<1>4. /\ o \in Operations /\ o = OperationOf(ask, execs, e)
      /\ record \in [Operations -> RecordType] /\ age \in Seq(Operations) /\ execs \in Seq(ExecType)
      /\ Registry(ask, instance, record, age, execs, forgotten)
  BY Parts, Fixed DEF OperationOf
<1>5. record[o] = [state |-> "pending", exec |-> e]
  BY <1>2, <1>4 DEF Registry, LiveOK
<1>6. /\ rs \in [Operations -> RecordType]
      /\ rs[o].state = "done" /\ rs[o].exec = e /\ \A p \in Operations : p # o => rs[p] = record[p]
  <2>1. rs[o] = [record[o] EXCEPT !.state = "done"] /\ \A p \in Operations : p # o => rs[p] = record[p]
    BY <1>4
  <2>2. rs[o] \in RecordType /\ rs[o].state = "done" /\ rs[o].exec = e
    BY <2>1, <1>4, <1>5 DEF RecordType
  <2>3. rs = [record EXCEPT ![o] = rs[o]]
    BY <1>4
  <2> QED BY <2>1, <2>2, <2>3, <1>4
<1>7. order \in Seq(Operations) /\ AgeOK(rs, order)
  <2>1. Registry(ask, instance, rs, order, [execs EXCEPT ![e].state = "done", ![e].size = size], forgotten)
    BY <1>2, <1>4, OutcomeKeeps
  <2> QED BY <2>1, <1>4 DEF Registry
<1>8. Limited(size) \in Nat /\ MaxBytes \in Nat
  BY Assumed DEF Limited
<1>9. /\ DOMAIN Retained = DOMAIN execs /\ kept[e] = Limited(size)
      /\ \A d \in DOMAIN execs : d # e => kept[d] = Retained[d]
  BY DEF Retained
<1>10. Retained' = kept
  <2>1. DOMAIN execs' = DOMAIN execs /\ execs'[e].size = size
        /\ \A d \in DOMAIN execs : d # e => execs'[d] = execs[d]
    <3>1. execs[e] \in ExecType
      BY Parts
    <3>2. execs'[e] = [execs[e] EXCEPT !.state = "done", !.size = size]
      BY <1>3
    <3>3. execs'[e].size = size
      BY <3>1, <3>2 DEF ExecType
    <3> QED BY <3>3, <1>3
  <2>2. Retained' = [d \in DOMAIN execs |-> Limited(execs'[d].size)]
    BY <2>1 DEF Retained
  <2>3. \A d \in DOMAIN execs : Limited(execs'[d].size) = kept[d]
    BY <2>1, <1>9 DEF Retained
  <2>4. kept = [d \in DOMAIN execs |-> kept[d]]
    BY <1>9
  <2> QED BY <2>2, <2>3, <2>4
<1> HIDE DEF rs, order, kept
<1>11. n \in 0 .. Len(order) /\ gone \subseteq Terminal(rs)
  BY <1>7, EvictedIsACount, OldestAreTerminal
<1>12. SizeOf(rs, Terminal(rs) \ gone, kept) <= MaxBytes
  BY <1>7, EvictedFits
<1> HIDE DEF n, gone
<1>13. /\ IsFiniteSet(Recorded(record)) /\ Cardinality(Recorded(record)) <= capacity
       /\ IsFiniteSet(BytesOf(record, done, Retained))
       /\ bytes = SizeOf(record, done, Retained)
  BY DEF LimitsOK, Counted
<1>14. Recorded(rs) = Recorded(record) /\ Terminal(rs) = done \cup {o} /\ o \notin done
  BY <1>4, <1>5, <1>6 DEF Recorded, Terminal
<1>15. BytesOf(rs, done, kept) = BytesOf(record, done, Retained)
  <2> SUFFICES ASSUME NEW p \in done
               PROVE  kept[rs[p].exec] = Retained[record[p].exec]
    BY BytesSame
  <2>1. p \in Operations /\ p # o /\ record[p].state = "done"
    BY <1>5 DEF Terminal
  <2>2. record[p].exec \in DOMAIN execs /\ record[p].exec # e
    BY <2>1, <1>4 DEF Registry, RecordOK
  <2> QED BY <2>1, <2>2, <1>6, <1>9
<1>16. /\ IsFiniteSet(BytesOf(rs, Terminal(rs), kept))
       /\ SizeOf(rs, Terminal(rs), kept) = bytes + Limited(size)
  <2>1. kept[rs[o].exec] = Limited(size)
    BY <1>6, <1>9
  <2>2. IsFiniteSet(BytesOf(rs, done, kept)) /\ SizeOf(rs, done, kept) = bytes
    BY <1>13, <1>15 DEF SizeOf
  <2> HIDE DEF done, o
  <2> QED BY <2>1, <2>2, <1>8, <1>14, BytesMore
<1>17. Counted(record', kept, bytes')
  <2> DEFINE b == bytes + Limited(size)
  <2>1. b = SizeOf(rs, Terminal(rs), kept) /\ IsFiniteSet(Recorded(rs))
    BY <1>13, <1>14, <1>16
  <2>2. bytes' = b - SizeOf(rs, gone, kept)
    <3>1. SizeOf(rs, gone, kept) \in Nat /\ bytes \in Nat
      BY <1>11, <1>13, <1>16, BytesFewer, FS_CardinalityType DEF SizeOf
    <3> QED BY <3>1, <1>3, <1>8
  <2> HIDE DEF b
  <2>3. /\ IsFiniteSet(Recorded(record'))
        /\ Cardinality(Recorded(record')) <= Cardinality(Recorded(rs))
        /\ Terminal(record') = Terminal(rs) \ gone
        /\ IsFiniteSet(BytesOf(record', Terminal(rs) \ gone, kept))
        /\ SizeOf(record', Terminal(rs) \ gone, kept) = b - SizeOf(rs, gone, kept)
        /\ SizeOf(record', Terminal(rs) \ gone, kept) = SizeOf(rs, Terminal(rs) \ gone, kept)
    BY <1>3, <1>6, <1>11, <1>16, <2>1, EvictionCounts
  <2>4. Cardinality(Recorded(record')) <= capacity
    <3>1. Cardinality(Recorded(record')) \in Nat /\ Cardinality(Recorded(record)) \in Nat
          /\ capacity \in Nat
      BY <1>13, <2>3, FS_CardinalityType, SettingsType DEF LimitsOK
    <3> QED BY <3>1, <1>13, <1>14, <2>3
  <2> QED BY <1>12, <2>2, <2>3, <2>4 DEF Counted
<1>18. HandledOK'
  <2>1. ASSUME NEW r \in Requests, req'[r].state \in {"running", "joined"}
        PROVE  req[r].state \in {"running", "joined"}
    <3>1. \A x, y, a : Reply(x, y, a, e).state \in {"replied", "gone"}
      BY DEF Reply, Gone, NoRequest
    <3> QED BY <1>1, <2>1, <3>1
  <2>2. Handled' \in SUBSET Handled
    BY <2>1 DEF Handled
  <2>3. IsFiniteSet(Handled') /\ Cardinality(Handled') <= Cardinality(Handled)
    BY <2>2, FS_Subset DEF LimitsOK, HandledOK
  <2>4. Cardinality(Handled) <= Width /\ Cardinality(Handled) \in Nat /\ Cardinality(Handled') \in Nat
    BY <2>3, FS_CardinalityType DEF LimitsOK, HandledOK
  <2> QED BY <2>3, <2>4, CommandAssumption DEF HandledOK
<1> QED BY <1>2, <1>10, <1>17, <1>18 DEF LimitsOK, Counted, Recorded, Terminal, SizeOf, BytesOf

LEMMA InitLimits == Init => LimitsOK
<1> SUFFICES ASSUME Init PROVE LimitsOK
  OBVIOUS
<1> USE DEF Init
<1>1. [asks |-> ask, capacity |-> capacity] \in Settings
  <2>1. PICK s \in Settings : ask = s.asks /\ capacity = s.capacity
    OBVIOUS
  <2>2. s \in [asks : [Calls -> [operation : Operations, payload : Payloads]], capacity : Nat \ {0}]
    BY CommandAssumption
  <2>3. s = [asks |-> s.asks, capacity |-> s.capacity]
    BY <2>2
  <2> QED BY <2>1, <2>3
<1>2. capacity \in Nat
  BY <1>1, SettingsType
<1>3. Handled = {} /\ Recorded(record) = {} /\ Terminal(record) = {}
  BY DEF Handled, Recorded, Terminal, NoRequest, NoRecord
<1>4. IsFiniteSet({}) /\ Cardinality({}) = 0
  BY FS_EmptySet
<1>5. HandledOK
  BY <1>3, <1>4, CommandAssumption DEF HandledOK
<1>6. Counted(record, Retained, bytes)
  <2>1. IsFiniteSet(BytesOf(record, {}, Retained)) /\ SizeOf(record, {}, Retained) = 0
    BY BytesNone
  <2>2. /\ IsFiniteSet(BytesOf(record, Terminal(record), Retained))
        /\ SizeOf(record, Terminal(record), Retained) = 0
    BY <2>1, <1>3
  <2>3. IsFiniteSet(Recorded(record)) /\ Cardinality(Recorded(record)) = 0
    BY <1>3, <1>4
  <2>4. Cardinality(Recorded(record)) <= capacity /\ bytes = 0 /\ bytes <= MaxBytes
    BY <2>3, <1>2, Assumed
  <2> QED BY <2>2, <2>3, <2>4 DEF Counted
<1>7. Len(lane) <= LaneLimit
  BY EmptySeq, CommandAssumption
<1> QED BY <1>1, <1>5, <1>6, <1>7 DEF LimitsOK

LEMMA NextLimits == IInv /\ LimitsOK /\ [Next]_vars => LimitsOK'
<1> SUFFICES ASSUME IInv, LimitsOK, [Next]_vars PROVE LimitsOK'
  OBVIOUS
<1>1. CASE Phone
  BY <1>1, PhoneLimits
<1>2. CASE Server
  <2>1. CASE StartNext
    BY <2>1, StartNextLimits
  <2>2. CASE Restart
    BY <2>2, RestartLimits
  <2>3. ASSUME NEW k \in Conns, ServerDrops(k) \/ ReaderEnds(k) PROVE LimitsOK'
    <3>1. CASE Calls # {}
      BY <3>1, <2>3, ServerLimits
    <3>2. CASE Calls = {}
      <4>1. Requests = {}
        BY <3>2 DEF Requests
      <4>2. UNCHANGED <<ask, capacity, record, bytes, execs, lane>>
        BY <2>3 DEF ServerDrops, ReaderEnds, fixedVars, registryVars
      <4> QED BY <4>1, <4>2, LimitsStay DEF LimitsOK
    <3> QED BY <3>1, <3>2
  <2>4. ASSUME NEW c \in Calls, NEW k \in Conns, Enqueue(c, k) \/ Cancel(c, k) \/ JoinedWakes(c, k)
        PROVE  LimitsOK'
    BY <2>4, ServerLimits
  <2>5. ASSUME NEW e \in DOMAIN execs, ExecutionEnds(e) PROVE LimitsOK'
    BY <2>5, ExecutionEndsLimits
  <2> QED BY <1>2, <2>1, <2>2, <2>3, <2>4, <2>5 DEF Server
<1>3. CASE UNCHANGED vars
  BY <1>3, LimitsStay DEF vars, fixedVars, registryVars, LimitsOK
<1> QED BY <1>1, <1>2, <1>3 DEF Next

\* The registry keeps within its limits on records and bytes and its byte count
\* is exact, after every admission, completion, eviction and expiry; the lane
\* and what is being handled keep theirs.
THEOREM TypeCorrect == Spec => []TypeOK
<1>1. Init => IInv /\ LimitsOK
  BY InitInv, InitLimits
<1>2. IInv /\ LimitsOK /\ [Next]_vars => (IInv /\ LimitsOK)'
  BY NextKeeps, NextLimits
<1>3. IInv /\ LimitsOK => TypeOK
  <2> SUFFICES ASSUME IInv, LimitsOK PROVE TypeOK
    OBVIOUS
  <2> USE InvFrom
  <2>1. /\ call \in [Calls -> [state : Waiting \cup Over,
                         admitted : Instances \cup {0}, on : Conns \cup {0},
                         retrying : BOOLEAN, answer : Answers, exec : Nat]]
        /\ active \in Conns \cup {0} /\ known \in Instances \cup {0}
        /\ conn \in [Conns -> [app : {"none", "open", "closed"},
                               srv : {"none", "open", "zombie", "closed"},
                               inst : Instances \cup {0}]]
        /\ instance \in Instances
    BY DEF PhoneTypes, CallType, ConnType
  <2>2. /\ req \in [Requests -> [state : {"none", "wire", "queued", "running", "joined",
                                          "replied", "gone"},
                                 exec : Nat, answer : Answers]]
        /\ lane \in Seq(Requests)
    BY DEF RequestTypes, ReqType, ReqStates
  <2>3. /\ record \in [Operations -> [state : {"none", "pending", "done"}, exec : Nat]]
        /\ age \in Seq(Operations)
        /\ execs \in Seq([call : Calls, inst : Instances, size : Nat,
                          state : {"running", "done", "lost"}])
    BY DEF RegistryTypes, RecordType, ExecType
  <2>4. forgotten \subseteq DOMAIN execs
    BY Fixed DEF Registry, LiveOK
  <2>5. /\ [asks |-> ask, capacity |-> capacity] \in Settings
        /\ Len(lane) <= LaneLimit /\ Cardinality(Handled) <= Width
    BY DEF LimitsOK, HandledOK
  <2>6. /\ Held(record) <= capacity /\ bytes <= MaxBytes /\ bytes \in Nat
        /\ bytes = SizeOf(record, Terminal(record), Retained)
    BY FS_CardinalityType DEF LimitsOK, Counted, Held, Recorded, SizeOf
  <2>7. {age[i] : i \in DOMAIN age} = Terminal(record)
    BY Fixed, Parts DEF Registry, AgeOK, Terminal
  <2> QED BY <2>1, <2>2, <2>3, <2>4, <2>5, <2>6, <2>7 DEF TypeOK, Terminal
<1> QED BY <1>1, <1>2, <1>3, PTL DEF Spec

-----------------------------------------------------------------------------
(* What the server promises: CommandService.                               *)

\* What is connected leads to the running instance, and what a call has run at
\* an instance was asked for over a connection to it.
ServiceOK ==
  /\ \A k \in Conns : conn[k].srv \in {"open", "zombie"} => conn[k].inst = instance
  /\ \A e \in DOMAIN execs : \E k \in Conns :
       req[<<execs[e].call, k>>].state # "none" /\ conn[k].inst = execs[e].inst

\* A request that has been sent stays one.
LEMMA RequestsGoOn ==
  ASSUME IInv, Next, NEW c \in Calls, NEW k \in Conns, req[<<c, k>>].state # "none"
  PROVE  req'[<<c, k>>].state # "none"
<1> USE InvFrom
<1> DEFINE r == <<c, k>>
<1>1. r \in Requests /\ req \in [Requests -> ReqType]
  BY DEF Requests, RequestTypes
<1>2. \A d, j, a, e : Reply(d, j, a, e).state # "none"
  BY DEF Reply, Gone, NoRequest
<1>3. Gone.state # "none"
  BY GoneType
<1>4. \A x \in ReqType : /\ [x EXCEPT !.state = "wire"].state = "wire"
                         /\ [x EXCEPT !.state = "queued"].state = "queued"
                         /\ \A e : [x EXCEPT !.state = "joined", !.exec = e].state = "joined"
                         /\ \A e : [x EXCEPT !.state = "running", !.exec = e].state = "running"
  BY DEF ReqType
<1> HIDE DEF r
<1>5. \A d, j, a, e : Answered(d, j, a, e)[r].state # "none"
  <2> TAKE d, j, a, e
  <2>1. Answered(d, j, a, e)[r] \in {req[r], Reply(d, j, a, e)}
    BY <1>1 DEF Answered
  <2> QED BY <2>1, <1>2 DEF r
<1>6. CASE Phone
  <2>1. CASE Connect
    BY <2>1 DEF Connect, r
  <2>2. ASSUME NEW d \in Calls, Sent(d) PROVE req'[r].state # "none"
    BY <2>2, <1>1, <1>4 DEF Sent, r
  <2>3. ASSUME NEW d \in Calls, Route(d) \/ Retry(d) PROVE req'[r].state # "none"
    BY <2>2, <2>3 DEF Route, Retry, r
  <2>4. ASSUME NEW d \in Calls, Abort(d) PROVE req'[r].state # "none"
    BY <2>4, <1>1, <1>3 DEF Abort, r
  <2>5. ASSUME NEW d \in Calls, NEW j \in Conns, Receive(d, j) PROVE req'[r].state # "none"
    BY <2>5, <1>1, <1>3 DEF Receive, r
  <2>6. ASSUME NEW j \in Conns, PhoneLoses(j) PROVE req'[r].state # "none"
    BY <2>6, <1>1, <1>3 DEF PhoneLoses, r
  <2> QED BY <1>6, <2>1, <2>3, <2>4, <2>5, <2>6 DEF Phone, r
<1>7. CASE Server
  <2>1. ASSUME NEW d, NEW j, Admit(d, j) PROVE req'[r].state # "none"
    <3>1. ASSUME NEW rec, Replay(d, j, rec) PROVE req'[r].state # "none"
      <4>1. \/ \E a, e : req' = Answered(d, j, a, e)
            \/ req' = [req EXCEPT ![<<d, j>>].state = "joined", ![<<d, j>>].exec = rec.exec]
        BY <3>1 DEF Replay
      <4>2. CASE req' = [req EXCEPT ![<<d, j>>].state = "joined", ![<<d, j>>].exec = rec.exec]
        BY <4>2, <1>1, <1>4 DEF r
      <4> QED BY <4>1, <4>2, <1>5
    <3>2. \/ \E rec : Replay(d, j, rec)
          \/ \E a, e : req' = Answered(d, j, a, e)
          \/ \E e : req' = [req EXCEPT ![<<d, j>>].state = "running", ![<<d, j>>].exec = e]
      BY <2>1 DEF Admit
    <3>3. ASSUME NEW e, req' = [req EXCEPT ![<<d, j>>].state = "running", ![<<d, j>>].exec = e]
          PROVE  req'[r].state # "none"
      BY <3>3, <1>1, <1>4 DEF r
    <3> QED BY <3>1, <3>2, <3>3, <1>5
  <2>2. CASE StartNext
    BY <2>1, <2>2, <1>1, <1>3 DEF StartNext, r
  <2>3. CASE Restart
    BY <2>3, <1>1, <1>3 DEF Restart, r
  <2>4. ASSUME NEW j \in Conns, ServerDrops(j) \/ ReaderEnds(j) PROVE req'[r].state # "none"
    BY <2>4, <1>1, <1>3 DEF ServerDrops, ReaderEnds, Vanished, r
  <2>5. ASSUME NEW d \in Calls, NEW j \in Conns, Enqueue(d, j) PROVE req'[r].state # "none"
    <3>1. \/ req' = [req EXCEPT ![<<d, j>>].state = "queued"]
          \/ req' = Answered(d, j, "busy", 0)
      BY <2>5 DEF Enqueue
    <3>2. CASE req' = [req EXCEPT ![<<d, j>>].state = "queued"]
      BY <3>2, <1>1, <1>4 DEF r
    <3> QED BY <3>1, <3>2, <1>5
  <2>6. ASSUME NEW d \in Calls, NEW j \in Conns, Cancel(d, j) \/ JoinedWakes(d, j)
        PROVE  req'[r].state # "none"
    BY <2>6, <1>1, <1>3, <1>5 DEF Cancel, JoinedWakes, r
  <2>7. ASSUME NEW e \in DOMAIN execs, ExecutionEnds(e) PROVE req'[r].state # "none"
    BY <2>7, <1>1, <1>2 DEF ExecutionEnds, r
  <2> QED BY <1>7, <2>2, <2>3, <2>4, <2>5, <2>6, <2>7 DEF Server, r
<1> QED BY <1>6, <1>7 DEF Next, r

\* A step that starts nothing, opens no connection and is no restart.
LEMMA ServiceStays ==
  ASSUME IInv, ServiceOK, Next, instance' = instance,
         \A k \in Conns : /\ conn'[k].inst = conn[k].inst
                          /\ conn'[k].srv \in {"open", "zombie"} => conn[k].srv \in {"open", "zombie"},
         DOMAIN execs' = DOMAIN execs,
         \A e \in DOMAIN execs : execs'[e].call = execs[e].call /\ execs'[e].inst = execs[e].inst
  PROVE  ServiceOK'
<1>1. \A e \in DOMAIN execs : execs[e].call \in Calls
  BY Parts, InvFrom
<1>2. ASSUME NEW e \in DOMAIN execs'
      PROVE  \E k \in Conns : req'[<<execs'[e].call, k>>].state # "none" /\ conn'[k].inst = execs'[e].inst
  <2>1. PICK k \in Conns : req[<<execs[e].call, k>>].state # "none" /\ conn[k].inst = execs[e].inst
    BY <1>2 DEF ServiceOK
  <2>2. req'[<<execs[e].call, k>>].state # "none"
    BY <2>1, <1>1, <1>2, RequestsGoOn
  <2> QED BY <2>1, <2>2
<1>3. \A k \in Conns : conn'[k].srv \in {"open", "zombie"} => conn'[k].inst = instance'
  BY DEF ServiceOK
<1> QED BY <1>2, <1>3 DEF ServiceOK

LEMMA ServiceNextKeeps ==
  ASSUME IInv, ServiceOK, Next
  PROVE  ServiceOK'
<1> USE InvFrom
<1>1. \A e \in DOMAIN execs : execs[e].call \in Calls
  BY Parts
<1>2. CASE Connect
  <2> DEFINE new == Opened + 1
             x == [app |-> "open", srv |-> "open", inst |-> instance]
  <2>1. conn' = [conn EXCEPT ![new] = x] /\ UNCHANGED <<instance, req, execs>>
    BY <1>2 DEF Connect
  <2>2. conn \in [Conns -> ConnType] /\ x.inst = instance
    BY DEF PhoneTypes
  <2>3. new \notin Conns \/ conn[new].app = "none"
    <3>1. PICK n \in 0 .. MaxConns : \A k \in Conns : conn[k].app # "none" <=> k <= n
      BY DEF ConnsOK
    <3>2. new = n + 1 /\ n \in Nat
      BY <3>1, OpenedIs, Assumed
    <3>3. ~ (new <= n)
      BY <3>2
    <3> QED BY <3>1, <3>3
  <2> HIDE DEF new, x
  <2>4. \A k \in Conns : conn'[k] = IF k = new THEN x ELSE conn[k]
    BY <2>1, <2>2
  <2>5. \A k \in Conns : conn'[k].srv \in {"open", "zombie"} => conn'[k].inst = instance'
    BY <2>1, <2>2, <2>4 DEF ServiceOK
  <2>6. ASSUME NEW e \in DOMAIN execs
        PROVE  \E k \in Conns : req[<<execs[e].call, k>>].state # "none" /\ conn'[k].inst = execs[e].inst
    <3>1. PICK k \in Conns : req[<<execs[e].call, k>>].state # "none" /\ conn[k].inst = execs[e].inst
      BY DEF ServiceOK
    <3>2. k # new
      BY <3>1, <1>1, <2>3 DEF ConnsOK
    <3> QED BY <3>1, <3>2, <2>4
  <2> QED BY <2>1, <2>5, <2>6, SMTT(30) DEF ServiceOK
<1>3. CASE Restart
  <2>1. /\ DOMAIN execs' = DOMAIN execs
        /\ \A e \in DOMAIN execs : execs'[e].call = execs[e].call /\ execs'[e].inst = execs[e].inst
    <3>1. \A e \in DOMAIN execs : execs'[e] = execs[e] \/ execs'[e] = [execs[e] EXCEPT !.state = "lost"]
      BY <1>3 DEF Restart
    <3>2. \A x \in ExecType : /\ [x EXCEPT !.state = "lost"].call = x.call
                              /\ [x EXCEPT !.state = "lost"].inst = x.inst
      BY DEF ExecType
    <3> QED BY <3>1, <3>2, <1>3, Parts DEF Restart
  <2>2. \A k \in Conns : conn'[k].inst = conn[k].inst /\ conn'[k].srv \notin {"open", "zombie"}
    <3>1. \A k \in Conns : conn[k] \in ConnType
      BY DEF PhoneTypes
    <3>2. \A x \in ConnType : /\ [x EXCEPT !.srv = "closed"].srv = "closed"
                              /\ [x EXCEPT !.srv = "closed"].inst = x.inst
      BY DEF ConnType
    <3>3. \A k \in Conns : conn'[k] = IF conn[k].srv = "none" THEN conn[k] ELSE [conn[k] EXCEPT !.srv = "closed"]
      BY <1>3 DEF Restart
    <3> QED BY <3>1, <3>2, <3>3
  <2>3. ASSUME NEW e \in DOMAIN execs
        PROVE  \E k \in Conns : req'[<<execs'[e].call, k>>].state # "none" /\ conn'[k].inst = execs'[e].inst
    <3>1. PICK k \in Conns : req[<<execs[e].call, k>>].state # "none" /\ conn[k].inst = execs[e].inst
      BY DEF ServiceOK
    <3>2. req'[<<execs[e].call, k>>].state # "none"
      BY <3>1, <1>1, RequestsGoOn
    <3> QED BY <3>1, <3>2, <2>1, <2>2
  <2> QED BY <2>1, <2>2, <2>3 DEF ServiceOK
<1>4. CASE StartNext
  <2> DEFINE c == Head(lane)[1]
             k == Head(lane)[2]
  <2>1. UNCHANGED <<conn, instance>>
    BY <1>4 DEF StartNext
  <2>2. c \in Calls /\ k \in Conns
    <3>1. lane \in Seq(Requests) /\ lane # <<>>
      BY <1>4 DEF StartNext, RequestTypes
    <3> QED BY <3>1, HeadTailProperties DEF Requests
  <2>3. CASE ~ (conn[k].srv = "open" /\ req[<<c, k>>].state = "queued")
    <3>1. UNCHANGED execs
      BY <1>4, <2>3 DEF StartNext
    <3> QED BY <2>1, <3>1, ServiceStays
  <2>4. CASE conn[k].srv = "open" /\ req[<<c, k>>].state = "queued"
    <3>1. Admit(c, k)
      BY <1>4, <2>4 DEF StartNext
    <3> HIDE DEF c, k
    <3>2. execs' = execs \/ execs' = Append(execs, [call |-> c, inst |-> instance, size |-> 0,
                                                    state |-> "running"])
      BY <2>2, <3>1 DEF Admit
    <3>3. CASE execs' = execs
      BY <3>3, <2>1, ServiceStays
    <3>4. CASE execs' = Append(execs, [call |-> c, inst |-> instance, size |-> 0, state |-> "running"])
      <4> DEFINE x == [call |-> c, inst |-> instance, size |-> 0, state |-> "running"]
      <4>1. x.call = c /\ x.inst = instance /\ execs' = Append(execs, x) /\ execs \in Seq(ExecType)
        BY <3>4, Fixed
      <4> HIDE DEF x
      <4>2. \A e \in DOMAIN execs' : \/ e \in DOMAIN execs /\ execs'[e] = execs[e]
                                     \/ execs'[e] = x
        BY <4>1
      <4>3. ASSUME NEW e \in DOMAIN execs'
            PROVE  \E j \in Conns : req'[<<execs'[e].call, j>>].state # "none" /\ conn'[j].inst = execs'[e].inst
        <5>1. CASE execs'[e] = x
          <6>1. req'[<<c, k>>].state # "none" /\ conn[k].inst = instance
            BY <2>2, <2>4, RequestsGoOn DEF ServiceOK
          <6> QED BY <5>1, <6>1, <4>1, <2>1, <2>2
        <5>2. CASE e \in DOMAIN execs /\ execs'[e] = execs[e]
          <6>1. PICK j \in Conns : req[<<execs[e].call, j>>].state # "none" /\ conn[j].inst = execs[e].inst
            BY <5>2 DEF ServiceOK
          <6>2. req'[<<execs[e].call, j>>].state # "none"
            BY <5>2, <6>1, <1>1, RequestsGoOn
          <6> QED BY <5>2, <6>1, <6>2, <2>1
        <5> QED BY <5>1, <5>2, <4>2
      <4> QED BY <4>3, <2>1 DEF ServiceOK
    <3> QED BY <3>2, <3>3, <3>4
  <2> QED BY <2>3, <2>4
<1>5. ASSUME NEW e \in DOMAIN execs, ExecutionEnds(e) PROVE ServiceOK'
  <2>1. PICK size : execs' = [execs EXCEPT ![e].state = "done", ![e].size = size]
    BY <1>5 DEF ExecutionEnds, Complete
  <2>2. execs[e] \in ExecType
    BY Parts
  <2>3. \A d \in DOMAIN execs : execs'[d].call = execs[d].call /\ execs'[d].inst = execs[d].inst
    BY <2>1, <2>2 DEF ExecType
  <2> QED BY <2>1, <2>3, <1>5, ServiceStays DEF ExecutionEnds
<1>6. ASSUME NEW k \in Conns, PhoneLoses(k) \/ ServerDrops(k) \/ ReaderEnds(k) PROVE ServiceOK'
  <2>1. UNCHANGED <<instance, execs>>
    BY <1>6 DEF PhoneLoses, ServerDrops, ReaderEnds
  <2>2. \E a \in {"app", "srv"} : \E v \in {"zombie", "closed"} :
          conn' = [conn EXCEPT ![k] = IF a = "app" THEN [@ EXCEPT !.app = v] ELSE [@ EXCEPT !.srv = v]]
          /\ (a = "srv" => conn[k].srv \in {"open", "zombie"})
    BY <1>6 DEF PhoneLoses, ServerDrops, ReaderEnds
  <2>3. \A x \in ConnType : \A v : /\ [x EXCEPT !.app = v].inst = x.inst
                                   /\ [x EXCEPT !.app = v].srv = x.srv
                                   /\ [x EXCEPT !.srv = v].inst = x.inst
    BY DEF ConnType
  <2>4. conn \in [Conns -> ConnType]
    BY DEF PhoneTypes
  <2>5. \A j \in Conns : /\ conn'[j].inst = conn[j].inst
                         /\ conn'[j].srv \in {"open", "zombie"} => conn[j].srv \in {"open", "zombie"}
    BY <2>2, <2>3, <2>4
  <2> QED BY <2>1, <2>5, ServiceStays
<1>7. ASSUME UNCHANGED <<conn, instance, execs>> PROVE ServiceOK'
  BY <1>7, ServiceStays
<1>8. ASSUME NEW c \in Calls, Route(c) \/ Retry(c) \/ Abort(c) PROVE ServiceOK'
  BY <1>7, <1>8 DEF Route, Retry, Abort
<1>9. ASSUME NEW c \in Calls, NEW k \in Conns,
             Receive(c, k) \/ Enqueue(c, k) \/ Cancel(c, k) \/ JoinedWakes(c, k)
      PROVE  ServiceOK'
  BY <1>7, <1>9 DEF Receive, Enqueue, Cancel, JoinedWakes
<1> QED BY <1>2, <1>3, <1>4, <1>5, <1>6, <1>8, <1>9 DEF Next, Phone, Server

LEMMA InitService == Init => ServiceOK
<1> SUFFICES ASSUME Init PROVE ServiceOK
  OBVIOUS
<1>1. DOMAIN execs = {} /\ \A k \in Conns : conn[k].srv = "none"
  BY EmptySeq DEF Init
<1> QED BY <1>1 DEF ServiceOK

\* What the service sees of the executions.
LEMMA RunsAre ==
  ASSUME Types
  PROVE  /\ Runs = [e \in DOMAIN execs |-> Run(e)] /\ DOMAIN Runs = DOMAIN execs
         /\ Runs \in Seq({Run(e) : e \in DOMAIN execs}) /\ Len(Runs) = Len(execs)
         /\ \A e \in DOMAIN execs :
              /\ Runs[e].call = execs[e].call /\ Runs[e].life = execs[e].inst
              /\ Runs[e].outcome = IF execs[e].state = "done" THEN AnswerOf(e) ELSE execs[e].state
              /\ execs[e].state = "done" => Service!HasEnded(e)
              /\ Runs[e].outcome = "running" <=> execs[e].state = "running"
<1>1. Len(execs) \in Nat /\ DOMAIN execs = 1 .. Len(execs)
  BY Parts
<1>2. Runs = [e \in DOMAIN execs |-> Run(e)] /\ DOMAIN Runs = DOMAIN execs
  BY DEF Runs
<1>3. Runs \in Seq({Run(e) : e \in DOMAIN execs}) /\ Len(Runs) = Len(execs)
  <2>1. Runs \in [1 .. Len(execs) -> {Run(e) : e \in DOMAIN execs}]
    BY <1>1, <1>2
  <2> QED BY <1>1, <2>1
<1>4. ASSUME NEW e \in DOMAIN execs
      PROVE  /\ Runs[e].call = execs[e].call /\ Runs[e].life = execs[e].inst
             /\ Runs[e].outcome = IF execs[e].state = "done" THEN AnswerOf(e) ELSE execs[e].state
  BY <1>2 DEF Run
<1>5. \A e : AnswerOf(e) \in {"result", "too_large"}
  BY DEF AnswerOf
<1> QED BY <1>2, <1>3, <1>4, <1>5 DEF Service!HasEnded

LEMMA RunsStay ==
  ASSUME execs' = execs
  PROVE  Runs' = Runs
BY DEF Runs, Run, AnswerOf

LEMMA NewsIs ==
  ASSUME NEW x
  PROVE  /\ x.state \in Waiting => News(x) = [news |-> "none", run |-> 0]
         /\ (x.state = "answered" /\ x.answer \in Outcomes)
              => News(x) = [news |-> x.answer, run |-> x.exec]
         /\ (x.state \notin Waiting /\ ~ (x.state = "answered" /\ x.answer \in Outcomes))
              => News(x) = [news |-> "refused", run |-> 0]
<1>1. CASE x.state \in Waiting
  <2>1. x.state # "answered"
    BY <1>1 DEF Waiting
  <2> QED BY <1>1, <2>1 DEF News
<1>2. CASE x.state = "answered" /\ x.answer \in Outcomes
  <2>1. x.state \notin Waiting
    BY <1>2 DEF Waiting
  <2> QED BY <1>2, <2>1 DEF News, Outcomes
<1>3. CASE x.state \notin Waiting /\ ~ (x.state = "answered" /\ x.answer \in Outcomes)
  BY <1>3 DEF News, Outcomes
<1> QED BY <1>1, <1>2, <1>3

LEMMA RememberedIs == Remembered = StoodFor(record, Recorded(record))
BY DEF Remembered, StoodFor, Recorded

ServiceStep == [Service!ServiceNext]_(Service!serviceVars)

\* A step that starts, ends and forgets nothing, and tells a call something if
\* it is waiting.
LEMMA CallMoves ==
  ASSUME IInv, UNCHANGED <<ask, instance, execs, record>>,
         NEW c \in Calls, NEW x, call' = [call EXCEPT ![c] = x],
         News(x) = News(call[c])
           \/ /\ call[c].state \in Waiting
              /\ \/ News(x) = [news |-> "refused", run |-> 0]
                 \/ \E e : /\ IsOutcome(ask, execs, c, e, AnswerOf(e))
                           /\ News(x) = [news |-> AnswerOf(e), run |-> e]
  PROVE  ServiceStep
<1> USE InvFrom
<1>1. UNCHANGED <<ask, instance, Runs, Remembered>>
  BY RunsStay DEF Remembered
<1>2. Told' = [Told EXCEPT ![c] = News(x)] /\ Told[c] = News(call[c])
  BY DEF Told, PhoneTypes
<1>3. CASE News(x) = News(call[c])
  <2>1. Told' = Told
    BY <1>2, <1>3 DEF Told
  <2> QED BY <1>1, <2>1 DEF ServiceStep, Service!serviceVars
<1>4. ASSUME call[c].state \in Waiting PROVE Told[c] = Service!Nothing
  BY <1>2, <1>4, NewsIs DEF Service!Nothing
<1>5. CASE call[c].state \in Waiting /\ News(x) = [news |-> "refused", run |-> 0]
  <2>1. Service!Refuse(c)
    BY <1>1, <1>2, <1>4, <1>5 DEF Service!Refuse
  <2> QED BY <2>1 DEF ServiceStep, Service!ServiceNext
<1>6. ASSUME NEW e, call[c].state \in Waiting, IsOutcome(ask, execs, c, e, AnswerOf(e)),
             News(x) = [news |-> AnswerOf(e), run |-> e]
      PROVE  ServiceStep
  <2>1. /\ e \in DOMAIN execs /\ execs[e].state = "done"
        /\ ask[execs[e].call].operation = ask[c].operation
        /\ ask[execs[e].call].payload = ask[c].payload
    BY <1>6 DEF IsOutcome, Matches
  <2>2. e \in DOMAIN Runs /\ Service!HasEnded(e)
        /\ Runs[e].outcome = AnswerOf(e) /\ Runs[e].call = execs[e].call
    BY <2>1, RunsAre
  <2>3. Service!SameCommand(c, Runs[e].call)
    BY <2>1, <2>2 DEF Service!SameCommand, Service!SameOperation
  <2>4. Told' = [Told EXCEPT ![c] = [news |-> Runs[e].outcome, run |-> e]]
    BY <1>2, <1>6, <2>2
  <2>5. Service!Tell(c, e)
    BY <1>1, <1>4, <1>6, <2>2, <2>3, <2>4 DEF Service!Tell
  <2> QED BY <2>2, <2>5 DEF ServiceStep, Service!ServiceNext
<1> QED BY <1>3, <1>5, <1>6

\* A step in which the calls do not change, or only wait for something else.
LEMMA NothingMoves ==
  ASSUME IInv, UNCHANGED <<ask, instance, execs, record>>, DOMAIN call' = Calls, call' = [c \in Calls |-> call'[c]],
         \A c \in Calls : call'[c] = call[c] \/ (call'[c].state \in Waiting /\ call[c].state \in Waiting)
  PROVE  ServiceStep
<1>1. UNCHANGED <<ask, instance, Runs, Remembered>>
  BY RunsStay DEF Remembered
<1>2. \A c \in Calls : News(call'[c]) = News(call[c])
  BY NewsIs
<1>3. Told' = Told
  BY <1>2 DEF Told
<1> QED BY <1>1, <1>3 DEF ServiceStep, Service!serviceVars

LEMMA PhoneServes ==
  ASSUME IInv, Phone
  PROVE  ServiceStep
<1> USE InvFrom
<1>1. call \in [Calls -> CallType]
  BY DEF PhoneTypes
<1>2. ASSUME NEW c \in Calls, NEW x, x.state \in Waiting, call[c].state \in Waiting,
             call' = [call EXCEPT ![c] = x], UNCHANGED <<ask, instance, execs, record>>
      PROVE  ServiceStep
  <2>1. News(x) = News(call[c])
    BY <1>2, NewsIs
  <2> QED BY <1>2, <2>1, CallMoves
<1>3. ASSUME NEW c \in Calls, NEW x, x.state \in Over, x.state # "answered", call[c].state \in Waiting,
             call' = [call EXCEPT ![c] = x], UNCHANGED <<ask, instance, execs, record>>
      PROVE  ServiceStep
  <2>1. News(x) = [news |-> "refused", run |-> 0]
    BY <1>3, NewsIs DEF Waiting, Over
  <2> QED BY <1>3, <2>1, CallMoves
<1>4. CASE Connect
  BY <1>1, <1>4, NothingMoves DEF Connect, fixedVars, registryVars
<1>5. ASSUME NEW c \in Calls, Route(c) PROVE ServiceStep
  <2>1. UNCHANGED <<ask, instance, execs, record>> /\ call[c].state = "waiting"
    BY <1>5 DEF Route, fixedVars, registryVars
  <2>2. CASE Sent(c)
    <3> DEFINE x == [call[c] EXCEPT !.state = "sent", !.on = active, !.admitted = known]
    <3>1. call' = [call EXCEPT ![c] = x] /\ x.state = "sent"
      BY <1>1, <2>2 DEF Sent, CallType
    <3> HIDE DEF x
    <3>2. x.state \in Waiting /\ call[c].state \in Waiting
      BY <2>1, <3>1 DEF Waiting
    <3> QED BY <2>1, <3>1, <3>2, <1>2
  <2>3. CASE call' = [call EXCEPT ![c] = Ended(@, "failed")]
    <3> DEFINE x == Ended(call[c], "failed")
    <3>1. call' = [call EXCEPT ![c] = x] /\ x.state \in Over /\ x.state # "answered"
      BY <1>1, <2>3, EndedType DEF Over
    <3>2. call[c].state \in Waiting
      BY <2>1 DEF Waiting
    <3> HIDE DEF x
    <3> QED BY <2>1, <3>1, <3>2, <1>3
  <2> QED BY <1>5, <2>2, <2>3 DEF Route
<1>6. ASSUME NEW c \in Calls, Retry(c) PROVE ServiceStep
  <2>1. UNCHANGED <<ask, instance, execs, record>> /\ call[c].state = "closed"
    BY <1>6 DEF Retry, fixedVars, registryVars
  <2> DEFINE x == [call[c] EXCEPT !.state = "waiting", !.retrying = TRUE]
             y == Ended(call[c], "failed")
  <2>2. x.state = "waiting" /\ y.state = "failed" /\ y.state \in Over
    BY <1>1, EndedType DEF CallType, Over
  <2>3. call' = [call EXCEPT ![c] = x] \/ call' = [call EXCEPT ![c] = y]
    BY <1>6 DEF Retry
  <2> HIDE DEF x, y
  <2> QED BY <2>1, <2>2, <2>3, <1>2, <1>3 DEF Waiting
<1>7. ASSUME NEW c \in Calls, Abort(c) PROVE ServiceStep
  <2>1. UNCHANGED <<ask, instance, execs, record>> /\ call[c].state \in Waiting
    BY <1>7 DEF Abort, fixedVars, registryVars, Waiting
  <2> DEFINE x == [Ended(call[c], "aborted") EXCEPT !.on = IF call[c].state = "sent" THEN call[c].on ELSE 0]
  <2>2. x.state \in Over /\ x.state # "answered"
    BY <1>1, EndedType DEF CallType, Over
  <2>3. call' = [call EXCEPT ![c] = x]
    BY <1>7 DEF Abort
  <2> HIDE DEF x
  <2> QED BY <2>1, <2>2, <2>3, <1>3
<1>8. ASSUME NEW c \in Calls, NEW k \in Conns, Receive(c, k) PROVE ServiceStep
  <2> DEFINE a == req[<<c, k>>].answer
             e == req[<<c, k>>].exec
             x == [Ended(call[c], "answered") EXCEPT !.answer = a, !.exec = e]
  <2>1. /\ UNCHANGED <<ask, instance, execs, record>> /\ call[c].state \in Waiting
        /\ req[<<c, k>>].state = "replied" /\ call' = [call EXCEPT ![c] = x]
    BY <1>8 DEF Receive, WaitsOn, fixedVars, registryVars, Waiting
  <2>2. x.state = "answered" /\ x.answer = a /\ x.exec = e
    BY <1>1, EndedType DEF CallType, Over
  <2>3. a \in Outcomes => IsOutcome(ask, execs, c, e, a)
    BY <2>1 DEF OutcomeOK, ReqOK, Carries
  <2>4. a \in Outcomes => a = AnswerOf(e)
    BY <2>3 DEF IsOutcome, AnswerOf
  <2> HIDE DEF a, e, x
  <2>5. CASE a \in Outcomes
    <3>1. News(x) = [news |-> AnswerOf(e), run |-> e] /\ IsOutcome(ask, execs, c, e, AnswerOf(e))
      BY <2>2, <2>3, <2>4, <2>5, NewsIs
    <3> QED BY <2>1, <3>1, CallMoves
  <2>6. CASE a \notin Outcomes
    <3>1. News(x) = [news |-> "refused", run |-> 0]
      BY <2>2, <2>6, NewsIs DEF Waiting
    <3> QED BY <2>1, <3>1, CallMoves
  <2> QED BY <2>5, <2>6
<1>9. ASSUME NEW k \in Conns, PhoneLoses(k) PROVE ServiceStep
  <2>1. /\ UNCHANGED <<ask, instance, execs, record>>
        /\ call' = [c \in Calls |-> IF WaitsOn(c, k)
                                      THEN [call[c] EXCEPT !.state = "closed"] ELSE call[c]]
    BY <1>9 DEF PhoneLoses, fixedVars, registryVars
  <2>2. \A c \in Calls : call'[c] = call[c] \/ (call'[c].state \in Waiting /\ call[c].state \in Waiting)
    <3> TAKE c \in Calls
    <3>1. CASE WaitsOn(c, k)
      <4>1. call'[c] = [call[c] EXCEPT !.state = "closed"] /\ call[c].state = "sent"
        BY <2>1, <3>1 DEF WaitsOn
      <4> QED BY <4>1, <1>1 DEF CallType, Waiting
    <3>2. CASE ~ WaitsOn(c, k)
      BY <2>1, <3>2
    <3> QED BY <3>1, <3>2
  <2> QED BY <2>1, <2>2, NothingMoves
<1> QED BY <1>4, <1>5, <1>6, <1>7, <1>8, <1>9 DEF Phone

\* What the registry drops has ended.
LEMMA OnlyEndedIsForgotten ==
  ASSUME IInv, NEW gone, gone \subseteq Terminal(record), NEW left,
         \A p \in Operations :
           /\ left[p].state # "none" <=> (p \notin gone /\ record[p].state # "none")
           /\ left[p].state # "none" => left[p].exec = record[p].exec
  PROVE  StoodFor(left, Recorded(left)) \in Service!MayKeep
<1> USE InvFrom
<1> DEFINE kept == StoodFor(left, Recorded(left))
<1>1. ASSUME NEW e \in kept PROVE e \in Remembered
  <2>1. PICK p \in Recorded(left) : e = left[p].exec
    BY <1>1 DEF StoodFor
  <2>2. p \in Recorded(record) /\ e = record[p].exec
    BY <2>1 DEF Recorded
  <2> QED BY <2>2, RememberedIs DEF StoodFor
<1>2. ASSUME NEW e \in Remembered, e \notin kept PROVE Service!HasEnded(e)
  <2>1. PICK p \in Recorded(record) : e = record[p].exec
    BY RememberedIs DEF StoodFor
  <2>2. p \in gone
    <3>1. p \notin gone => e \in kept
      BY <2>1 DEF Recorded, StoodFor
    <3> QED BY <3>1, <1>2
  <2>3. e \in DOMAIN execs /\ execs[e].state = "done"
    BY <2>1, <2>2, Fixed DEF Registry, RecordOK, Terminal
  <2> QED BY <2>3, RunsAre
<1>3. kept \in SUBSET Remembered
  BY <1>1
<1> HIDE DEF kept
<1> QED BY <1>2, <1>3 DEF Service!MayKeep, kept

LEMMA AdmitServes ==
  ASSUME IInv, ServiceOK, NEW c \in Calls, NEW k \in Conns, Admit(c, k),
         UNCHANGED <<ask, call, instance>>, conn[k].srv = "open", req[<<c, k>>].state = "queued"
  PROVE  ServiceStep
<1> USE InvFrom
<1> DEFINE o == ask[c].operation
           x == [call |-> c, inst |-> instance, size |-> 0, state |-> "running"]
           z == Len(execs) + 1
<1>1. PICK m \in 0 .. Len(age) :
        LET gone == Oldest(age, m)
            left == Removed(record, gone)
        IN \/ record' = left /\ UNCHANGED execs
           \/ /\ left[o].state = "none"
              /\ execs' = Append(execs, x)
              /\ record' = [left EXCEPT ![o] = [state |-> "pending", exec |-> z]]
  BY AdmitForms
<1> DEFINE gone == Oldest(age, m)
           left == Removed(record, gone)
           kept == StoodFor(left, Recorded(left))
<1>2. /\ o \in Operations /\ record \in [Operations -> RecordType] /\ execs \in Seq(ExecType)
      /\ Registry(ask, instance, record, age, execs, forgotten) /\ age \in Seq(Operations)
  BY Fixed DEF PhoneTypes
<1>3. gone \subseteq Terminal(record)
  BY <1>2, OldestAreTerminal DEF Registry
<1>4. \/ record' = left /\ UNCHANGED execs
      \/ /\ left[o].state = "none"
         /\ execs' = Append(execs, x)
         /\ record' = [left EXCEPT ![o] = [state |-> "pending", exec |-> z]]
  BY <1>1
<1> HIDE DEF gone
<1>5. \A p \in Operations : left[p] = IF p \in gone THEN NoRecord ELSE record[p]
  BY <1>2, RemovedType
<1> HIDE DEF left
<1>6. kept \in Service!MayKeep
  <2>1. \A p \in Operations :
           /\ left[p].state # "none" <=> (p \notin gone /\ record[p].state # "none")
           /\ left[p].state # "none" => left[p].exec = record[p].exec
    BY <1>5 DEF NoRecord
  <2> QED BY <1>3, <2>1, OnlyEndedIsForgotten
<1>7. UNCHANGED <<ask, instance, Told>>
  BY DEF Told
<1>8. CASE record' = left /\ UNCHANGED execs
  <2>1. Remembered' = kept /\ Runs' = Runs
    BY <1>8, RunsStay DEF Remembered, StoodFor, Recorded
  <2>2. Service!Forget
    BY <1>6, <1>7, <2>1 DEF Service!Forget
  <2> QED BY <2>2 DEF ServiceStep, Service!ServiceNext
<1>9. CASE /\ left[o].state = "none"
           /\ execs' = Append(execs, x)
           /\ record' = [left EXCEPT ![o] = [state |-> "pending", exec |-> z]]
  <2> DEFINE run == [call |-> c, life |-> instance, outcome |-> "running"]
  <2>1. /\ Len(execs) \in Nat /\ DOMAIN execs = 1 .. Len(execs) /\ DOMAIN execs' = 1 .. z
        /\ execs'[z] = x /\ \A e \in DOMAIN execs : execs'[e] = execs[e]
    BY <1>2, <1>9
  <2>2. Runs' = Append(Runs, run) /\ Len(Runs) + 1 = z
    <3>1. \A e : e = z => Run(e)' = run
      BY <2>1 DEF Run
    <3>2. \A e \in DOMAIN execs : Run(e)' = Run(e)
      BY <2>1 DEF Run, AnswerOf
    <3>3. Runs' = [e \in 1 .. z |-> Run(e)']
      BY <2>1 DEF Runs
    <3> DEFINE S == {Run(e) : e \in DOMAIN execs} \cup {run}
    <3>4. Runs \in Seq(S) /\ Len(Runs) = Len(execs) /\ \A e \in DOMAIN execs : Runs[e] = Run(e)
      <4>1. Runs \in [1 .. Len(execs) -> S]
        BY <2>1 DEF Runs
      <4> QED BY <4>1, <2>1 DEF Runs
    <3> HIDE DEF S, run
    <3>5. /\ Append(Runs, run) \in Seq(S) /\ Len(Append(Runs, run)) = Len(Runs) + 1
          /\ \A e \in 1 .. Len(Runs) : Append(Runs, run)[e] = Runs[e]
          /\ Append(Runs, run)[Len(Runs) + 1] = run
      <4>1. run \in S
        BY DEF S
      <4> QED BY <4>1, <3>4, AppendProperties
    <3> DEFINE more == Append(Runs, run)
    <3> HIDE DEF more
    <3>6. DOMAIN more = 1 .. z /\ more = [e \in 1 .. z |-> more[e]]
      <4>1. more \in Seq(S) /\ Len(more) = z
        BY <3>4, <3>5 DEF more
      <4> QED BY <4>1
    <3>7. ASSUME NEW e \in 1 .. z PROVE Run(e)' = more[e]
      <4>1. CASE e = z
        BY <4>1, <3>1, <3>4, <3>5 DEF more
      <4>2. CASE e # z
        <5>1. e \in DOMAIN execs
          BY <4>2, <2>1
        <5> QED BY <5>1, <2>1, <3>2, <3>4, <3>5 DEF more
      <4> QED BY <4>1, <4>2
    <3>8. Runs' = more
      BY <3>3, <3>6, <3>7
    <3> QED BY <3>4, <3>8 DEF more
  <2>3. Remembered' = kept \cup {z}
    <3>1. record'[o] = [state |-> "pending", exec |-> z] /\ \A p \in Operations : p # o => record'[p] = left[p]
      <4>1. left \in [Operations -> RecordType]
        BY <1>2, RemovedType DEF left
      <4> QED BY <4>1, <1>2, <1>9
    <3>2. Recorded(record') = Recorded(left) \cup {o} /\ o \notin Recorded(left)
      BY <3>1, <1>2, <1>9 DEF Recorded
    <3>3. \A p \in Recorded(left) : record'[p] = left[p]
      BY <3>1, <3>2 DEF Recorded
    <3>4. Remembered' = {record'[p].exec : p \in Recorded(record')}
      BY DEF Remembered, Recorded
    <3> QED BY <3>1, <3>2, <3>3, <3>4 DEF StoodFor
  <2>4. ASSUME NEW e \in kept
        PROVE  ~ Service!SameOperation(Runs[e].call, c)
    <3>1. PICK p \in Recorded(left) : e = left[p].exec
      BY DEF StoodFor
    <3>2. p \in Operations /\ p # o /\ record[p].state # "none" /\ record[p].exec = e
      BY <3>1, <1>5, <1>9 DEF Recorded, NoRecord
    <3>3. e \in DOMAIN execs /\ ask[execs[e].call].operation = p
      BY <3>2, <1>2 DEF Registry, RecordOK, OperationOf
    <3>4. Runs[e].call = execs[e].call
      BY <3>3, RunsAre
    <3> QED BY <3>2, <3>3, <3>4 DEF Service!SameOperation
  <2>5. ASSUME NEW e \in DOMAIN Runs, Runs[e].call = c
        PROVE  Runs[e].life = instance
    <3>1. e \in DOMAIN execs /\ execs[e].call = c /\ Runs[e].life = execs[e].inst
      BY <2>5, RunsAre
    <3>2. PICK j \in Conns : req[<<c, j>>].state # "none" /\ conn[j].inst = execs[e].inst
      BY <3>1 DEF ServiceOK
    <3>3. conn[j].inst = conn[k].inst
      BY <3>2 DEF ServerOK, OneServerPerCall
    <3>4. conn[k].inst = instance
      BY DEF ServiceOK
    <3> QED BY <3>1, <3>2, <3>3, <3>4
  <2> HIDE DEF kept, run, z
  <2>6. Service!Begin(c)
    BY <1>6, <1>7, <2>2, <2>3, <2>4, <2>5 DEF Service!Begin, run
  <2> QED BY <2>6 DEF ServiceStep, Service!ServiceNext
<1> QED BY <1>4, <1>8, <1>9

\* One record retains what its outcome does.
LEMMA OneRecord ==
  ASSUME NEW rs, NEW o, NEW size, size[rs[o].exec] \in Nat
  PROVE  SizeOf(rs, {o}, size) = size[rs[o].exec]
<1> DEFINE ops == {}
           k == size[rs[o].exec]
<1>1. IsFiniteSet(BytesOf(rs, ops, size)) /\ SizeOf(rs, ops, size) = 0 /\ o \notin ops
  BY BytesNone
<1>2. ops \cup {o} = {o} /\ k \in Nat
  OBVIOUS
<1> HIDE DEF ops
<1>3. SizeOf(rs, ops \cup {o}, size) = SizeOf(rs, ops, size) + size[rs[o].exec]
  BY <1>1, BytesMore
<1>4. SizeOf(rs, {o}, size) = 0 + k
  BY <1>1, <1>2, <1>3
<1> HIDE DEF k
<1>5. 0 + k = k
  BY <1>2
<1> QED BY <1>4, <1>5 DEF k

\* An outcome is never evicted by its own completion: without the others it fits.
LEMMA NewestStays ==
  ASSUME NEW rs, NEW order \in Seq(Operations), NEW size, NEW n \in Nat, Len(order) = n + 1,
         capacity \in Nat, Held(rs) \in Nat, Held(rs) <= capacity, NEW o,
         Terminal(rs) \ Oldest(order, n) = {o}, size[rs[o].exec] \in Nat, size[rs[o].exec] <= MaxBytes
  PROVE  Evicted(rs, order, 0, size) \in 0 .. n
<1> DEFINE fits == {m \in 0 .. Len(order) :
                      /\ Held(rs) - m + 0 <= capacity
                      /\ SizeOf(rs, Terminal(rs) \ Oldest(order, m), size) <= MaxBytes}
<1>1. Evicted(rs, order, 0, size) = IF fits = {} THEN Len(order) ELSE Min(fits)
  BY DEF Evicted, Terminal
<1>2. SizeOf(rs, {o}, size) = size[rs[o].exec]
  BY OneRecord
<1>3. n \in fits
  <2>1. n \in 0 .. Len(order) /\ Held(rs) - n + 0 <= capacity
    OBVIOUS
  <2> QED BY <2>1, <1>2
<1>4. fits \subseteq Nat
  OBVIOUS
<1> HIDE DEF fits
<1> DEFINE least == Min(fits)
<1>5. least \in fits /\ least <= n
  BY <1>3, <1>4, LeastIsThere
<1>6. Evicted(rs, order, 0, size) = least
  BY <1>1, <1>3
<1> HIDE DEF least
<1>7. least \in 0 .. n
  BY <1>4, <1>5
<1> QED BY <1>6, <1>7

LEMMA ExecutionEndsServes ==
  ASSUME IInv, LimitsOK, NEW e \in DOMAIN execs, ExecutionEnds(e)
  PROVE  ServiceStep
<1> USE InvFrom
<1>1. PICK size \in 1 .. MaxBytes + 1 : Complete(e, size)
  BY DEF ExecutionEnds
<1>2. /\ execs[e].state = "running" /\ execs[e].inst = instance
      /\ UNCHANGED <<ask, call, instance, capacity>>
  BY DEF ExecutionEnds, fixedVars, phoneVars
<1> DEFINE o == ask[execs[e].call].operation
           kept == [Retained EXCEPT ![e] = Limited(size)]
           rs == [record EXCEPT ![o].state = "done"]
           order == Append(age, o)
           n == Evicted(rs, order, 0, kept)
           gone == Oldest(order, n)
           left == Removed(rs, gone)
           a == IF size > MaxBytes THEN "too_large" ELSE "result"
<1>3. /\ execs' = [execs EXCEPT ![e].state = "done", ![e].size = size]
      /\ record' = left
  BY <1>1 DEF Complete
<1>4. /\ o \in Operations /\ o = OperationOf(ask, execs, e)
      /\ record \in [Operations -> RecordType] /\ age \in Seq(Operations) /\ execs \in Seq(ExecType)
      /\ Registry(ask, instance, record, age, execs, forgotten)
  BY Parts, Fixed DEF OperationOf
<1>5. record[o] = [state |-> "pending", exec |-> e]
  BY <1>2, <1>4 DEF Registry, LiveOK
<1>6. /\ rs[o].state = "done" /\ rs[o].exec = e /\ \A p \in Operations : p # o => rs[p] = record[p]
      /\ rs \in [Operations -> RecordType]
  <2>1. rs[o] = [record[o] EXCEPT !.state = "done"] /\ \A p \in Operations : p # o => rs[p] = record[p]
    BY <1>4
  <2>2. rs[o] \in RecordType /\ rs[o].state = "done" /\ rs[o].exec = e
    BY <2>1, <1>4, <1>5 DEF RecordType
  <2>3. rs = [record EXCEPT ![o] = rs[o]]
    BY <1>4
  <2> QED BY <2>1, <2>2, <2>3, <1>4
<1>7. /\ order \in Seq(Operations) /\ Len(order) = Len(age) + 1 /\ Len(age) \in Nat
      /\ \A i \in 1 .. Len(age) : order[i] = age[i]
  BY <1>4
<1>8. kept[e] = Limited(size) /\ Limited(size) \in Nat /\ Limited(size) <= MaxBytes
  <2>1. e \in DOMAIN Retained
    BY DEF Retained
  <2>2. MaxBytes \in Nat \ {0}
    BY CommandAssumption
  <2> QED BY <2>1, <2>2 DEF Limited
<1> HIDE DEF rs, order, kept
<1>9. Oldest(order, Len(age)) = Terminal(record) /\ o \notin Terminal(record)
  <2>1. Len(age) \in 0 .. Len(age)
    BY <1>7
  <2>2. Oldest(age, Len(age)) = Terminal(record)
    BY <2>1, <1>4, OldestAreTerminal DEF Registry
  <2>3. Oldest(order, Len(age)) = Oldest(age, Len(age))
    BY <1>7 DEF Oldest
  <2> QED BY <2>2, <2>3, <1>5 DEF Terminal
<1>10. Terminal(rs) \ Oldest(order, Len(age)) = {o} /\ Recorded(rs) = Recorded(record)
  BY <1>4, <1>5, <1>6, <1>9 DEF Terminal, Recorded
<1>11. n \in 0 .. Len(age)
  <2>1. Held(rs) = Cardinality(Recorded(record))
    BY <1>10 DEF Held, Recorded
  <2>2. Held(rs) \in Nat /\ Held(rs) <= capacity /\ capacity \in Nat
    BY <2>1, FS_CardinalityType, SettingsType DEF LimitsOK, Counted
  <2>3. kept[rs[o].exec] = Limited(size)
    BY <1>6, <1>8
  <2> QED BY <2>2, <2>3, <1>7, <1>8, <1>10, NewestStays
<1> HIDE DEF n
<1>12. gone \subseteq Terminal(record)
  <2>1. \A i \in 1 .. n : i \in 1 .. Len(age)
    BY <1>7, <1>11
  <2> QED BY <2>1, <1>9 DEF Oldest
<1> HIDE DEF gone
<1>13. Remembered' \in Service!MayKeep
  <2>1. \A p \in Operations : left[p] = IF p \in gone THEN NoRecord ELSE rs[p]
    BY <1>6, RemovedType
  <2> HIDE DEF left
  <2>2. \A p \in Operations :
           /\ left[p].state # "none" <=> (p \notin gone /\ record[p].state # "none")
           /\ left[p].state # "none" => left[p].exec = record[p].exec
    <3> TAKE p \in Operations
    <3>1. CASE p = o
      BY <3>1, <2>1, <1>5, <1>6, <1>9, <1>12 DEF NoRecord
    <3>2. CASE p # o
      BY <3>2, <2>1, <1>6 DEF NoRecord
    <3> QED BY <3>1, <3>2
  <2>3. StoodFor(left, Recorded(left)) \in Service!MayKeep
    BY <2>2, <1>12, OnlyEndedIsForgotten
  <2> QED BY <2>3, <1>3 DEF Remembered, StoodFor, Recorded
<1>14. Runs' = [Runs EXCEPT ![e].outcome = a]
  <2>1. /\ DOMAIN execs' = DOMAIN execs /\ \A d \in DOMAIN execs : d # e => execs'[d] = execs[d]
        /\ execs'[e] = [execs[e] EXCEPT !.state = "done", !.size = size]
    BY <1>3, <1>4
  <2>2. execs'[e].state = "done" /\ execs'[e].size = size
        /\ execs'[e].call = execs[e].call /\ execs'[e].inst = execs[e].inst
    BY <2>1, Parts DEF ExecType
  <2>3. \A d : d = e => Run(d)' = [Run(d) EXCEPT !.outcome = a]
    BY <2>2 DEF Run, AnswerOf
  <2>4. \A d \in DOMAIN execs : d # e => Run(d)' = Run(d)
    BY <2>1 DEF Run, AnswerOf
  <2>5. Runs' = [d \in DOMAIN execs |-> Run(d)'] /\ Runs = [d \in DOMAIN execs |-> Run(d)]
    BY <2>1 DEF Runs
  <2> HIDE DEF a
  <2> QED BY <2>3, <2>4, <2>5
<1>15. e \in DOMAIN Runs /\ Runs[e].outcome = "running"
  BY <1>2, RunsAre
<1>16. a \in {"result", "too_large"} /\ Told' = Told
  BY <1>2 DEF Told
<1> HIDE DEF a
<1>17. Service!End(e)
  BY <1>2, <1>13, <1>14, <1>15, <1>16 DEF Service!End
<1> QED BY <1>15, <1>17 DEF ServiceStep, Service!ServiceNext

LEMMA RestartServes ==
  ASSUME IInv, Restart
  PROVE  ServiceStep
<1> USE InvFrom
<1> DEFINE Lost(x) == IF x.state = "running" THEN [x EXCEPT !.state = "lost"] ELSE x
<1>1. /\ instance' = instance + 1 /\ UNCHANGED <<ask, call>>
      /\ DOMAIN execs' = DOMAIN execs /\ \A e \in DOMAIN execs : execs'[e] = Lost(execs[e])
      /\ \A o \in Operations : record'[o] = NoRecord
  BY DEF Restart, fixedVars, phoneVars
<1>2. Remembered' = {}
  BY <1>1 DEF Remembered, NoRecord
<1>3. Runs' = [e \in DOMAIN Runs |->
                 IF Runs[e].outcome = "running" THEN [Runs[e] EXCEPT !.outcome = "lost"] ELSE Runs[e]]
  <2>1. \A e \in DOMAIN execs :
          Run(e)' = IF Run(e).outcome = "running" THEN [Run(e) EXCEPT !.outcome = "lost"] ELSE Run(e)
    <3> TAKE e \in DOMAIN execs
    <3>1. execs[e] \in ExecType
      BY Parts
    <3>2. CASE execs[e].state = "running"
      <4>1. execs'[e].state = "lost" /\ execs'[e].call = execs[e].call /\ execs'[e].inst = execs[e].inst
        BY <3>1, <3>2, <1>1 DEF ExecType
      <4> QED BY <4>1, <3>2 DEF Run
    <3>3. CASE execs[e].state # "running"
      <4>1. execs'[e] = execs[e]
        BY <3>3, <1>1
      <4> QED BY <4>1, <3>3 DEF Run, AnswerOf
    <3> QED BY <3>2, <3>3
  <2>2. Runs' = [e \in DOMAIN execs |-> Run(e)'] /\ Runs = [e \in DOMAIN execs |-> Run(e)]
    BY <1>1 DEF Runs
  <2> QED BY <2>1, <2>2
<1>4. Told' = Told
  BY <1>1 DEF Told
<1>5. Service!Die
  BY <1>1, <1>2, <1>3, <1>4 DEF Service!Die
<1> QED BY <1>5 DEF ServiceStep, Service!ServiceNext

LEMMA NextServes == IInv /\ LimitsOK /\ ServiceOK /\ [Next]_vars => ServiceStep
<1> SUFFICES ASSUME IInv, LimitsOK, ServiceOK, [Next]_vars PROVE ServiceStep
  OBVIOUS
<1> USE InvFrom
<1>1. ASSUME UNCHANGED <<ask, call, instance, execs, record>> PROVE ServiceStep
  BY <1>1, NothingMoves DEF PhoneTypes
<1>2. CASE Server
  <2>1. CASE StartNext
    <3> DEFINE c == Head(lane)[1]
               k == Head(lane)[2]
    <3>1. c \in Calls /\ k \in Conns
      <4>1. lane \in Seq(Requests) /\ lane # <<>>
        BY <2>1 DEF StartNext, RequestTypes
      <4> QED BY <4>1, HeadTailProperties DEF Requests
    <3>2. UNCHANGED <<ask, call, instance>>
      BY <2>1 DEF StartNext, fixedVars, phoneVars
    <3>3. CASE conn[k].srv = "open" /\ req[<<c, k>>].state = "queued"
      <4>1. Admit(c, k)
        BY <2>1, <3>3 DEF StartNext
      <4> HIDE DEF c, k
      <4> QED BY <4>1, <3>1, <3>2, <3>3, AdmitServes
    <3>4. CASE ~ (conn[k].srv = "open" /\ req[<<c, k>>].state = "queued")
      <4>1. UNCHANGED <<execs, record>>
        BY <2>1, <3>4 DEF StartNext, registryVars
      <4> QED BY <4>1, <3>2, <1>1
    <3> QED BY <3>3, <3>4
  <2>2. CASE Restart
    BY <2>2, RestartServes
  <2>3. ASSUME NEW k \in Conns, ServerDrops(k) \/ ReaderEnds(k) PROVE ServiceStep
    BY <2>3, <1>1 DEF ServerDrops, ReaderEnds, fixedVars, phoneVars, registryVars
  <2>4. ASSUME NEW c \in Calls, NEW k \in Conns, Enqueue(c, k) \/ Cancel(c, k) \/ JoinedWakes(c, k)
        PROVE  ServiceStep
    BY <2>4, <1>1 DEF Enqueue, Cancel, JoinedWakes, fixedVars, phoneVars, registryVars
  <2>5. ASSUME NEW e \in DOMAIN execs, ExecutionEnds(e) PROVE ServiceStep
    BY <2>5, ExecutionEndsServes
  <2> QED BY <1>2, <2>1, <2>2, <2>3, <2>4, <2>5 DEF Server
<1>3. CASE Phone
  BY <1>3, PhoneServes
<1>4. CASE UNCHANGED vars
  BY <1>1, <1>4 DEF vars, fixedVars, phoneVars, registryVars
<1> QED BY <1>2, <1>3, <1>4 DEF Next

LEMMA InitServes == Init => Service!ServiceInit
<1> SUFFICES ASSUME Init PROVE Service!ServiceInit
  OBVIOUS
<1>1. Types
  BY InitTypes
<1>2. ask \in [Calls -> [operation : Operations, payload : Payloads]] /\ instance = 1
  BY <1>1 DEF Types, PhoneTypes, Init
<1>3. Runs = <<>>
  <2>1. Len(Runs) = 0 /\ Runs \in Seq({Run(e) : e \in DOMAIN execs})
    BY <1>1, RunsAre DEF Init
  <2> QED BY <2>1
<1>4. Remembered = {}
  BY DEF Init, Remembered, NoRecord
<1>5. Told = [c \in Calls |-> Service!Nothing]
  <2>1. News(NewCall) = [news |-> "none", run |-> 0]
    BY NewsIs DEF NewCall, Waiting
  <2> QED BY <2>1 DEF Init, Told, Service!Nothing
<1> QED BY <1>2, <1>3, <1>4, <1>5 DEF Service!ServiceInit

\* What the phone may rely on is kept: see CommandService.  A command is begun
\* when none of its operation is remembered and for one call at one instance
\* only, only a restart stops it, and a call is told how its own has ended.
THEOREM ServesCommands == Spec => RefinesCommandService
<1>1. Init => IInv /\ LimitsOK /\ ServiceOK /\ Service!ServiceInit
  BY InitInv, InitLimits, InitService, InitServes
<1>2. IInv /\ LimitsOK /\ ServiceOK /\ [Next]_vars => (IInv /\ LimitsOK /\ ServiceOK)'
  <2> SUFFICES ASSUME IInv, LimitsOK, ServiceOK, [Next]_vars PROVE (IInv /\ LimitsOK /\ ServiceOK)'
    OBVIOUS
  <2>1. CASE Next
    BY <2>1, NextKeeps, NextLimits, ServiceNextKeeps
  <2>2. CASE UNCHANGED vars
    <3>1. ServiceOK'
      BY <2>2 DEF vars, ServiceOK
    <3> QED BY <3>1, NextKeeps, NextLimits
  <2> QED BY <2>1, <2>2
<1>3. IInv /\ LimitsOK /\ ServiceOK /\ [Next]_vars => [Service!ServiceNext]_(Service!serviceVars)
  BY NextServes DEF ServiceStep
<1> QED BY <1>1, <1>2, <1>3, PTL DEF Spec, RefinesCommandService, Service!ServiceSpec

=============================================================================
