---------------------------- MODULE CommandService ----------------------------
(***************************************************************************)
(* What the phone may rely on when it sends a command with an operation    *)
(* id, whatever connections, lost replies and cancellations lie between it *)
(* and the extension.                                                      *)
(*                                                                         *)
(* The service begins a command only when it remembers none of the same    *)
(* operation, and all that it begins for one call it begins in one of its  *)
(* lives.  What has begun runs to its end unless the service dies, and is  *)
(* remembered at least until then.  A call is told one thing: how a        *)
(* command equal to its own has ended, or that it will not be told.        *)
(***************************************************************************)
EXTENDS Naturals, Sequences

CONSTANTS Calls, Operations, Payloads

VARIABLES
  wanted,  \* what every call asks for
  life,    \* the life of the service
  runs,    \* the commands begun, in order
  kept,    \* those the service remembers
  told     \* what every call has been told

serviceVars == <<wanted, life, runs, kept, told>>

Nothing == [news |-> "none", run |-> 0]
HasEnded(e) == runs[e].outcome \in {"result", "too_large"}
SameOperation(c, d) == wanted[c].operation = wanted[d].operation
SameCommand(c, d) == SameOperation(c, d) /\ wanted[c].payload = wanted[d].payload

\* What the service may still remember: only what has ended is forgotten.
MayKeep == {left \in SUBSET kept : \A e \in kept \ left : HasEnded(e)}

ServiceInit ==
  /\ wanted \in [Calls -> [operation : Operations, payload : Payloads]]
  /\ life = 1 /\ runs = <<>> /\ kept = {}
  /\ told = [c \in Calls |-> Nothing]

Begin(c) ==
  /\ runs' = Append(runs, [call |-> c, life |-> life, outcome |-> "running"])
  /\ \A e \in DOMAIN runs : runs[e].call = c => runs[e].life = life
  /\ \E left \in MayKeep :
       /\ \A e \in left : ~ SameOperation(runs[e].call, c)
       /\ kept' = left \cup {Len(runs) + 1}
  /\ UNCHANGED <<wanted, life, told>>

End(e) ==
  /\ runs[e].outcome = "running"
  /\ \E outcome \in {"result", "too_large"} : runs' = [runs EXCEPT ![e].outcome = outcome]
  /\ kept' \in MayKeep
  /\ UNCHANGED <<wanted, life, told>>

Forget ==
  /\ UNCHANGED <<wanted, life, runs, told>>
  /\ kept' \in MayKeep

\* What ended may have been forgotten since, and the service may have died.
Tell(c, e) ==
  /\ told[c] = Nothing /\ HasEnded(e) /\ SameCommand(c, runs[e].call)
  /\ told' = [told EXCEPT ![c] = [news |-> runs[e].outcome, run |-> e]]
  /\ UNCHANGED <<wanted, life, runs, kept>>

Refuse(c) ==
  /\ told[c] = Nothing
  /\ told' = [told EXCEPT ![c] = [news |-> "refused", run |-> 0]]
  /\ UNCHANGED <<wanted, life, runs, kept>>

Die ==
  /\ life' = life + 1 /\ kept' = {}
  /\ runs' = [e \in DOMAIN runs |->
                IF runs[e].outcome = "running" THEN [runs[e] EXCEPT !.outcome = "lost"]
                ELSE runs[e]]
  /\ UNCHANGED <<wanted, told>>

ServiceNext ==
  \/ Forget \/ Die
  \/ \E c \in Calls : Begin(c) \/ Refuse(c)
  \/ \E e \in DOMAIN runs : End(e) \/ \E c \in Calls : Tell(c, e)

ServiceSpec == ServiceInit /\ [][ServiceNext]_serviceVars
=============================================================================
