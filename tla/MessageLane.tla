----------------------------- MODULE MessageLane -----------------------------
(***************************************************************************)
(* What a conversation promises about the messages queued on it, whatever  *)
(* the provider and the process do in between.                             *)
(*                                                                         *)
(* A message is offered to the provider once at most.  While it is not     *)
(* settled it holds the lane: no other message is offered.  It becomes a   *)
(* turn of the conversation only if the provider has taken it, and a       *)
(* message that was refused or given up never becomes one.                 *)
(***************************************************************************)
CONSTANT Commands

VARIABLES
  outcome,  \* what has become of a message
  taken     \* the messages the provider has begun to process

laneVars == <<outcome, taken>>

Outcomes == {"queued", "offered", "delivered", "settled", "refused", "abandoned"}

\* A delivered message keeps the lane until what the provider said about it
\* meanwhile is in the journal.
HoldsLane(c) == outcome[c] \in {"offered", "delivered"}

LaneInit ==
  /\ outcome = [c \in Commands |-> "queued"]
  /\ taken = {}

Offer(c) ==
  /\ outcome[c] = "queued"
  /\ \A d \in Commands : ~HoldsLane(d)
  /\ outcome' = [outcome EXCEPT ![c] = "offered"]
  /\ UNCHANGED taken

\* Nothing takes a message once it is refused or given up: the process that
\* had it is stopped first.
Take(c) ==
  /\ outcome[c] = "offered"
  /\ c \notin taken
  /\ taken' = taken \cup {c}
  /\ UNCHANGED outcome

Deliver(c) ==
  /\ outcome[c] = "offered" /\ c \in taken
  /\ \E o \in {"delivered", "settled"} : outcome' = [outcome EXCEPT ![c] = o]
  /\ UNCHANGED taken

Settle(c) ==
  /\ outcome[c] = "delivered"
  /\ outcome' = [outcome EXCEPT ![c] = "settled"]
  /\ UNCHANGED taken

Refuse(c) ==
  /\ outcome[c] = "offered" /\ c \notin taken
  /\ outcome' = [outcome EXCEPT ![c] = "refused"]
  /\ UNCHANGED taken

Abandon(c) ==
  /\ outcome[c] = "offered"
  /\ outcome' = [outcome EXCEPT ![c] = "abandoned"]
  /\ UNCHANGED taken

LaneNext ==
  \E c \in Commands :
    Offer(c) \/ Take(c) \/ Deliver(c) \/ Settle(c) \/ Refuse(c) \/ Abandon(c)

LaneSpec == LaneInit /\ [][LaneNext]_laneVars
=============================================================================
