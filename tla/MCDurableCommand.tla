--------------------------- MODULE MCDurableCommand ---------------------------
\* Two calls: the same command twice, one operation with two sets of
\* parameters, or two operations with room for one record or for two.
EXTENDS DurableCommand, TLC

CONSTANTS a, b

Asking(o, p) == [operation |-> o, payload |-> p]
Setting(o, p, n) == [asks |-> (a :> Asking("send", "p")) @@ (b :> Asking(o, p)), capacity |-> n]
MCSettings ==
  {Setting("send", "p", 2), Setting("send", "q", 2), Setting("steer", "p", 1),
   Setting("steer", "p", 2)}
MCSameCommand == {[asks |-> [c \in Calls |-> Asking("send", "p")], capacity |-> 1]}
MCOperations == {"send", "steer"}
MCPayloads == {"p", "q"}
=============================================================================
