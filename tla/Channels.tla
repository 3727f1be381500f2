------------------------------ MODULE Channels ------------------------------
(***************************************************************************)
(* What ssmp promises its users: between every ordered pair of processes   *)
(* there is a channel that holds at most one pending message and hands     *)
(* over every accepted message exactly once, whole and in order.           *)
(* "Every process is allowed to send only a single pending message to each *)
(* other process" (README, Limitations 1).                                 *)
(*                                                                         *)
(* The k-th message of a channel is the line whose words are all k, so a   *)
(* line mixed from two messages, a repeated one and a skipped one are all  *)
(* different from the line that is due.                                    *)
(***************************************************************************)
EXTENDS Integers, Sequences

CONSTANTS
  Chan,     \* the channels
  Words     \* the words of a message

VARIABLES
  accepted,   \* accepted[c]: how many messages channel c has taken so far
  delivered   \* delivered[c]: the lines handed to the receiver, in order

Line(k) == [w \in Words |-> k]

Init == /\ accepted = [c \in Chan |-> 0]
        /\ delivered = [c \in Chan |-> << >>]

Accept(c) == /\ accepted[c] = Len(delivered[c])
             /\ accepted' = [accepted EXCEPT ![c] = @ + 1]
             /\ UNCHANGED delivered

Deliver(c) == /\ Len(delivered[c]) < accepted[c]
              /\ delivered' = [delivered EXCEPT ![c] = Append(@, Line(accepted[c]))]
              /\ UNCHANGED accepted

Next == \E c \in Chan : Accept(c) \/ Deliver(c)

Spec == Init /\ [][Next]_<<accepted, delivered>>
=============================================================================
