----------------------------- MODULE Rendezvous -----------------------------
(***************************************************************************)
(* What a barrier promises: "wait on a barrier until all participants      *)
(* reach this call" (ssmp.h).  A participant leaves its k-th wait only     *)
(* when every participant has entered its own k-th wait.                   *)
(***************************************************************************)
EXTENDS Integers

CONSTANT Participants

VARIABLES entered, left   \* waits entered, waits left, per participant

Init == /\ entered = [p \in Participants |-> 0]
        /\ left = [p \in Participants |-> 0]

Enter(p) == /\ entered[p] = left[p]
            /\ entered' = [entered EXCEPT ![p] = @ + 1]
            /\ UNCHANGED left

Leave(p) == /\ left[p] < entered[p]
            /\ \A q \in Participants : left[p] < entered[q]
            /\ left' = [left EXCEPT ![p] = @ + 1]
            /\ UNCHANGED entered

Next == \E p \in Participants : Enter(p) \/ Leave(p)

Spec == Init /\ [][Next]_<<entered, left>>
=============================================================================
