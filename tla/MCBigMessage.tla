---------------------------- MODULE MCBigMessage ----------------------------
(* Small instances of BigMessage for TLC. *)
EXTENDS BigMessage

\* One or two whole chunks and a shorter one.
OneAndRest == {[chunks |-> 1, rest |-> TRUE]}
TwoAndRest == {[chunks |-> 2, rest |-> TRUE]}

\* 0 sends to 1; 0 and 1 send to each other, and 2 sends to 0.
OneWay == {<<0, 1>>}
BothWays == {<<0, 1>>, <<1, 0>>, <<2, 0>>}
=============================================================================
