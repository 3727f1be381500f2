\* Two servers, two clients, four messages each; one way, round trips, and
\* round trips that the servers answer without looking at the line.
CONSTANTS
  N = 4
  DslPerCore = 2
  NumMsgs = 4
  Builds = {{}, {"ROUNDTRIP"}, {"ROUNDTRIP", "NO_SYNC_SRV"}}
SPECIFICATION FairSpec
INVARIANTS IInv PingPong NothingUnserved AnswerIsFree
PROPERTY Finishes
\* The program ends.
CHECK_DEADLOCK FALSE
