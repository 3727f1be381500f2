\* Two whole chunks that end in 0 and a rest; three processes, 0 and 1 in both directions.
CONSTANTS
  N = 3
  Pieces = {x1, x2}
  LastByte = lastbyte
  LastBytes = {0}
  Lengths <- TwoAndRest
  Pairs <- BothWays
  MaxSends = 2
SPECIFICATION FairSpec
INVARIANTS IInv InOrder TakeTurns
PROPERTY Completes
\* Both processes may wait for a message of the other.
CHECK_DEADLOCK FALSE
