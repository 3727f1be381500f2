\* Whole chunks whose last byte is not 0 raise the flag before the sender does.
CONSTANTS
  N = 2
  Pieces = {x1}
  LastByte = lastbyte
  LastBytes = {7}
  Lengths <- OneAndRest
  Pairs <- OneWay
  MaxSends = 1
SPECIFICATION Spec
INVARIANT InOrder
\* The bounds end the behaviour.
CHECK_DEADLOCK FALSE
