\* memcpy stores the state byte before it has stored the last words.
CONSTANTS
  N = 2
  Words = {w1, w2}
  Flag = flag
  FlagLast = FALSE
  Cas <- PlainClaims
  CBuf <- AllOthers
  Calls <- FunnelCalls
  MaxSend <- ToZero2
SPECIFICATION Spec
INVARIANT ExactlyOnce
\* The receiver may wait for a message nobody sends.
CHECK_DEADLOCK FALSE
