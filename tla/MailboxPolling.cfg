\* Process 0 polls two senders, one of whom sends without looking, with the scan
\* and by name.
CONSTANTS
  N = 3
  Words = {w1}
  Flag = flag
  FlagLast = FALSE
  Cas <- PlainClaims
  CBuf <- AllOthers
  Calls <- PollCalls
  MaxSend <- FewSends
SPECIFICATION FairSpec
INVARIANTS ForwardInv WordsMonotone
PROPERTIES BroadcastReturns FairScan RecvFromReturns ScanReturns SendReturns
\* A process may call a receive nobody will ever answer.
CHECK_DEADLOCK FALSE
