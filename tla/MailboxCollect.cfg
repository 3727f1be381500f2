\* Process 0 collects from a sender on its socket and a broadcaster on another,
\* on each platform.
CONSTANTS
  N = 3
  Words = {"w0w1", "w2w3"}
  Flag = "state"
  FlagLast = TRUE
  Dwords <- TwoDwords
  Cas <- NoCas
  CBuf <- AllOthers
  Calls <- CollectCalls
  MaxSend <- ToReceivers2
SPECIFICATION PlatformsSpec
INVARIANTS IInv ExactlyOnce NothingLost NoOverlap
PROPERTY PromisedSpec
\* A process may call a receive nobody will ever answer.
CHECK_DEADLOCK FALSE
