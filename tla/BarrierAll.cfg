\* The colored six of nine processes, three rounds.
CONSTANTS
  N = 9
  HasColor = TRUE
  Color <- ColorApp
  MaxRounds = 3
SPECIFICATION FairSpec
INVARIANTS AllTogether NeverStuck IInv
PROPERTIES PromisedSpec Released
\* Processes stop when they have waited MaxRounds times.
CHECK_DEADLOCK FALSE
