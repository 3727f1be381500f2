\* x86, three processes or threads, two runs, the first of which may crash anywhere.
CONSTANTS
  N = 3
  Arch = "x86"
  MaxRuns = 2
  MaxSent = 1
SPECIFICATION FairSpec
INVARIANTS IInv NothingErased NoGhosts Connected
PROPERTY Starts
\* The last run ends.
CHECK_DEADLOCK FALSE
